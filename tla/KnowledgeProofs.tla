--------------------------- MODULE KnowledgeProofs ---------------------------
(***************************************************************************)
(* Theorems about what is derived from transcripts: the freshness of one   *)
(* meeting's chunks and summary (TranscriptFreshness), and the user's      *)
(* graph under merges and their undo (EntityGraph).  The two share no      *)
(* variable; the graph's part starts at Mentions, and what undo gives back *)
(* of relations and names at Same.                                         *)
(***************************************************************************)
EXTENDS TranscriptFreshness, EntityGraph, FiniteSetTheorems, TLAPS

FreshTypes ==
  /\ version \in [Segs -> Nat] /\ editedAt \in [Segs -> Nat]
  /\ phase \in {"queued", "processing", "ready", "failed"} /\ scope \in {"full", "changed"}
  /\ startedAt \in Nat /\ clock \in Nat /\ startedAt <= clock
  /\ succeeded \subseteq StepSet
  /\ handler.step \in {"none", "chunk", "summarize"}
  /\ embedded \subseteq chunks /\ extracted \subseteq chunks
  /\ touches \in Nat

\* A chunk holds lines of its range, and its range some line.
ChunkShape(c) == DOMAIN c.content \subseteq c.from .. c.to /\ Present \cap (c.from .. c.to) # {}

\* The steps succeed in their order, and a handler is inside the step that is the next.
OrderInv ==
  /\ \A step \in succeeded : Before[step] \subseteq succeeded
  /\ phase = "ready" => succeeded = StepSet
  /\ handler.step # "none" => Running(handler.step)

\* What a step that succeeded has left.
StepsInv ==
  /\ \A c \in chunks : ChunkShape(c)
  /\ "embed" \in succeeded => chunks \subseteq embedded
  /\ "extract" \in succeeded => chunks \subseteq extracted
  /\ "resolve" \in succeeded => extracted \subseteq resolved
  /\ "summarize" \in succeeded => summaryOf = chunks
  /\ handler.step = "chunk" => handler.read \in Drafts
  /\ handler.step = "summarize" => handler.read = chunks

StepInv == FreshTypes /\ OrderInv /\ StepsInv

Covered(s) == \E c \in chunks : s \in DOMAIN c.content

\* A line that is not in the chunks as it stands changed behind a chunk step, or the app can tell.
LinesInv ==
  /\ "chunk" \in succeeded \/ scope = "changed" => \A s \in Present \ unseen : Covered(s)
  /\ "chunk" \in succeeded =>
       \A s \in Present \ unseen : Current(s) \/ (phase = "ready" /\ editedAt[s] > startedAt)

FreshInv == StepInv /\ LinesInv

------------------------------------------------------------------------------
(* Chunks and drafts *)

LEMMA CutFacts ==
  ASSUME NEW f, NEW t
  PROVE  /\ Cut(f, t).from = f /\ Cut(f, t).to = t
         /\ DOMAIN Cut(f, t).content = Present \cap (f .. t)
         /\ \A s \in Present \cap (f .. t) : Cut(f, t).content[s] = version[s]
BY DEF Cut

\* The chunks of a draft are cut from the transcript as it stands.
LEMMA DraftIsCut ==
  ASSUME NEW D \in Drafts, NEW c \in D
  PROVE  \E f, t : c = Cut(f, t) /\ Present \cap (f .. t) # {}
<1> DEFINE Old == scope = "changed" /\ chunks # {}
           Rest == {s \in Present : s > LastEnd(chunks)}
<1>1. ASSUME NEW S \in SUBSET Present, NEW C \in Cuttings(S), NEW r \in C
      PROVE  Present \cap (r[1] .. r[2]) # {}
  <2>1. r[1] \in Present /\ r[2] \in Present /\ r[1] <= r[2]
    BY <1>1 DEF Cuttings
  <2>2. r[1] \in Int /\ r[2] \in Int
    BY <2>1, FreshAssumption DEF Present, Segs
  <2> QED BY <2>1, <2>2
<1>2. ASSUME c \in Rechunk(chunks)
      PROVE  \E f, t : c = Cut(f, t) /\ Present \cap (f .. t) # {}
  BY <1>2 DEF Rechunk
<1>3. CASE Old
  <2>1. PICK C \in Cuttings(Rest) : D = Rechunk(chunks) \cup {Cut(r[1], r[2]) : r \in C}
    BY <1>3 DEF Drafts
  <2>2. Rest \in SUBSET Present
    OBVIOUS
  <2> HIDE DEF Rest
  <2> QED BY <2>1, <2>2, <1>1, <1>2
<1>4. CASE ~Old
  <2>1. PICK C \in Cuttings(Present) : D = {Cut(r[1], r[2]) : r \in C}
    BY <1>4 DEF Drafts
  <2> QED BY <2>1, <1>1
<1> QED BY <1>3, <1>4

LEMMA DraftShape ==
  ASSUME NEW D \in Drafts, NEW c \in D
  PROVE  ChunkShape(c) /\ \A s \in DOMAIN c.content : c.content[s] = version[s]
<1>1. PICK f, t : c = Cut(f, t) /\ Present \cap (f .. t) # {}
  BY DraftIsCut
<1> QED BY <1>1, CutFacts DEF ChunkShape

\* A changed run cuts the chunks it finds again; a run that finds none cuts every line.
LEMMA DraftKeepsCuts ==
  ASSUME NEW D \in Drafts, scope = "changed", NEW c \in chunks, ChunkShape(c)
  PROVE  Cut(c.from, c.to) \in D
<1>1. Cut(c.from, c.to) \in Rechunk(chunks)
  BY DEF Rechunk, ChunkShape
<1>2. Rechunk(chunks) \subseteq D
  BY DEF Drafts
<1> QED BY <1>1, <1>2

LEMMA DraftCutsAll ==
  ASSUME NEW D \in Drafts, ~(scope = "changed" /\ chunks # {}), NEW s \in Present
  PROVE  \E c \in D : s \in DOMAIN c.content
<1>1. PICK C \in Cuttings(Present) : D = {Cut(r[1], r[2]) : r \in C}
  BY DEF Drafts
<1>2. Present = UNION {Present \cap (r[1] .. r[2]) : r \in C}
  BY <1>1 DEF Cuttings
<1>3. PICK r \in C : s \in r[1] .. r[2]
  BY <1>2
<1>4. Cut(r[1], r[2]) \in D
  BY <1>1
<1>5. s \in DOMAIN Cut(r[1], r[2]).content
  BY <1>3, CutFacts
<1> QED BY <1>4, <1>5

LEMMA DraftsKept ==
  ASSUME UNCHANGED <<version, scope, chunks>>
  PROVE  Drafts' = Drafts
BY DEF Drafts, Rechunk, Cut, Cuttings, LastEnd, Present

LEMMA OrderFacts ==
  /\ Before["chunk"] = {} /\ Before["embed"] = {"chunk"} /\ Before["extract"] = {"chunk", "embed"}
  /\ Before["resolve"] = {"chunk", "embed", "extract"}
  /\ Before["summarize"] = {"chunk", "embed", "extract", "resolve"}
  /\ StepSet = {"chunk", "embed", "extract", "resolve", "summarize"}
BY DEF Before, StepSet
------------------------------------------------------------------------------
(* The steps' marks: StepInv *)

LEMMA StepInit == FreshInit => StepInv
BY DEF FreshInit, StepInv, FreshTypes, OrderInv, StepsInv, Idle, Running

\* While no handler is in a step, only what a step has left must stand.
LEMMA OutOfRun ==
  ASSUME StepInv, phase # "processing"
  PROVE  handler.step = "none"
BY DEF StepInv, OrderInv, FreshTypes, Running

LEMMA TranscriptTypes ==
  ASSUME StepInv, NEW s \in Segs, EditSegment(s) \/ UploadLate(s)
  PROVE  /\ version' \in [Segs -> Nat] /\ editedAt' \in [Segs -> Nat] /\ clock' \in Nat /\ startedAt <= clock'
         /\ Present \subseteq Present'
         /\ phase # "processing"
         /\ UNCHANGED <<runVars, chunkVars, taskVars, summaryOf, handler>>
<1>1. /\ version \in [Segs -> Nat] /\ editedAt \in [Segs -> Nat] /\ clock \in Nat
      /\ startedAt \in Nat /\ startedAt <= clock
  BY DEF StepInv, FreshTypes
<1>2. CASE EditSegment(s)
  BY <1>1, <1>2 DEF EditSegment, Present
<1>3. CASE UploadLate(s)
  BY <1>1, <1>3 DEF UploadLate, Present
<1> QED BY <1>2, <1>3

LEMMA TranscriptSteps ==
  ASSUME StepInv, NEW s \in Segs, EditSegment(s) \/ UploadLate(s)
  PROVE  StepInv'
<1>1. /\ version' \in [Segs -> Nat] /\ editedAt' \in [Segs -> Nat] /\ clock' \in Nat /\ startedAt <= clock'
      /\ Present \subseteq Present' /\ phase # "processing"
      /\ phase' = phase /\ scope' = scope /\ startedAt' = startedAt /\ succeeded' = succeeded
      /\ chunks' = chunks /\ embedded' = embedded /\ extracted' = extracted /\ resolved' = resolved
      /\ summaryOf' = summaryOf /\ handler' = handler /\ touches' = touches
  BY TranscriptTypes DEF runVars, chunkVars, taskVars
<1>2. handler.step = "none"
  BY <1>1, OutOfRun
<1>3. FreshTypes'
  BY <1>1 DEF StepInv, FreshTypes
<1>4. OrderInv'
  BY <1>1, <1>2 DEF StepInv, OrderInv
<1>5. \A c \in chunks : Present' \cap (c.from .. c.to) # {}
  BY <1>1 DEF StepInv, StepsInv, ChunkShape
<1>6. StepsInv'
  BY <1>1, <1>2, <1>5 DEF StepInv, StepsInv, ChunkShape
<1> QED BY <1>3, <1>4, <1>6 DEF StepInv

\* Starting, ending and asking for a run.
LEMMA RunSteps ==
  ASSUME StepInv,
         (\E asked \in {"changed", "full"} : Reindex(asked)) \/ StartRun \/ Complete \/ FailStep
  PROVE  StepInv'
<1>1. /\ UNCHANGED version /\ UNCHANGED <<editedAt, chunkVars, summaryOf, touches>>
  BY DEF Reindex, StartRun, Complete, FailStep, transcriptVars, taskVars
<1>2. /\ Present' = Present
      /\ editedAt' = editedAt /\ chunks' = chunks /\ embedded' = embedded /\ extracted' = extracted
      /\ resolved' = resolved /\ summaryOf' = summaryOf /\ touches' = touches
  BY <1>1 DEF Present, chunkVars
<1>3. FreshTypes /\ OrderInv /\ StepsInv
  BY DEF StepInv
<1> DEFINE Moved ==
        /\ phase' \in {"queued", "processing", "ready", "failed"} /\ scope' \in {"full", "changed"}
        /\ startedAt' \in Nat /\ clock' \in Nat /\ startedAt' <= clock'
        /\ succeeded' \in {succeeded, {}}
        /\ phase' = "ready" => succeeded' = StepSet
        /\ handler'.step = "none"
<1>4. Moved
  <2>1. ASSUME NEW asked \in {"changed", "full"}, Reindex(asked) PROVE Moved
    <3>1. handler.step = "none"
      BY <2>1, OutOfRun DEF Reindex
    <3> QED BY <1>3, <2>1, <3>1 DEF Reindex, Kept, FreshTypes, transcriptVars
  <2>2. CASE StartRun
    <3>1. handler.step = "none"
      BY <2>2, OutOfRun DEF StartRun
    <3> QED BY <1>3, <2>2, <3>1 DEF StartRun, FreshTypes
  <2>3. CASE Complete
    <3>1. handler.step = "none"
      BY <1>3, <2>3 DEF Complete, OrderInv, FreshTypes, Running, StepSet
    <3> QED BY <1>3, <2>3, <3>1 DEF Complete, FreshTypes, transcriptVars
  <2>4. CASE FailStep
    BY <1>3, <2>4 DEF FailStep, FreshTypes, transcriptVars, Idle
  <2> QED BY <2>1, <2>2, <2>3, <2>4
<1>5. FreshTypes'
  BY <1>1, <1>2, <1>3, <1>4 DEF FreshTypes
<1>6. OrderInv'
  BY <1>3, <1>4 DEF OrderInv
<1>7. StepsInv'
  BY <1>2, <1>3, <1>4 DEF StepsInv, ChunkShape
<1> QED BY <1>5, <1>6, <1>7 DEF StepInv

LEMMA ChunkReadKeeps == StepInv /\ ChunkRead => StepInv'
<1> SUFFICES ASSUME StepInv, ChunkRead PROVE StepInv'
  OBVIOUS
<1>1. PICK D \in Drafts : handler' = [step |-> "chunk", read |-> D]
  BY DEF ChunkRead
<1>2. /\ version' = version /\ editedAt' = editedAt /\ clock' = clock /\ phase' = phase /\ scope' = scope
      /\ startedAt' = startedAt /\ succeeded' = succeeded /\ chunks' = chunks /\ embedded' = embedded
      /\ extracted' = extracted /\ resolved' = resolved /\ summaryOf' = summaryOf /\ touches' = touches
  BY DEF ChunkRead, transcriptVars, runVars, chunkVars, taskVars
<1>3. Drafts' = Drafts /\ Present' = Present
  BY <1>2, DraftsKept DEF Present
<1>4. handler'.step = "chunk" /\ handler'.read \in Drafts'
  BY <1>1, <1>3
<1>5. FreshTypes'
  BY <1>2, <1>4 DEF StepInv, FreshTypes
<1>6. OrderInv'
  BY <1>2, <1>4 DEF StepInv, OrderInv, ChunkRead, Running
<1>7. StepsInv'
  BY <1>2, <1>3, <1>4 DEF StepInv, StepsInv, ChunkShape
<1> QED BY <1>5, <1>6, <1>7 DEF StepInv

LEMMA ChunkWriteKeeps == StepInv /\ ChunkWrite => StepInv'
<1> SUFFICES ASSUME StepInv, ChunkWrite PROVE StepInv'
  OBVIOUS
<1>1. /\ chunks' = handler.read /\ embedded' = embedded \cap handler.read
      /\ extracted' = extracted \cap handler.read
      /\ succeeded' = succeeded \cup {"chunk"} /\ handler'.step = "none"
      /\ version' = version /\ editedAt' = editedAt /\ clock' = clock /\ phase' = phase /\ scope' = scope
      /\ startedAt' = startedAt /\ touches' = touches
  BY DEF ChunkWrite, Record, Idle, taskVars
<1>2. phase = "processing" /\ "chunk" \notin succeeded /\ handler.read \in Drafts
  BY DEF StepInv, StepsInv, ChunkWrite, Running
<1>3. Present' = Present
  BY <1>1 DEF Present
<1>4. \A c \in chunks' : ChunkShape(c)'
  BY <1>1, <1>2, <1>3, DraftShape DEF ChunkShape
<1>5. succeeded = {}
  BY <1>2, OrderFacts DEF StepInv, OrderInv, FreshTypes
<1>6. FreshTypes'
  BY <1>1, OrderFacts DEF StepInv, FreshTypes
<1>7. OrderInv'
  BY <1>1, <1>2, <1>5, OrderFacts DEF StepInv, OrderInv
<1>8. StepsInv'
  BY <1>1, <1>4, <1>5 DEF StepsInv
<1> QED BY <1>6, <1>7, <1>8 DEF StepInv

\* Embed, extract and resolve, each chunk of theirs and their end.
LEMMA ChunkStepsKeep ==
  ASSUME StepInv,
         (\E c \in chunks : EmbedBatch(c) \/ ExtractGroup(c) \/ ResolveOne(c)) \/ StepDone
  PROVE  StepInv'
<1>1. FreshTypes /\ OrderInv /\ StepsInv
  BY DEF StepInv
<1>2. /\ version' = version /\ editedAt' = editedAt /\ clock' = clock /\ phase' = phase /\ scope' = scope
      /\ startedAt' = startedAt /\ chunks' = chunks /\ summaryOf' = summaryOf /\ touches' = touches
  BY DEF EmbedBatch, ExtractGroup, ResolveOne, StepDone, transcriptVars, runVars, chunkVars, taskVars
<1>3. Drafts' = Drafts /\ Present' = Present
  BY <1>2, DraftsKept DEF Present
<1> DEFINE Gained ==
        /\ phase = "processing"
        /\ succeeded \subseteq succeeded' /\ succeeded' \subseteq StepSet
        /\ \A step \in succeeded' : Before[step] \subseteq succeeded'
        /\ (handler' = handler /\ succeeded' = succeeded) \/ handler'.step = "none"
        /\ embedded \subseteq embedded' /\ embedded' \subseteq chunks
        /\ extracted \subseteq extracted' /\ extracted' \subseteq chunks
        /\ "embed" \in succeeded' => chunks \subseteq embedded'
        /\ "extract" \in succeeded' => chunks \subseteq extracted'
        /\ "resolve" \in succeeded' => extracted' \subseteq resolved'
        /\ "summarize" \in succeeded' => "summarize" \in succeeded
<1>4. Gained
  <2>1. ASSUME NEW c \in chunks, EmbedBatch(c) PROVE Gained
    BY <1>1, <2>1 DEF EmbedBatch, Running, FreshTypes, OrderInv, StepsInv, runVars
  <2>2. ASSUME NEW c \in chunks, ExtractGroup(c) PROVE Gained
    <3>1. "resolve" \notin succeeded
      BY <1>1, <2>2, OrderFacts DEF ExtractGroup, Running, OrderInv
    <3> QED BY <1>1, <2>2, <3>1 DEF ExtractGroup, Running, FreshTypes, OrderInv, StepsInv, runVars
  <2>3. ASSUME NEW c \in chunks, ResolveOne(c) PROVE Gained
    BY <1>1, <2>3 DEF ResolveOne, Running, FreshTypes, OrderInv, StepsInv, runVars
  <2>4. CASE StepDone
    <3>1. PICK step \in {"embed", "extract", "resolve"} :
             /\ Running(step) /\ Record(step)
             /\ step = "embed" => chunks \subseteq embedded
             /\ step = "extract" => chunks \subseteq extracted
             /\ step = "resolve" => extracted \subseteq resolved
      BY <2>4 DEF StepDone
    <3>2. succeeded' = succeeded \cup {step} /\ handler'.step = "none" /\ step \in StepSet
      BY <3>1, OrderFacts DEF Record, Idle
    <3>3. embedded' = embedded /\ extracted' = extracted /\ resolved' = resolved
      BY <2>4 DEF StepDone, chunkVars
    <3>4. \A p \in succeeded' : Before[p] \subseteq succeeded'
      BY <1>1, <3>1, <3>2 DEF Running, OrderInv
    <3> QED BY <1>1, <3>1, <3>2, <3>3, <3>4 DEF Running, FreshTypes, StepsInv
  <2> QED BY <2>1, <2>2, <2>3, <2>4
<1>5. FreshTypes'
  BY <1>1, <1>2, <1>4 DEF FreshTypes
<1>6. OrderInv'
  BY <1>1, <1>2, <1>4 DEF OrderInv, Running
<1>7. StepsInv'
  BY <1>1, <1>2, <1>3, <1>4 DEF StepsInv, ChunkShape
<1> QED BY <1>5, <1>6, <1>7 DEF StepInv

LEMMA SummaryKeeps ==
  ASSUME StepInv, SummaryRead \/ \E found \in SUBSET TaskKeys : SummarySave(found)
  PROVE  StepInv'
<1>1. FreshTypes /\ OrderInv /\ StepsInv
  BY DEF StepInv
<1>2. /\ version' = version /\ editedAt' = editedAt /\ clock' = clock /\ phase' = phase /\ scope' = scope
      /\ startedAt' = startedAt /\ chunks' = chunks /\ embedded' = embedded /\ extracted' = extracted
      /\ resolved' = resolved /\ touches' = touches /\ phase = "processing"
  BY DEF SummaryRead, SummarySave, transcriptVars, runVars, chunkVars, taskVars, Running
<1>3. Present' = Present
  BY <1>2 DEF Present
<1>4. CASE SummaryRead
  <2>1. /\ succeeded' = succeeded /\ summaryOf' = summaryOf /\ handler'.step = "summarize" /\ handler'.read = chunks
        /\ Running("summarize")
    BY <1>4 DEF SummaryRead, runVars
  <2>2. FreshTypes'
    BY <1>1, <1>2, <2>1 DEF FreshTypes
  <2>3. OrderInv'
    BY <1>1, <1>2, <2>1 DEF OrderInv, Running
  <2>4. StepsInv'
    BY <1>1, <1>2, <1>3, <2>1 DEF StepsInv, ChunkShape
  <2> QED BY <2>2, <2>3, <2>4 DEF StepInv
<1>5. ASSUME NEW found \in SUBSET TaskKeys, SummarySave(found) PROVE StepInv'
  <2>1. /\ succeeded' = succeeded \cup {"summarize"} /\ summaryOf' = handler.read /\ handler'.step = "none"
        /\ handler.read = chunks /\ Running("summarize")
    BY <1>1, <1>5 DEF SummarySave, Record, Idle, StepsInv
  <2>2. FreshTypes'
    BY <1>1, <1>2, <2>1, OrderFacts DEF FreshTypes
  <2>3. OrderInv'
    BY <1>1, <1>2, <2>1 DEF OrderInv, Running
  <2>4. StepsInv'
    BY <1>1, <1>2, <1>3, <2>1 DEF StepsInv, ChunkShape
  <2> QED BY <2>2, <2>3, <2>4 DEF StepInv
<1> QED BY <1>4, <1>5

LEMMA TasksKeep ==
  ASSUME StepInv,
         \/ \E k \in TaskKeys : CreateTask(k)
         \/ \E t \in tasks, k \in TaskKeys : UpdateTask(t, k)
         \/ \E t \in tasks : RemoveTask(t)
  PROVE  /\ StepInv'
         /\ touches' # touches /\ embedded' = embedded
         /\ UNCHANGED <<transcriptVars, runVars, chunkVars>>
<1>1. touches' = touches + 1 /\ UNCHANGED Others
  BY DEF CreateTask, UpdateTask, RemoveTask, Touch
<1>2. /\ version' = version /\ editedAt' = editedAt /\ clock' = clock /\ phase' = phase /\ scope' = scope
      /\ startedAt' = startedAt /\ chunks' = chunks /\ embedded' = embedded /\ extracted' = extracted
      /\ resolved' = resolved /\ summaryOf' = summaryOf /\ handler' = handler /\ succeeded' = succeeded
  BY <1>1 DEF Others, transcriptVars, runVars, chunkVars
<1>3. Drafts' = Drafts /\ Present' = Present
  BY <1>2, DraftsKept DEF Present
<1>4. touches \in Nat /\ touches' \in Nat /\ touches' # touches
  BY <1>1 DEF StepInv, FreshTypes
<1>5. FreshTypes'
  BY <1>2, <1>4 DEF StepInv, FreshTypes
<1>6. OrderInv'
  BY <1>2 DEF StepInv, OrderInv, Running
<1>7. StepsInv'
  BY <1>2, <1>3 DEF StepInv, StepsInv, ChunkShape
<1> QED BY <1>1, <1>2, <1>4, <1>5, <1>6, <1>7 DEF StepInv, Others

LEMMA StutterKeeps == StepInv /\ UNCHANGED freshVars => StepInv'
<1> SUFFICES ASSUME StepInv, UNCHANGED freshVars PROVE StepInv'
  OBVIOUS
<1>1. /\ version' = version /\ editedAt' = editedAt /\ clock' = clock /\ phase' = phase /\ scope' = scope
      /\ startedAt' = startedAt /\ chunks' = chunks /\ embedded' = embedded /\ extracted' = extracted
      /\ resolved' = resolved /\ summaryOf' = summaryOf /\ handler' = handler /\ succeeded' = succeeded
      /\ touches' = touches
  BY DEF freshVars
<1>2. Drafts' = Drafts /\ Present' = Present
  BY <1>1, DraftsKept DEF Present
<1> QED BY <1>1, <1>2 DEF StepInv, FreshTypes, OrderInv, StepsInv, Running, ChunkShape

LEMMA StepStep == StepInv /\ [FreshNext]_freshVars => StepInv'
<1> SUFFICES ASSUME StepInv, [FreshNext]_freshVars PROVE StepInv'
  OBVIOUS
<1>1. CASE FreshNext
  BY <1>1, TranscriptSteps, RunSteps, ChunkReadKeeps, ChunkWriteKeeps, ChunkStepsKeep, SummaryKeeps, TasksKeep
    DEF FreshNext
<1> QED BY <1>1, StutterKeeps

------------------------------------------------------------------------------
(* The lines the chunks follow: FreshInv *)

\* A step that leaves the transcript, the chunks and the record of what changed unread.
LEMMA LinesKept ==
  ASSUME LinesInv, UNCHANGED <<version, editedAt, unseen, chunks, scope, startedAt>>,
         "chunk" \in succeeded' => "chunk" \in succeeded,
         phase' = phase \/ phase # "ready"
  PROVE  LinesInv'
BY DEF LinesInv, Covered, Current, Present

LEMMA EditLines ==
  ASSUME FreshInv, NEW s \in Segs, EditSegment(s)
  PROVE  LinesInv'
<1>1. /\ chunks' = chunks /\ scope' = scope /\ startedAt' = startedAt /\ succeeded' = succeeded /\ phase' = phase
  BY DEF EditSegment, runVars, chunkVars
<1>2. /\ version \in [Segs -> Nat] /\ editedAt \in [Segs -> Nat] /\ clock \in Nat /\ startedAt \in Nat
      /\ startedAt <= clock
  BY DEF FreshInv, StepInv, FreshTypes
<1>3. /\ Present' = Present /\ unseen \subseteq unseen'
      /\ phase # "ready" /\ "chunk" \in succeeded => s \in unseen'
      /\ editedAt'[s] > startedAt
      /\ \A r \in Segs \ {s} : version'[r] = version[r] /\ editedAt'[r] = editedAt[r]
  BY <1>2 DEF EditSegment, ChunkStepBehind, Present
<1>4. \A r \in Present' \ unseen' : Covered(r) => Covered(r)'
  BY <1>1 DEF Covered
<1>5. ASSUME NEW r \in Present' \ unseen', r # s, Current(r) PROVE Current(r)'
  BY <1>1, <1>3, <1>5 DEF Current, Present
<1>6. ASSUME NEW r \in Present' \ unseen', "chunk" \in succeeded
      PROVE  Current(r)' \/ (phase' = "ready" /\ editedAt'[r] > startedAt')
  <2>1. CASE r = s
    BY <1>1, <1>3, <1>6, <2>1
  <2>2. CASE r # s
    BY <1>1, <1>3, <1>5, <1>6, <2>2 DEF FreshInv, LinesInv, Present
  <2> QED BY <2>1, <2>2
<1> QED BY <1>1, <1>3, <1>4, <1>6 DEF FreshInv, LinesInv

LEMMA UploadLines ==
  ASSUME FreshInv, NEW s \in Segs, UploadLate(s)
  PROVE  LinesInv'
<1>1. /\ chunks' = chunks /\ scope' = scope /\ startedAt' = startedAt /\ succeeded' = succeeded /\ phase' = phase
      /\ editedAt' = editedAt /\ phase = "queued"
  BY DEF UploadLate, runVars, chunkVars
<1>2. version \in [Segs -> Nat]
  BY DEF FreshInv, StepInv, FreshTypes
<1>3. /\ Present' = Present \cup {s} /\ unseen \subseteq unseen'
      /\ "chunk" \in succeeded \/ scope = "changed" => s \in unseen'
      /\ \A r \in Present : version'[r] = version[r]
  BY <1>1, <1>2 DEF UploadLate, ChunkStepBehind, Present
<1>4. ASSUME NEW r \in Present, Current(r) PROVE Current(r)'
  BY <1>1, <1>3, <1>4 DEF Current
<1>5. \A r \in Present : Covered(r) => Covered(r)'
  BY <1>1 DEF Covered
<1> QED BY <1>1, <1>3, <1>4, <1>5 DEF FreshInv, LinesInv

LEMMA ReindexLines ==
  ASSUME FreshInv, NEW asked \in {"changed", "full"}, Reindex(asked)
  PROVE  LinesInv'
<1>1. /\ version' = version /\ editedAt' = editedAt /\ unseen' = unseen /\ chunks' = chunks
      /\ startedAt' = startedAt /\ phase' = "queued" /\ phase \in {"ready", "failed"}
  BY DEF Reindex, transcriptVars, chunkVars
<1>2. CASE asked = "changed" /\ phase = "failed"
  <2>1. succeeded' = succeeded /\ scope' = scope
    BY <1>2 DEF Reindex, Kept
  <2> QED BY <1>1, <1>2, <2>1, LinesKept DEF FreshInv
<1>3. CASE asked = "changed" /\ phase = "ready"
  <2>1. succeeded' = {} /\ "chunk" \in succeeded
    BY <1>3, OrderFacts DEF Reindex, Kept, FreshInv, StepInv, OrderInv
  <2> QED BY <1>1, <2>1 DEF FreshInv, LinesInv, Covered, Present
<1>4. CASE asked = "full"
  <2>1. succeeded' = {} /\ scope' = "full"
    BY <1>4 DEF Reindex, Kept
  <2> QED BY <2>1 DEF LinesInv
<1> QED BY <1>1, <1>2, <1>3, <1>4

\* What the chunk step writes has every line that was cut before, and the lines nobody had cut in a full run.
LEMMA ChunkWriteLines ==
  ASSUME FreshInv, ChunkWrite
  PROVE  LinesInv'
<1>1. /\ chunks' = handler.read /\ version' = version /\ phase' = phase
      /\ unseen' = {s \in unseen : \A c \in handler.read : s \notin DOMAIN c.content}
  BY DEF ChunkWrite
<1>2. handler.read \in Drafts /\ LinesInv /\ \A c \in chunks : ChunkShape(c)
  BY DEF ChunkWrite, FreshInv, StepInv, StepsInv
<1>3. Present' = Present
  BY <1>1 DEF Present
<1>4. ASSUME NEW s \in Present', s \notin unseen' PROVE Current(s)' /\ Covered(s)'
  <2>1. \E c \in handler.read : s \in DOMAIN c.content
    <3>1. CASE s \in unseen
      BY <1>1, <1>4, <3>1
    <3>2. CASE ~(scope = "changed" /\ chunks # {})
      BY <1>2, <1>3, <1>4, <3>2, DraftCutsAll
    <3>3. CASE s \notin unseen /\ scope = "changed"
      <4>1. PICK c \in chunks : s \in DOMAIN c.content
        BY <1>2, <1>3, <1>4, <3>3 DEF LinesInv, Covered
      <4>2. Cut(c.from, c.to) \in handler.read
        BY <1>2, <3>3, DraftKeepsCuts
      <4>3. s \in DOMAIN Cut(c.from, c.to).content
        BY <1>2, <1>3, <1>4, <4>1, CutFacts DEF ChunkShape
      <4> QED BY <4>2, <4>3
    <3> QED BY <3>1, <3>2, <3>3
  <2>2. \A c \in handler.read : s \in DOMAIN c.content => c.content[s] = version[s]
    BY <1>2, DraftShape
  <2> QED BY <1>1, <2>1, <2>2 DEF Current, Covered
<1> QED BY <1>4 DEF LinesInv

LEMMA FreshStep == FreshInv /\ [FreshNext]_freshVars => FreshInv'
<1> SUFFICES ASSUME FreshInv, [FreshNext]_freshVars PROVE FreshInv'
  OBVIOUS
<1>1. StepInv'
  BY StepStep DEF FreshInv
<1>2. CASE UNCHANGED freshVars
  BY <1>1, <1>2, LinesKept DEF FreshInv, freshVars
<1>3. ASSUME NEW s \in Segs, EditSegment(s) \/ UploadLate(s) PROVE LinesInv'
  BY <1>3, EditLines, UploadLines
<1>4. ASSUME NEW asked \in {"changed", "full"}, Reindex(asked) PROVE LinesInv'
  BY <1>4, ReindexLines
<1>5. CASE StartRun
  <2>1. /\ version' = version /\ unseen' = unseen /\ chunks' = chunks /\ scope' = scope /\ succeeded' = succeeded
        /\ phase = "queued"
    BY <1>5 DEF StartRun, chunkVars
  <2> QED BY <1>1, <2>1 DEF FreshInv, LinesInv, Covered, Current, Present
<1>6. CASE Complete \/ FailStep \/ ChunkRead \/ SummaryRead
  BY <1>1, <1>6, LinesKept
    DEF FreshInv, Complete, FailStep, ChunkRead, SummaryRead, transcriptVars, chunkVars, runVars
<1>7. ASSUME NEW c \in chunks, EmbedBatch(c) \/ ExtractGroup(c) \/ ResolveOne(c) PROVE LinesInv'
  BY <1>7, LinesKept DEF FreshInv, EmbedBatch, ExtractGroup, ResolveOne, transcriptVars, runVars
<1>8. CASE StepDone
  BY <1>1, <1>8, LinesKept DEF FreshInv, StepDone, Record, transcriptVars, chunkVars
<1>9. ASSUME NEW found \in SUBSET TaskKeys, SummarySave(found) PROVE LinesInv'
  BY <1>9, LinesKept DEF FreshInv, SummarySave, Record, transcriptVars, chunkVars
<1>10. ASSUME \/ \E k \in TaskKeys : CreateTask(k)
              \/ \E t \in tasks, k \in TaskKeys : UpdateTask(t, k)
              \/ \E t \in tasks : RemoveTask(t)
       PROVE  LinesInv'
  <2>1. UNCHANGED <<transcriptVars, runVars, chunkVars>>
    BY <1>10, TasksKeep DEF FreshInv
  <2> QED BY <2>1, LinesKept DEF FreshInv, transcriptVars, runVars, chunkVars
<1>11. CASE ChunkWrite
  BY <1>1, <1>11, ChunkWriteLines DEF FreshInv
<1> QED BY <1>1, <1>2, <1>3, <1>4, <1>5, <1>6, <1>7, <1>8, <1>9, <1>10, <1>11 DEF FreshNext, FreshInv

LEMMA FreshStart == FreshInit => FreshInv
BY StepInit DEF FreshInit, FreshInv, LinesInv

LEMMA FreshAlways == FreshSpec => []FreshInv
BY FreshStart, FreshStep, PTL DEF FreshSpec

------------------------------------------------------------------------------
(* Theorems *)

\* However full, changed and resumed runs, failures, corrections and uploads followed each other, a ready
\* meeting that offers no re-run has every line in its chunks as it stands (meeting-edits.ts), but for
\* lines changed behind the chunk step of a run that was resumed.
THEOREM FreshOrFlaggedCorrect == FreshSpec => []FreshOrFlagged
<1>1. FreshInv => FreshOrFlagged
  <2> SUFFICES ASSUME FreshInv, phase = "ready", ~HasUnprocessedEdits, NEW s \in Present \ unseen
               PROVE  Current(s)
    BY DEF FreshOrFlagged
  <2>1. "chunk" \in succeeded
    BY OrderFacts DEF FreshInv, StepInv, OrderInv
  <2>2. ~(editedAt[s] > startedAt)
    BY DEF HasUnprocessedEdits
  <2> QED BY <2>1, <2>2 DEF FreshInv, LinesInv
<1> QED BY <1>1, FreshAlways, PTL

\* In a ready meeting the summary was made from the chunks search and the graph use, and each of them is
\* embedded, extracted and resolved (the *-step handlers), whatever runs led there.
THEOREM ReadyIsConsistentCorrect == FreshSpec => []ReadyIsConsistent
<1>1. FreshInv => ReadyIsConsistent
  BY OrderFacts DEF FreshInv, StepInv, OrderInv, StepsInv, ReadyIsConsistent
<1> QED BY <1>1, FreshAlways, PTL

\* No step of a changed run takes a chunk's embedding away unless its lines read differently now
\* (chunk-step.handler.ts), for any transcript and any way of cutting it.
THEOREM OnlyChangedChunksRedoneCorrect == FreshSpec => OnlyChangedChunksRedone
<1> DEFINE Redone == scope = "changed" => \A c \in embedded \ embedded' : Cut(c.from, c.to) # c
<1>1. FreshInv /\ [FreshNext]_freshVars => [Redone]_freshVars
  <2> SUFFICES ASSUME FreshInv, FreshNext, scope = "changed", NEW c \in embedded \ embedded'
               PROVE  Cut(c.from, c.to) # c
    OBVIOUS
  <2>1. CASE ChunkWrite
    <3>1. c \in chunks /\ c \notin handler.read /\ handler.read \in Drafts /\ ChunkShape(c)
      BY <2>1 DEF ChunkWrite, FreshInv, StepInv, FreshTypes, StepsInv
    <3> QED BY <3>1, DraftKeepsCuts
  <2>2. ASSUME ~ChunkWrite PROVE embedded \subseteq embedded'
    <3>1. ASSUME NEW d \in chunks, EmbedBatch(d) \/ ExtractGroup(d) \/ ResolveOne(d)
          PROVE  embedded \subseteq embedded'
      BY <3>1 DEF EmbedBatch, ExtractGroup, ResolveOne
    <3>2. ASSUME NEW s \in Segs, EditSegment(s) \/ UploadLate(s) PROVE embedded' = embedded
      BY <3>2 DEF EditSegment, UploadLate, chunkVars
    <3>3. ASSUME NEW asked \in {"changed", "full"}, Reindex(asked) PROVE embedded' = embedded
      BY <3>3 DEF Reindex, chunkVars
    <3>4. ASSUME NEW found \in SUBSET TaskKeys, SummarySave(found) PROVE embedded' = embedded
      BY <3>4 DEF SummarySave, chunkVars
    <3>5. CASE StartRun \/ Complete \/ FailStep \/ ChunkRead \/ StepDone \/ SummaryRead
      BY <3>5 DEF StartRun, Complete, FailStep, ChunkRead, StepDone, SummaryRead, chunkVars
    <3>6. ASSUME \/ \E k \in TaskKeys : CreateTask(k)
                 \/ \E t \in tasks, k \in TaskKeys : UpdateTask(t, k)
                 \/ \E t \in tasks : RemoveTask(t)
          PROVE  embedded' = embedded
      BY <3>6, TasksKeep DEF FreshInv
    <3> QED BY <2>2, <3>1, <3>2, <3>3, <3>4, <3>5, <3>6 DEF FreshNext
  <2> QED BY <2>1, <2>2
<1> QED BY <1>1, FreshAlways, PTL DEF FreshSpec, OnlyChangedChunksRedone

\* No step of the pipeline takes away a task the user made or changed, or proposes again what the user has
\* kept or deleted (summarize-step.handler.ts), whichever request comes in between its read and its write.
THEOREM UserTasksSurviveRunsCorrect == FreshSpec => UserTasksSurviveRuns
<1> DEFINE Survive == touches' = touches =>
             /\ \A t \in tasks \ tasks' : Untouched(t)
             /\ \A t \in tasks' \ tasks : t.key \notin dismissed \cup {u.key : u \in tasks \cap tasks'}
<1>1. FreshInv /\ [FreshNext]_freshVars => [Survive]_freshVars
  <2> SUFFICES ASSUME FreshInv, FreshNext, touches' = touches
               PROVE  Survive
    OBVIOUS
  <2>1. ASSUME NEW found \in SUBSET TaskKeys, SummarySave(found) PROVE Survive
    <3> DEFINE kept == {t \in tasks : ~Untouched(t)}
               New(k) == [key |-> k, manual |-> FALSE, edited |-> FALSE]
    <3>1. tasks' = kept \cup {New(k) : k \in found \ Decided(kept)}
      BY <2>1 DEF SummarySave
    <3>2. \A t \in tasks \ tasks' : Untouched(t)
      BY <3>1
    <3>3. ASSUME NEW t \in tasks' \ tasks, NEW u \in tasks \cap tasks' PROVE u.key # t.key /\ t.key \notin dismissed
      <4>1. PICK k \in found \ Decided(kept) : t = New(k)
        BY <3>1, <3>3
      <4>2. t.key = k /\ k \notin dismissed /\ \A v \in kept : v.key # k
        BY <4>1 DEF Decided
      <4>3. CASE u \in kept
        BY <4>2, <4>3
      <4>4. CASE u \notin kept
        <5>1. PICK l \in found : u = New(l)
          BY <3>1, <3>3, <4>4
        <5>2. u.key = l
          BY <5>1
        <5> QED BY <3>3, <4>1, <4>2, <5>1, <5>2
      <4> QED BY <4>2, <4>3, <4>4
    <3>4. ASSUME NEW t \in tasks' \ tasks PROVE t.key \notin dismissed
      <4>1. PICK k \in found \ Decided(kept) : t = New(k)
        BY <3>1, <3>4
      <4> QED BY <4>1 DEF Decided
    <3> HIDE DEF kept, New
    <3> QED BY <3>2, <3>3, <3>4
  <2>2. ASSUME NEW s \in Segs, EditSegment(s) \/ UploadLate(s) PROVE Survive
    BY <2>2 DEF EditSegment, UploadLate, taskVars
  <2>3. ASSUME NEW asked \in {"changed", "full"}, Reindex(asked) PROVE Survive
    BY <2>3 DEF Reindex, taskVars
  <2>4. ASSUME NEW c \in chunks, EmbedBatch(c) \/ ExtractGroup(c) \/ ResolveOne(c) PROVE Survive
    BY <2>4 DEF EmbedBatch, ExtractGroup, ResolveOne, taskVars
  <2>5. CASE StartRun \/ Complete \/ FailStep \/ ChunkRead \/ ChunkWrite \/ StepDone \/ SummaryRead
    BY <2>5 DEF StartRun, Complete, FailStep, ChunkRead, ChunkWrite, StepDone, SummaryRead, taskVars
  <2>6. ASSUME \/ \E k \in TaskKeys : CreateTask(k)
               \/ \E t \in tasks, k \in TaskKeys : UpdateTask(t, k)
               \/ \E t \in tasks : RemoveTask(t)
        PROVE  FALSE
    BY <2>6, TasksKeep DEF FreshInv
  <2> QED BY <2>1, <2>2, <2>3, <2>4, <2>5, <2>6 DEF FreshNext
<1> QED BY <1>1, FreshAlways, PTL DEF FreshSpec, UserTasksSurviveRuns

------------------------------------------------------------------------------
(* The graph.  What makes undo in any order safe is a fact about the merges *)
(* still open: two of them are nested or apart (Nested), and each holds its *)
(* entities together under whom its `keep` stands for now (Holds).          *)

Mentions == [cite : Chunks \X Nat, name : Names, home : Entities, at : Entities]
Relations == [cite : Chunks \X Nat, pair : Names \X Names, homes : Entities \X Entities,
              ends : Entities \X Entities]
MergeRows == [keep : Entities, merged : Entities, names : SUBSET (Names \cup {None}),
              dropped : SUBSET Relations, open : BOOLEAN,
              mentions : SUBSET [cite : Chunks \X Nat, name : Names],
              sources : SUBSET [cite : Chunks \X Nat, pair : Names \X Names],
              targets : SUBSET [cite : Chunks \X Nat, pair : Names \X Names],
              children : SUBSET Entities]

GraphTypes ==
  /\ created \in Nat /\ created <= MaxEntities /\ exists \subseteq 1 .. created
  /\ canonical \in [Entities -> Names \cup {None}]
  /\ aliases \in [Entities -> SUBSET (Names \cup {None})]
  /\ into \in [Entities -> Entities \cup {None}]
  /\ mentions \subseteq Mentions /\ relations \subseteq Relations
  /\ merges \in Seq(MergeRows)
  /\ cut \in [Chunks -> Nat] /\ resolvedChunks \subseteq Chunks

Key(m) == [cite |-> m.cite, name |-> m.name]

\* A mention cites the chunk as it was resolved, once per name, and no citation is ever used again.
CitesInv ==
  /\ \A m \in mentions : LET c == m.cite[1] IN m.cite = Cite(c) /\ cut[c] # 0 /\ c \in resolvedChunks
  /\ \A m, x \in mentions : Key(m) = Key(x) => m = x
  /\ \A i \in DOMAIN merges : \A k \in merges[i].mentions :
       LET c == k.cite[1] IN /\ k.cite[2] # 0
                             /\ cut[c] = 0 \/ k.cite[2] <= cut[c]
                             /\ k.cite = Cite(c) => c \in resolvedChunks
  /\ vectors.chunk \notin resolvedChunks

\* What went into `keep` with this merge.
Below(g) == {g.merged} \cup g.children

\* An open merge: its entity and those under it are merged into whom `keep` stands for now.
Holds(g) ==
  /\ {g.keep, g.merged} \subseteq exists
  /\ into[g.merged] # None /\ into[g.merged] = Rep(g.keep)
  /\ \A e \in g.children \cap exists : into[e] = into[g.merged]
  /\ \A m \in mentions : m.home \in Below(g) <=> Key(m) \in g.mentions

\* Two open merges are nested or apart.
Nested(g, h) ==
  /\ g.merged # h.merged
  /\ g.merged \in h.children <=> g.keep \in Below(h)
  /\ g.merged \in h.children => g.children \cap exists \subseteq h.children
  /\ g.children \cap h.children \cap exists # {} => g.merged \in h.children \/ h.merged \in g.children

MergeInv ==
  /\ \A i \in DOMAIN merges :
       LET g == merges[i] IN /\ {g.keep, g.merged} \cup g.children \subseteq 1 .. created
                             /\ g.keep # g.merged /\ g.merged \notin g.children
                             /\ \A r \in g.dropped : {r.ends[1], r.ends[2]} = {g.keep, g.merged}
  /\ \A i \in DOMAIN merges : merges[i].open => Holds(merges[i])
  /\ \A i, j \in DOMAIN merges : i # j /\ merges[i].open /\ merges[j].open => Nested(merges[i], merges[j])

TreeInv ==
  /\ \A e \in Entities : into[e] # None => e \in exists /\ into[e] \in Live
  /\ \A r \in relations : {r.ends[1], r.ends[2]} \subseteq Live /\ r.ends[1] # r.ends[2]
  /\ \A s \in suggestions : s \subseteq Live /\ s # {} /\ \A e \in s : s # {e}
  /\ MentionsAtHome

GraphInv == GraphTypes /\ CitesInv /\ MergeInv /\ TreeInv

------------------------------------------------------------------------------
(* The entity graph: facts about rows *)

LEMMA NoneIsNoEntity == None \notin Entities
BY DEF None, Entities

LEMMA RepLive ==
  ASSUME GraphTypes, TreeInv, NEW e \in exists
  PROVE  e \in Entities /\ Rep(e) \in Live /\ Rep(e) \in exists /\ Rep(e) \in Entities /\ into[Rep(e)] = None
<1>1. e \in Entities
  BY GraphAssumption DEF GraphTypes, Entities
<1> QED BY <1>1, GraphAssumption DEF GraphTypes, TreeInv, Rep, Live, Entities

LEMMA OpenFacts ==
  ASSUME NEW g \in MergeRows, NEW b \in BOOLEAN
  PROVE  /\ [g EXCEPT !.open = b] \in MergeRows
         /\ [g EXCEPT !.open = b].open = b
         /\ [g EXCEPT !.open = b].keep = g.keep /\ [g EXCEPT !.open = b].merged = g.merged
         /\ [g EXCEPT !.open = b].children = g.children /\ [g EXCEPT !.open = b].mentions = g.mentions
         /\ [g EXCEPT !.open = b].dropped = g.dropped
BY DEF MergeRows

LEMMA RowFacts ==
  ASSUME NEW g \in MergeRows
  PROVE  /\ g.keep \in Entities /\ g.merged \in Entities /\ g.children \subseteq Entities /\ g.open \in BOOLEAN
         /\ g.dropped \subseteq Relations
         /\ \A k \in g.mentions : k.cite \in Chunks \X Nat /\ k.name \in Names
BY DEF MergeRows

\* Two rows that are alike where the invariant looks.
Alike(g, h) == h.keep = g.keep /\ h.merged = g.merged /\ h.children = g.children /\ h.mentions = g.mentions
               /\ h.dropped = g.dropped

LEMMA GraphStart == GraphInit => GraphInv
<1> SUFFICES ASSUME GraphInit PROVE GraphInv
  OBVIOUS
<1>1. GraphTypes
  BY GraphAssumption DEF GraphInit, GraphTypes, None, Entities
<1>2. CitesInv
  BY DEF GraphInit, CitesInv
<1>3. MergeInv
  BY DEF GraphInit, MergeInv
<1>4. TreeInv
  BY DEF GraphInit, TreeInv, MentionsAtHome, None
<1> QED BY <1>1, <1>2, <1>3, <1>4 DEF GraphInv

------------------------------------------------------------------------------
(* Steps that leave the tree alone *)

LEMMA TreeKept ==
  ASSUME MergeInv, TreeInv, UNCHANGED <<created, exists, into, merges>>,
         suggestions' \subseteq suggestions, mentions' \subseteq mentions, relations' \subseteq relations
  PROVE  MergeInv' /\ TreeInv'
<1>1. ASSUME NEW g, Holds(g) PROVE Holds(g)'
  BY <1>1 DEF Holds, Rep, Below, Key
<1>2. ASSUME NEW g, NEW h, Nested(g, h) PROVE Nested(g, h)'
  BY <1>2 DEF Nested, Below
<1>3. MergeInv'
  BY <1>1, <1>2 DEF MergeInv
<1>4. TreeInv'
  BY DEF TreeInv, Live, MentionsAtHome, Rep
<1> QED BY <1>3, <1>4

LEMMA LookKeeps ==
  ASSUME GraphInv, NEW c \in Chunks, Look(c) \/ ResolveFails(c)
  PROVE  GraphInv'
<1>1. UNCHANGED <<created, exists, canonical, aliases, into, mentions, relations, suggestions, merges, cut,
                  resolvedChunks>>
  BY DEF Look, ResolveFails
<1>2. vectors'.chunk \notin resolvedChunks
  BY GraphAssumption DEF GraphInv, GraphTypes, Look, ResolveFails, NoLook
<1>3. CitesInv'
  BY <1>1, <1>2 DEF GraphInv, CitesInv, Key, Cite
<1>4. GraphTypes'
  BY <1>1 DEF GraphInv, GraphTypes
<1> QED BY <1>1, <1>3, <1>4, TreeKept DEF GraphInv

LEMMA RejectKeeps ==
  ASSUME GraphInv, NEW s, RejectSuggestion(s)
  PROVE  GraphInv'
<1>1. UNCHANGED <<created, exists, canonical, aliases, into, mentions, relations, merges, cut, resolvedChunks, vectors>>
  BY DEF RejectSuggestion
<1>2. suggestions' \subseteq suggestions
  BY DEF RejectSuggestion
<1>3. CitesInv'
  BY <1>1 DEF GraphInv, CitesInv, Key, Cite
<1>4. GraphTypes'
  BY <1>1 DEF GraphInv, GraphTypes
<1> QED BY <1>1, <1>2, <1>3, <1>4, TreeKept DEF GraphInv

LEMMA RenameKeeps ==
  ASSUME GraphInv, NEW e \in Live, NEW n \in Names, Rename(e, n)
  PROVE  GraphInv'
<1>1. UNCHANGED <<created, exists, into, mentions, relations, suggestions, merges, cut, resolvedChunks, vectors>>
  BY DEF Rename
<1>2. CitesInv'
  BY <1>1 DEF GraphInv, CitesInv, Key, Cite
<1>3. e \in Entities
  BY RepLive DEF GraphInv, Live
<1>4. canonical' \in [Entities -> Names \cup {None}] /\ aliases' \in [Entities -> SUBSET (Names \cup {None})]
  BY <1>3 DEF GraphInv, GraphTypes, Rename
<1>5. GraphTypes'
  BY <1>1, <1>4 DEF GraphInv, GraphTypes
<1> QED BY <1>1, <1>2, <1>5, TreeKept DEF GraphInv

LEMMA RecutKeeps ==
  ASSUME GraphInv, NEW c \in Chunks, Recut(c)
  PROVE  GraphInv'
<1>1. /\ UNCHANGED <<created, exists, canonical, aliases, into, suggestions, merges, vectors>>
      /\ cut' = [cut EXCEPT ![c] = @ + 1] /\ cut[c] # 0
      /\ resolvedChunks' = resolvedChunks \ {c}
      /\ mentions' = {m \in mentions : m.cite # Cite(c)}
      /\ relations' \subseteq relations
  BY DEF Recut, WithoutChunk
<1>2. GraphTypes'
  BY <1>1 DEF GraphInv, GraphTypes
<1>3. CitesInv'
  <2>1. cut \in [Chunks -> Nat] /\ cut' \in [Chunks -> Nat] /\ cut'[c] = cut[c] + 1 /\ \A d \in Chunks \ {c} : cut'[d] = cut[d]
    BY <1>1 DEF GraphInv, GraphTypes
  <2>2. ASSUME NEW m \in mentions' PROVE LET d == m.cite[1] IN m.cite = Cite(d)' /\ cut'[d] # 0 /\ d \in resolvedChunks'
    <3>1. m \in mentions /\ m.cite[1] \in Chunks
      BY <1>1 DEF GraphInv, GraphTypes, Mentions
    <3>2. m.cite[1] # c
      BY <1>1, <3>1 DEF GraphInv, CitesInv
    <3> QED BY <1>1, <2>1, <3>1, <3>2 DEF GraphInv, CitesInv, Cite
  <2>3. ASSUME NEW i \in DOMAIN merges, NEW k \in merges[i].mentions
        PROVE  LET d == k.cite[1] IN /\ k.cite[2] # 0
                                     /\ cut'[d] = 0 \/ k.cite[2] <= cut'[d]
                                     /\ k.cite = Cite(d)' => d \in resolvedChunks'
    <3>1. merges[i] \in MergeRows
      BY DEF GraphInv, GraphTypes
    <3>2. k.cite \in Chunks \X Nat
      BY <3>1, RowFacts
    <3>3. k.cite[1] \in Chunks /\ k.cite[2] \in Nat
      BY <3>2
    <3>4. k.cite[2] # 0 /\ (cut[k.cite[1]] = 0 \/ k.cite[2] <= cut[k.cite[1]])
          /\ (k.cite = Cite(k.cite[1]) => k.cite[1] \in resolvedChunks)
      BY DEF GraphInv, CitesInv
    <3>5. CASE k.cite[1] = c
      BY <1>1, <2>1, <3>3, <3>4, <3>5 DEF Cite
    <3>6. CASE k.cite[1] # c
      BY <1>1, <2>1, <3>3, <3>4, <3>6 DEF Cite
    <3> QED BY <3>5, <3>6
  <2>4. \A m, x \in mentions' : Key(m) = Key(x) => m = x
    BY <1>1 DEF GraphInv, CitesInv
  <2>5. vectors'.chunk \notin resolvedChunks'
    BY <1>1 DEF GraphInv, CitesInv
  <2> QED BY <1>1, <2>2, <2>3, <2>4, <2>5 DEF CitesInv, Key
<1>4. MergeInv' /\ TreeInv'
  BY <1>1, TreeKept DEF GraphInv
<1> QED BY <1>2, <1>3, <1>4 DEF GraphInv

------------------------------------------------------------------------------
(* Deleting entities: whole trees at a time *)

Closed(D) == D \subseteq exists /\ \A e \in exists : into[e] # None => (e \in D <=> into[e] \in D)

LEMMA DeleteMoves ==
  ASSUME GraphTypes, TreeInv, NEW D, NEW M, NEW R, DeleteEntities(D, M, R), Closed(D)
  PROVE  /\ exists' = exists \ D
         /\ into' \in [Entities -> Entities \cup {None}]
         /\ \A e \in Entities : into'[e] = IF e \in D THEN None ELSE into[e]
         /\ \A e \in exists \ D : e \in Entities /\ Rep(e)' = Rep(e) /\ Rep(e) \notin D
         /\ \A e \in Entities : into'[e] # None => e \in exists' /\ into'[e] \in Live'
         /\ Live' = Live \ D
         /\ merges' \in Seq(MergeRows) /\ DOMAIN merges' = DOMAIN merges
         /\ \A i \in DOMAIN merges :
              /\ merges[i] \in MergeRows /\ merges'[i] \in MergeRows
              /\ Alike(merges[i], merges'[i])
              /\ merges'[i].open => merges[i].open /\ {merges[i].keep, merges[i].merged} \cap D = {}
<1>1. /\ exists' = exists \ D
      /\ into' = [e \in Entities |-> IF e \in D \/ into[e] \in D THEN None ELSE into[e]]
      /\ merges' = [i \in DOMAIN merges |-> [merges[i] EXCEPT !.open = @ /\ {merges[i].keep, merges[i].merged} \cap D = {}]]
  BY DEF DeleteEntities
<1>2. exists \subseteq Entities /\ into \in [Entities -> Entities \cup {None}] /\ D \subseteq exists
      /\ merges \in Seq(MergeRows)
  BY GraphAssumption DEF GraphTypes, Entities, Closed
<1>3. into' \in [Entities -> Entities \cup {None}]
  BY <1>1, <1>2
<1>4. \A e \in Entities : into[e] # None => e \in exists /\ into[e] \in exists /\ into[into[e]] = None
  BY DEF TreeInv, Live
<1>5. \A e \in Entities : into'[e] = IF e \in D THEN None ELSE into[e]
  BY <1>1, <1>2, <1>4 DEF Closed
<1>6. \A e \in exists \ D : e \in Entities /\ Rep(e)' = Rep(e) /\ Rep(e) \notin D
  BY <1>2, <1>4, <1>5 DEF Rep, Closed
<1>7. Live' = Live \ D
  BY <1>1, <1>2, <1>5 DEF Live
<1>8. \A e \in Entities : into'[e] # None => e \in exists' /\ into'[e] \in Live'
  BY <1>1, <1>4, <1>5, <1>7 DEF Closed, Live
<1>9. DOMAIN merges' = DOMAIN merges
  BY <1>1
<1>10. ASSUME NEW i \in DOMAIN merges
       PROVE  /\ merges[i] \in MergeRows /\ merges'[i] \in MergeRows
              /\ Alike(merges[i], merges'[i])
              /\ merges'[i].open => merges[i].open /\ {merges[i].keep, merges[i].merged} \cap D = {}
  <2>1. PICK g \in MergeRows : g = merges[i]
    BY <1>2
  <2>2. PICK b \in BOOLEAN : b = (g.open /\ {g.keep, g.merged} \cap D = {})
    BY <2>1, RowFacts
  <2>3. merges'[i] = [g EXCEPT !.open = b]
    BY <1>1, <2>1, <2>2
  <2>4. merges'[i] \in MergeRows /\ Alike(g, merges'[i]) /\ merges'[i].open = b
    BY <2>3, OpenFacts DEF Alike
  <2> QED BY <2>1, <2>2, <2>4
<1>11. merges' \in Seq(MergeRows)
  <2>1. PICK n \in Nat : n = Len(merges)
    BY <1>2
  <2>2. DOMAIN merges' = 1 .. n /\ \A i \in 1 .. n : merges'[i] \in MergeRows
    BY <1>2, <1>9, <1>10, <2>1
  <2>3. merges' = [i \in 1 .. n |-> merges'[i]]
    BY <1>1, <1>2, <2>1
  <2>4. merges' \in [1 .. n -> MergeRows]
    BY <2>2, <2>3
  <2> QED BY <2>1, <2>4
<1> QED BY <1>1, <1>3, <1>5, <1>6, <1>7, <1>8, <1>9, <1>10, <1>11

LEMMA DeleteMerges ==
  ASSUME GraphTypes, TreeInv, MergeInv, NEW D, NEW M, M \subseteq mentions, NEW R,
         DeleteEntities(D, M, R), Closed(D), UNCHANGED created
  PROVE  MergeInv'
<1>1. /\ exists' = exists \ D
      /\ \A e \in Entities : into'[e] = IF e \in D THEN None ELSE into[e]
      /\ \A e \in exists \ D : e \in Entities /\ Rep(e)' = Rep(e) /\ Rep(e) \notin D
      /\ DOMAIN merges' = DOMAIN merges
      /\ \A i \in DOMAIN merges :
           /\ merges[i] \in MergeRows /\ merges'[i] \in MergeRows
           /\ Alike(merges[i], merges'[i])
           /\ merges'[i].open => merges[i].open /\ {merges[i].keep, merges[i].merged} \cap D = {}
  BY DeleteMoves
<1>2. mentions' \subseteq mentions
  BY DEF DeleteEntities
<1>3. ASSUME NEW g, NEW h, Alike(g, h), Holds(g), {g.keep, g.merged} \cap D = {} PROVE Holds(h)'
  <2>1. g.keep \in exists \ D /\ g.merged \in exists \ D /\ g.keep \in Entities /\ g.merged \in Entities
    BY <1>1, <1>3 DEF Holds
  <2>2. into'[g.merged] = into[g.merged] /\ Rep(g.keep)' = Rep(g.keep)
    BY <1>1, <2>1
  <2>3. \A e \in g.children \cap exists' : into'[e] = into'[g.merged]
    BY <1>1, <1>3, <2>2 DEF Holds
  <2>4. \A m \in mentions' : m.home \in Below(h) <=> Key(m) \in h.mentions
    BY <1>2, <1>3 DEF Holds, Alike, Below
  <2>5. h.keep = g.keep /\ h.merged = g.merged /\ h.children = g.children
    BY <1>3 DEF Alike
  <2> QED BY <1>1, <1>3, <2>1, <2>2, <2>3, <2>4, <2>5 DEF Holds, Key, Below
<1>4. ASSUME NEW g, NEW h, NEW x, NEW y, Alike(g, x), Alike(h, y), Nested(g, h) PROVE Nested(x, y)'
  BY <1>1, <1>4 DEF Nested, Alike, Below
<1>5. ASSUME NEW i \in DOMAIN merges'
      PROVE  LET g == merges'[i] IN /\ {g.keep, g.merged} \cup g.children \subseteq 1 .. created
                                    /\ g.keep # g.merged /\ g.merged \notin g.children
                                    /\ \A r \in g.dropped : {r.ends[1], r.ends[2]} = {g.keep, g.merged}
  BY <1>1, <1>5 DEF MergeInv, Alike
<1>6. ASSUME NEW i \in DOMAIN merges', merges'[i].open PROVE Holds(merges[i])'
  <2>1. PICK h \in MergeRows : h = merges'[i]
    BY <1>1, <1>6
  <2>2. Holds(h)'
    BY <1>1, <1>3, <1>6, <2>1 DEF MergeInv
  <2> QED BY <2>1, <2>2 DEF Holds
<1>7. ASSUME NEW i \in DOMAIN merges', NEW k \in DOMAIN merges', i # k, merges'[i].open, merges'[k].open
      PROVE  Nested(merges[i], merges[k])'
  <2>1. PICK g \in MergeRows : g = merges'[i]
    BY <1>1, <1>7
  <2>2. PICK h \in MergeRows : h = merges'[k]
    BY <1>1, <1>7
  <2>3. Nested(g, h)'
    BY <1>1, <1>4, <1>7, <2>1, <2>2 DEF MergeInv
  <2> QED BY <2>1, <2>2, <2>3 DEF Nested
<1> QED BY <1>5, <1>6, <1>7 DEF MergeInv

LEMMA DeleteKeeps ==
  ASSUME GraphInv, NEW D, Closed(D), NEW M, M \subseteq mentions, NEW R, R \subseteq relations,
         DeleteEntities(D, M, R),
         created' = created, canonical' = canonical, aliases' = aliases, vectors' = vectors,
         cut' \in [Chunks -> Nat],
         \A c \in Chunks : \/ cut'[c] = cut[c] /\ (c \in resolvedChunks' <=> c \in resolvedChunks)
                           \/ cut'[c] = 0 /\ c \notin resolvedChunks' /\ \A m \in M : m.cite[1] # c,
         resolvedChunks' \subseteq resolvedChunks
  PROVE  GraphInv'
<1>1. GraphTypes /\ CitesInv /\ MergeInv /\ TreeInv
  BY DEF GraphInv
<1>2. MergeInv'
  BY <1>1, DeleteMerges
<1>3. /\ exists' = exists \ D
      /\ into' \in [Entities -> Entities \cup {None}]
      /\ \A e \in exists \ D : Rep(e)' = Rep(e) /\ Rep(e) \notin D
      /\ \A e \in Entities : into'[e] # None => e \in exists' /\ into'[e] \in Live'
      /\ Live' = Live \ D
      /\ merges' \in Seq(MergeRows) /\ DOMAIN merges' = DOMAIN merges
      /\ \A i \in DOMAIN merges : merges[i] \in MergeRows /\ Alike(merges[i], merges'[i])
  BY <1>1, DeleteMoves
<1>4. /\ mentions' = {m \in M : m.at \notin D}
      /\ relations' = {r \in R : r.ends[1] \notin D /\ r.ends[2] \notin D}
      /\ suggestions' = {s \in suggestions : s \cap D = {}}
  BY DEF DeleteEntities
<1>5. GraphTypes'
  BY <1>1, <1>3, <1>4 DEF GraphTypes
<1>6. CitesInv'
  <2>1. ASSUME NEW m \in mentions' PROVE LET d == m.cite[1] IN m.cite = Cite(d)' /\ cut'[d] # 0 /\ d \in resolvedChunks'
    <3>1. m \in mentions /\ m \in M /\ m.cite[1] \in Chunks
      BY <1>1, <1>4 DEF GraphTypes, Mentions
    <3> QED BY <1>1, <3>1 DEF CitesInv, Cite
  <2>2. ASSUME NEW i \in DOMAIN merges', NEW k \in merges'[i].mentions
        PROVE  LET d == k.cite[1] IN /\ k.cite[2] # 0
                                     /\ cut'[d] = 0 \/ k.cite[2] <= cut'[d]
                                     /\ k.cite = Cite(d)' => d \in resolvedChunks'
    <3>1. i \in DOMAIN merges /\ k \in merges[i].mentions /\ merges[i] \in MergeRows
      BY <1>3 DEF Alike
    <3>2. k.cite \in Chunks \X Nat
      BY <3>1, RowFacts
    <3>3. k.cite[1] \in Chunks /\ k.cite[2] \in Nat
      BY <3>2
    <3> QED BY <1>1, <3>1, <3>3 DEF CitesInv, Cite
  <2>3. \A m, x \in mentions' : Key(m) = Key(x) => m = x
    BY <1>1, <1>4 DEF CitesInv
  <2>4. vectors'.chunk \notin resolvedChunks'
    BY <1>1 DEF CitesInv
  <2> QED BY <2>1, <2>2, <2>3, <2>4 DEF CitesInv, Key
<1>7. TreeInv'
  <2>1. \A r \in relations' : {r.ends[1], r.ends[2]} \subseteq Live' /\ r.ends[1] # r.ends[2]
    BY <1>1, <1>3, <1>4 DEF TreeInv
  <2>2. \A s \in suggestions' : s \subseteq Live' /\ s # {} /\ \A e \in s : s # {e}
    BY <1>1, <1>3, <1>4 DEF TreeInv
  <2>3. ASSUME NEW m \in mentions' PROVE m.home \in exists' /\ m.at = Rep(m.home)'
    <3>1. m \in mentions /\ m.at \notin D /\ m.home \in exists /\ m.at = Rep(m.home)
      BY <1>1, <1>4 DEF TreeInv, MentionsAtHome
    <3>2. m.home \notin D
      BY <3>1 DEF Closed, Rep
    <3> QED BY <1>3, <3>1, <3>2
  <2> QED BY <1>3, <2>1, <2>2, <2>3 DEF TreeInv, MentionsAtHome
<1> QED BY <1>2, <1>5, <1>6, <1>7 DEF GraphInv

LEMMA SweepCloses ==
  Closed({e \in Live \ userEdited : e \notin Mentioned(mentions) /\ Children(e) = {}})
BY DEF Closed, Live, Children

LEMMA RemoveCloses ==
  ASSUME GraphInv, NEW e \in Live
  PROVE  Closed({e} \cup Children(e))
<1>1. \A x \in exists : x \in Entities
  BY GraphAssumption DEF GraphInv, GraphTypes, Entities
<1>2. \A x \in exists : into[x] # None => into[into[x]] = None
  BY <1>1 DEF GraphInv, TreeInv, Live
<1>3. e # None
  BY <1>1, NoneIsNoEntity DEF Live
<1> QED BY <1>2, <1>3 DEF Closed, Live, Children

LEMMA OrphansClose ==
  ASSUME GraphInv, NEW left \in SUBSET mentions
  PROVE  LET orphans == {m.at : m \in mentions \ left} \ Mentioned(left)
         IN Closed(orphans \cup UNION {Children(e) : e \in orphans})
<1> DEFINE orphans == {m.at : m \in mentions \ left} \ Mentioned(left)
           D == orphans \cup UNION {Children(e) : e \in orphans}
<1>1. orphans \subseteq Live
  <2>1. \A m \in mentions : m.at \in Live
    BY RepLive DEF GraphInv, TreeInv, MentionsAtHome
  <2> QED BY <2>1
<1>2. \A x \in exists : x \in Entities
  BY GraphAssumption DEF GraphInv, GraphTypes, Entities
<1>3. \A x \in exists : into[x] # None => into[x] \in exists /\ into[into[x]] = None
  BY <1>2 DEF GraphInv, TreeInv, Live
<1> HIDE DEF orphans
<1>4. \A x \in exists : x \in D <=> x \in orphans \/ into[x] \in orphans
  BY DEF Children
<1>5. \A x \in orphans : x \in exists /\ into[x] = None
  BY <1>1 DEF Live
<1>6. D \subseteq exists
  BY <1>5 DEF Children
<1>7. None \notin orphans
  BY <1>2, <1>5, NoneIsNoEntity
<1> HIDE DEF D
<1>8. Closed(D)
  BY <1>3, <1>4, <1>5, <1>6, <1>7 DEF Closed
<1> QED BY <1>8 DEF D, orphans

LEMMA SweepKeeps == GraphInv /\ SweepUnmentioned => GraphInv'
<1> SUFFICES ASSUME GraphInv, SweepUnmentioned PROVE GraphInv'
  OBVIOUS
<1> DEFINE D == {e \in Live \ userEdited : e \notin Mentioned(mentions) /\ Children(e) = {}}
<1>1. /\ DeleteEntities(D, mentions, relations)
      /\ created' = created /\ canonical' = canonical /\ aliases' = aliases /\ vectors' = vectors
      /\ cut' = cut /\ resolvedChunks' = resolvedChunks
  BY DEF SweepUnmentioned
<1>2. Closed(D)
  BY SweepCloses
<1>3. cut' \in [Chunks -> Nat]
  BY <1>1 DEF GraphInv, GraphTypes
<1> HIDE DEF D
<1> QED BY <1>1, <1>2, <1>3, DeleteKeeps

LEMMA RemoveKeeps ==
  ASSUME GraphInv, NEW e \in Live, RemoveEntity(e)
  PROVE  GraphInv'
<1>1. /\ DeleteEntities({e} \cup Children(e), mentions, relations)
      /\ created' = created /\ canonical' = canonical /\ aliases' = aliases /\ vectors' = vectors
      /\ cut' = cut /\ resolvedChunks' = resolvedChunks
  BY DEF RemoveEntity
<1>2. Closed({e} \cup Children(e))
  BY RemoveCloses
<1>3. cut' \in [Chunks -> Nat]
  BY <1>1 DEF GraphInv, GraphTypes
<1> QED BY <1>1, <1>2, <1>3, DeleteKeeps

LEMMA DeleteMeetingKeeps ==
  ASSUME GraphInv, NEW c \in Chunks, DeleteMeeting(c)
  PROVE  GraphInv'
<1> DEFINE left == WithoutChunk(c, mentions)
           orphans == {m.at : m \in mentions \ left} \ Mentioned(left)
           D == orphans \cup UNION {Children(e) : e \in orphans}
<1>1. /\ DeleteEntities(D, left, WithoutChunk(c, relations)) /\ cut' = [cut EXCEPT ![c] = 0]
      /\ resolvedChunks' = resolvedChunks \ {c}
      /\ created' = created /\ canonical' = canonical /\ aliases' = aliases /\ vectors' = vectors
  BY DEF DeleteMeeting
<1>2. left \in SUBSET mentions
  BY DEF WithoutChunk
<1>3. Closed(D)
  <2> HIDE DEF left
  <2> QED BY <1>2, OrphansClose
<1>4. left \subseteq mentions /\ WithoutChunk(c, relations) \subseteq relations
  BY DEF WithoutChunk
<1>5. \A m \in left : m.cite[1] # c
  BY DEF WithoutChunk, GraphInv, CitesInv
<1>6. cut' \in [Chunks -> Nat]
  BY <1>1 DEF GraphInv, GraphTypes
<1> HIDE DEF left, D
<1>7. \A d \in Chunks : \/ cut'[d] = cut[d] /\ (d \in resolvedChunks' <=> d \in resolvedChunks)
                        \/ cut'[d] = 0 /\ d \notin resolvedChunks' /\ \A m \in left : m.cite[1] # d
  <2>1. cut \in [Chunks -> Nat]
    BY DEF GraphInv, GraphTypes
  <2>2. \A d \in Chunks : d # c => cut'[d] = cut[d]
    BY <1>1, <2>1
  <2>3. cut'[c] = 0
    BY <1>1, <2>1
  <2> QED BY <1>1, <1>5, <2>2, <2>3
<1> QED BY <1>1, <1>3, <1>4, <1>6, <1>7, DeleteKeeps

------------------------------------------------------------------------------
(* Resolving a chunk *)

LEMMA LeastOf ==
  ASSUME NEW S \in SUBSET Nat, S # {}
  PROVE  \E e \in S : \A f \in S : e <= f
<1> DEFINE R == OpToRel(<, Nat)
<1>1. \A x, y \in Nat : x < y => <<x, y>> \in R
  BY DEF OpToRel
<1>2. PICK e \in S : \A f \in S : ~ (<<f, e>> \in R)
  BY NatLessThanWellFounded, WFMin
<1> HIDE DEF R
<1>3. ASSUME NEW f \in S PROVE e <= f
  <2>1. ~ (f < e) /\ e \in Nat /\ f \in Nat
    BY <1>1, <1>2
  <2> QED BY <2>1
<1> QED BY <1>3

LEMMA LiveNumbers ==
  ASSUME GraphTypes
  PROVE  \A e \in exists : e \in Nat /\ 1 <= e /\ e <= created /\ e \in Entities
BY GraphAssumption DEF GraphTypes, Entities

\* Nothing is merged into an entity that is itself merged, nor into one that is gone.
LEMMA DeadTarget ==
  ASSUME TreeInv
  PROVE  \A e \in Entities : into[e] # None => e \in exists /\ into[e] \in exists /\ into[into[e]] = None
BY DEF TreeInv, Live

LEMMA FoundIsLive ==
  ASSUME GraphTypes, NEW n
  PROVE  FindExact(n) \in Live \cup {None}
<1> DEFINE byName == {e \in Known(n) : canonical[e] = n}
           from == IF byName # {} THEN byName ELSE Known(n)
<1>1. from \subseteq Live
  BY DEF Known
<1>2. Live \subseteq Nat
  BY LiveNumbers DEF Live
<1>3. FindExact(n) = IF from = {} THEN None ELSE CHOOSE e \in from : \A f \in from : e <= f
  BY DEF FindExact
<1> HIDE DEF from
<1>4. CASE from # {}
  <2>1. \E e \in from : \A f \in from : e <= f
    BY <1>1, <1>2, <1>4, LeastOf
  <2>2. (CHOOSE e \in from : \A f \in from : e <= f) \in from
    BY <2>1
  <2> QED BY <1>1, <1>3, <1>4, <2>2
<1> QED BY <1>3, <1>4

\* The id a new name gets: the n-th new name is the n-th entity from here.
FreshId(c, n) == created + Cardinality({k \in Unknown(c) : k <= n})

LEMMA FreshIds ==
  ASSUME GraphTypes, NEW c \in Chunks, NEW n \in Unknown(c)
  PROVE  /\ FreshId(c, n) \in Nat /\ created < FreshId(c, n)
         /\ FreshId(c, n) <= created + Cardinality(Unknown(c))
         /\ Cardinality(Unknown(c)) \in Nat
<1> DEFINE S == {k \in Unknown(c) : k <= n}
<1>1. Unknown(c) \subseteq Names
  BY GraphAssumption DEF Unknown
<1>2. IsFiniteSet(Unknown(c)) /\ Cardinality(Unknown(c)) \in Nat
  BY <1>1, GraphAssumption, FS_Subset, FS_CardinalityType
<1>3. S \in SUBSET Unknown(c)
  OBVIOUS
<1>4. n \in S
  <2>1. n \in Nat
    BY <1>1, GraphAssumption
  <2>2. n <= n
    BY <2>1
  <2> QED BY <2>2
<1> HIDE DEF S
<1>5. IsFiniteSet(S) /\ Cardinality(S) <= Cardinality(Unknown(c))
  BY <1>2, <1>3, FS_Subset
<1>6. Cardinality(S) \in Nat /\ Cardinality(S) # 0
  BY <1>4, <1>5, FS_CardinalityType, FS_EmptySet
<1>7. created \in Nat
  BY DEF GraphTypes
<1> QED BY <1>2, <1>5, <1>6, <1>7 DEF FreshId, S

Place(c) == [n \in Extraction[c].names |-> IF n \in Unknown(c) THEN FreshId(c, n) ELSE FindExact(n)]
Fresh(c) == {FreshId(c, n) : n \in Unknown(c)}
Found(c) == {[cite |-> Cite(c), name |-> n, home |-> Place(c)[n], at |-> Place(c)[n]] : n \in Extraction[c].names}

LEMMA ResolveMoves ==
  ASSUME GraphInv, NEW c \in Chunks, NEW proposed \in SUBSET Live, ResolveChunk(c, proposed)
  PROVE  /\ created' \in Nat /\ created <= created' /\ created' <= MaxEntities
         /\ Fresh(c) \subseteq (created + 1) .. created' /\ exists' = exists \cup Fresh(c)
         /\ \A n \in Extraction[c].names : Place(c)[n] \in Live \cup Fresh(c)
         /\ canonical' \in [Entities -> Names \cup {None}]
         /\ mentions' = mentions \cup Found(c)
         /\ \A r \in relations' \ relations :
              /\ r \in Relations /\ r.ends[1] # r.ends[2]
              /\ r.ends[1] \in Live \cup Fresh(c) /\ r.ends[2] \in Live \cup Fresh(c)
         /\ \A s \in suggestions' \ suggestions : \E x \in Fresh(c), e \in Live : s = {x, e}
         /\ resolvedChunks' = resolvedChunks \cup {c} /\ vectors' = NoLook /\ vectors.chunk = c /\ cut[c] # 0
         /\ aliases' = aliases /\ into' = into /\ merges' = merges /\ cut' = cut
<1> DEFINE new == Unknown(c)
           added == {[cite |-> Cite(c), pair |-> r, homes |-> <<Place(c)[r[1]], Place(c)[r[2]]>>,
                      ends |-> <<Place(c)[r[1]], Place(c)[r[2]]>>] :
                        r \in {q \in Extraction[c].relations : Place(c)[q[1]] # Place(c)[q[2]]}}
<1>1. /\ created' = created + Cardinality(new) /\ created + Cardinality(new) <= MaxEntities
      /\ exists' = exists \cup {FreshId(c, n) : n \in new}
      /\ canonical' = [e \in Entities |-> IF \E n \in new : e = FreshId(c, n)
                                          THEN CHOOSE n \in new : e = FreshId(c, n) ELSE canonical[e]]
      /\ mentions' = mentions \cup Found(c)
      /\ relations' = relations \cup added
      /\ suggestions' = suggestions \cup {{FreshId(c, n), e} : n \in new, e \in proposed}
  BY DEF ResolveChunk, FreshId, Place, Found
<1>2. /\ resolvedChunks' = resolvedChunks \cup {c} /\ vectors' = NoLook /\ vectors.chunk = c /\ cut[c] # 0
      /\ aliases' = aliases /\ into' = into /\ merges' = merges /\ cut' = cut
  BY DEF ResolveChunk
<1>3. GraphTypes
  BY DEF GraphInv
<1>4. created \in Nat /\ Cardinality(new) \in Nat
  <2>1. new \subseteq Names
    BY GraphAssumption DEF Unknown
  <2> QED BY <1>3, <2>1, GraphAssumption, FS_Subset, FS_CardinalityType DEF GraphTypes
<1>5. Fresh(c) \subseteq (created + 1) .. created'
  BY <1>1, <1>3, <1>4, FreshIds DEF Fresh
<1>6. ASSUME NEW n \in Extraction[c].names PROVE Place(c)[n] \in Live \cup Fresh(c)
  <2>1. CASE n \in new
    BY <2>1 DEF Place, Fresh
  <2>2. CASE n \notin new
    BY <1>3, <2>2, FoundIsLive DEF Place, Unknown
  <2> QED BY <2>1, <2>2
<1>7. canonical' \in [Entities -> Names \cup {None}]
  <2>1. new \subseteq Names
    BY GraphAssumption DEF Unknown
  <2>2. \A e \in Entities : (\E n \in new : e = FreshId(c, n)) => (CHOOSE n \in new : e = FreshId(c, n)) \in Names
    BY <2>1
  <2>3. canonical \in [Entities -> Names \cup {None}]
    BY <1>3 DEF GraphTypes
  <2> HIDE DEF new
  <2> QED BY <1>1, <2>2, <2>3
<1>8. Live \cup Fresh(c) \subseteq Entities
  <2>1. \A x \in (created + 1) .. created' : x \in Entities
    BY <1>1, <1>4, GraphAssumption DEF Entities
  <2>2. Live \subseteq Entities
    BY <1>3, LiveNumbers DEF Live
  <2> QED BY <1>5, <2>1, <2>2
<1>9. ASSUME NEW r \in relations' \ relations
      PROVE  /\ r \in Relations /\ r.ends[1] # r.ends[2]
             /\ r.ends[1] \in Live \cup Fresh(c) /\ r.ends[2] \in Live \cup Fresh(c)
  <2>1. PICK q \in Extraction[c].relations :
          /\ Place(c)[q[1]] # Place(c)[q[2]]
          /\ r = [cite |-> Cite(c), pair |-> q, homes |-> <<Place(c)[q[1]], Place(c)[q[2]]>>,
                  ends |-> <<Place(c)[q[1]], Place(c)[q[2]]>>]
    BY <1>1, <1>9
  <2>2. q \in Extraction[c].names \X Extraction[c].names /\ q \in Names \X Names
    BY GraphAssumption
  <2>3. q[1] \in Extraction[c].names /\ q[2] \in Extraction[c].names
    BY <2>2
  <2>4. PICK a \in Live \cup Fresh(c) : a = Place(c)[q[1]]
    BY <1>6, <2>3
  <2>5. PICK b \in Live \cup Fresh(c) : b = Place(c)[q[2]]
    BY <1>6, <2>3
  <2>6. Cite(c) \in Chunks \X Nat
    BY <1>3 DEF Cite, GraphTypes
  <2>7. a \in Entities /\ b \in Entities /\ r = [cite |-> Cite(c), pair |-> q, homes |-> <<a, b>>, ends |-> <<a, b>>]
        /\ a # b
    BY <1>8, <2>1, <2>4, <2>5
  <2> QED BY <2>2, <2>4, <2>5, <2>6, <2>7 DEF Relations
<1>10. \A s \in suggestions' \ suggestions : \E x \in Fresh(c), e \in Live : s = {x, e}
  BY <1>1 DEF Fresh
<1>11. /\ created' \in Nat /\ created <= created' /\ created' <= MaxEntities
       /\ exists' = exists \cup Fresh(c) /\ mentions' = mentions \cup Found(c)
  BY <1>1, <1>4 DEF Fresh
<1> HIDE DEF new, added
<1> QED BY <1>2, <1>5, <1>6, <1>7, <1>9, <1>10, <1>11

LEMMA ResolveKeeps ==
  ASSUME GraphInv, NEW c \in Chunks, NEW proposed \in SUBSET Live, ResolveChunk(c, proposed)
  PROVE  GraphInv'
<1>1. /\ created' \in Nat /\ created <= created' /\ created' <= MaxEntities
      /\ Fresh(c) \subseteq (created + 1) .. created' /\ exists' = exists \cup Fresh(c)
      /\ \A n \in Extraction[c].names : Place(c)[n] \in Live \cup Fresh(c)
      /\ canonical' \in [Entities -> Names \cup {None}]
      /\ mentions' = mentions \cup Found(c)
      /\ \A r \in relations' \ relations :
           /\ r \in Relations /\ r.ends[1] # r.ends[2]
           /\ r.ends[1] \in Live \cup Fresh(c) /\ r.ends[2] \in Live \cup Fresh(c)
      /\ \A s \in suggestions' \ suggestions : \E x \in Fresh(c), e \in Live : s = {x, e}
      /\ resolvedChunks' = resolvedChunks \cup {c} /\ vectors' = NoLook /\ vectors.chunk = c /\ cut[c] # 0
      /\ aliases' = aliases /\ into' = into /\ merges' = merges /\ cut' = cut
  BY ResolveMoves
<1>2. GraphTypes /\ CitesInv /\ MergeInv /\ TreeInv
  BY DEF GraphInv
<1>3. /\ created \in Nat /\ exists \subseteq 1 .. created /\ exists \subseteq Entities /\ Fresh(c) \subseteq Entities
      /\ Fresh(c) \cap exists = {}
  BY <1>1, <1>2, GraphAssumption DEF GraphTypes, Entities
<1>4. /\ \A x \in Fresh(c) : into[x] = None
      /\ Live' = Live \cup Fresh(c)
  BY <1>1, <1>2, <1>3 DEF TreeInv, Live
<1>5. ASSUME NEW m \in Found(c)
      PROVE  /\ m \in Mentions /\ m.cite = Cite(c) /\ m.cite[1] = c /\ m.at = m.home /\ m.home \in Live'
             /\ m = [cite |-> Cite(c), name |-> m.name, home |-> Place(c)[m.name], at |-> Place(c)[m.name]]
  <2>1. PICK n \in Extraction[c].names : m = [cite |-> Cite(c), name |-> n, home |-> Place(c)[n], at |-> Place(c)[n]]
    BY DEF Found
  <2>2. PICK p \in Live \cup Fresh(c) : p = Place(c)[n]
    BY <1>1
  <2>3. p \in Entities /\ n \in Names /\ Cite(c) \in Chunks \X Nat /\ Cite(c)[1] = c
    BY <1>2, <1>3, <2>2, GraphAssumption DEF Live, Cite, GraphTypes
  <2> QED BY <1>4, <2>1, <2>2, <2>3 DEF Mentions
<1>6. c \notin resolvedChunks
  BY <1>1, <1>2 DEF CitesInv
<1>7. GraphTypes'
  <2>1. exists' \subseteq 1 .. created'
    <3>1. ASSUME NEW x \in exists' PROVE x \in 1 .. created'
      <4>1. x \in 1 .. created \/ x \in (created + 1) .. created'
        BY <1>1, <1>3
      <4> QED BY <1>1, <1>3, <4>1
    <3> QED BY <3>1
  <2>2. mentions' \subseteq Mentions
    BY <1>1, <1>2, <1>5 DEF GraphTypes
  <2>3. relations' \subseteq Relations
    BY <1>1, <1>2 DEF GraphTypes
  <2> QED BY <1>1, <1>2, <2>1, <2>2, <2>3 DEF GraphTypes
<1>8. CitesInv'
  <2>1. \A d \in Chunks : Cite(d)' = Cite(d)
    BY <1>1 DEF Cite
  <2>2. ASSUME NEW m \in mentions' PROVE LET d == m.cite[1] IN m.cite = Cite(d)' /\ cut'[d] # 0 /\ d \in resolvedChunks'
    BY <1>1, <1>2, <1>5, <2>1 DEF CitesInv, Cite
  <2>3. ASSUME NEW m \in mentions', NEW x \in mentions', Key(m) = Key(x) PROVE m = x
    <3>1. m.cite = x.cite /\ m.name = x.name
      BY <2>3 DEF Key
    <3>2. \A y \in mentions : y.cite[1] # c
      BY <1>2, <1>6 DEF CitesInv
    <3>3. CASE m \in mentions /\ x \in mentions
      BY <1>2, <2>3, <3>3 DEF CitesInv
    <3>4. CASE m \in Found(c) /\ x \in Found(c)
      BY <1>5, <3>1, <3>4
    <3> QED BY <1>1, <1>5, <3>1, <3>2, <3>3, <3>4
  <2>4. \A i \in DOMAIN merges' : \A k \in merges'[i].mentions :
          LET d == k.cite[1] IN /\ k.cite[2] # 0
                                /\ cut'[d] = 0 \/ k.cite[2] <= cut'[d]
                                /\ k.cite = Cite(d)' => d \in resolvedChunks'
    BY <1>1, <1>2 DEF CitesInv, Cite
  <2>5. vectors'.chunk \notin resolvedChunks'
    BY <1>1, <1>2, GraphAssumption DEF NoLook, GraphTypes
  <2> QED BY <2>2, <2>3, <2>4, <2>5 DEF CitesInv, Key
<1>9. TreeInv'
  <2>1. \A e \in Entities : into'[e] # None => e \in exists' /\ into'[e] \in Live'
    BY <1>1, <1>2, <1>4 DEF TreeInv
  <2>2. \A r \in relations' : {r.ends[1], r.ends[2]} \subseteq Live' /\ r.ends[1] # r.ends[2]
    BY <1>1, <1>2, <1>4 DEF TreeInv
  <2>3. ASSUME NEW s \in suggestions' PROVE s \subseteq Live' /\ s # {} /\ \A e \in s : s # {e}
    <3>1. CASE s \in suggestions
      BY <1>2, <1>4, <3>1 DEF TreeInv
    <3>2. CASE s \notin suggestions
      <4>1. PICK x \in Fresh(c), e \in Live : s = {x, e}
        BY <1>1, <2>3, <3>2
      <4>2. x # e
        BY <1>3 DEF Live
      <4> QED BY <1>4, <4>1, <4>2
    <3> QED BY <3>1, <3>2
  <2>4. ASSUME NEW m \in mentions' PROVE m.home \in exists' /\ m.at = Rep(m.home)'
    <3>1. CASE m \in mentions
      BY <1>1, <1>2, <3>1 DEF TreeInv, MentionsAtHome, Rep
    <3>2. CASE m \in Found(c)
      BY <1>5, <3>2 DEF Live, Rep
    <3> QED BY <1>1, <3>1, <3>2
  <2> QED BY <2>1, <2>2, <2>3, <2>4 DEF TreeInv, MentionsAtHome
<1>10. MergeInv'
  <2>1. ASSUME NEW i \in DOMAIN merges
        PROVE  LET g == merges[i] IN {g.keep, g.merged} \cup g.children \subseteq 1 .. created'
    BY <1>1, <1>2, <1>3 DEF MergeInv
  <2>2. ASSUME NEW i \in DOMAIN merges, NEW g, g = merges[i], Holds(g) PROVE Holds(g)'
    <3>1. Fresh(c) \cap ({g.keep, g.merged} \cup g.children) = {}
      BY <1>1, <1>2, <1>3, <2>2 DEF MergeInv
    <3>2. g.children \cap exists' = g.children \cap exists
      BY <1>1, <3>1
    <3>3. ASSUME NEW m \in mentions' PROVE m.home \in Below(g) <=> Key(m) \in g.mentions
      <4>1. CASE m \in mentions
        BY <2>2, <4>1 DEF Holds
      <4>2. CASE m \in Found(c)
        <5>1. m.home \notin Below(g)
          BY <1>4, <1>5, <2>2, <3>1, <4>2 DEF Holds, Below, Live
        <5>2. Key(m) \notin g.mentions
          BY <1>2, <1>5, <1>6, <2>2, <4>2 DEF CitesInv, Key
        <5> QED BY <5>1, <5>2
      <4> QED BY <1>1, <4>1, <4>2
    <3> QED BY <1>1, <2>2, <3>2, <3>3 DEF Holds, Rep, Below, Key
  <2>3. ASSUME NEW i \in DOMAIN merges, NEW k \in DOMAIN merges, Nested(merges[i], merges[k])
        PROVE  Nested(merges[i], merges[k])'
    <3>1. merges[i].children \cap exists' = merges[i].children \cap exists
      BY <1>1, <1>2, <1>3 DEF MergeInv
    <3> QED BY <1>1, <2>3, <3>1 DEF Nested, Below
  <2>4. ASSUME NEW i \in DOMAIN merges, merges[i].open PROVE Holds(merges[i])'
    <3>1. PICK g : g = merges[i]
      OBVIOUS
    <3>2. Holds(g)'
      BY <1>2, <2>2, <2>4, <3>1 DEF MergeInv
    <3> QED BY <1>1, <3>1, <3>2 DEF Holds
  <2> QED BY <1>1, <1>2, <2>1, <2>3, <2>4 DEF MergeInv
<1> QED BY <1>7, <1>8, <1>9, <1>10 DEF GraphInv

------------------------------------------------------------------------------
(* Merging two entities *)

LEMMA MoveFirst ==
  ASSUME NEW r \in Relations, NEW from, NEW to \in Entities
  PROVE  LET s == MoveEnd(r, 1, from, to)
         IN s \in Relations /\ s.cite = r.cite /\ s.pair = r.pair /\ s.homes = r.homes /\ s.ends[2] = r.ends[2]
            /\ s.ends[1] = IF r.ends[1] = from THEN to ELSE r.ends[1]
<1>1. PICK a \in Entities, b \in Entities : r.ends = <<a, b>>
  BY DEF Relations
<1>2. PICK x \in Entities : x = IF a = from THEN to ELSE a
  OBVIOUS
<1>3. MoveEnd(r, 1, from, to) = [r EXCEPT !.ends = <<x, b>>]
  <2>1. [r.ends EXCEPT ![1] = IF @ = from THEN to ELSE @] = <<x, b>>
    BY <1>1, <1>2
  <2>2. MoveEnd(r, 1, from, to) = [r EXCEPT !.ends = [r.ends EXCEPT ![1] = IF @ = from THEN to ELSE @]]
    BY DEF MoveEnd, Relations
  <2> QED BY <2>1, <2>2
<1> QED BY <1>1, <1>2, <1>3 DEF Relations

LEMMA MoveSecond ==
  ASSUME NEW r \in Relations, NEW from, NEW to \in Entities
  PROVE  LET s == MoveEnd(r, 2, from, to)
         IN s \in Relations /\ s.cite = r.cite /\ s.pair = r.pair /\ s.homes = r.homes /\ s.ends[1] = r.ends[1]
            /\ s.ends[2] = IF r.ends[2] = from THEN to ELSE r.ends[2]
<1>1. PICK a \in Entities, b \in Entities : r.ends = <<a, b>>
  BY DEF Relations
<1>2. PICK x \in Entities : x = IF b = from THEN to ELSE b
  OBVIOUS
<1>3. MoveEnd(r, 2, from, to) = [r EXCEPT !.ends = <<a, x>>]
  <2>1. [r.ends EXCEPT ![2] = IF @ = from THEN to ELSE @] = <<a, x>>
    BY <1>1, <1>2
  <2>2. MoveEnd(r, 2, from, to) = [r EXCEPT !.ends = [r.ends EXCEPT ![2] = IF @ = from THEN to ELSE @]]
    BY DEF MoveEnd, Relations
  <2> QED BY <2>1, <2>2
<1> QED BY <1>1, <1>2, <1>3 DEF Relations

LEMMA MentionMoves ==
  ASSUME NEW m \in Mentions, NEW e \in Entities
  PROVE  LET x == [m EXCEPT !.at = e]
         IN x \in Mentions /\ x.at = e /\ x.home = m.home /\ x.cite = m.cite /\ Key(x) = Key(m)
BY DEF Mentions, Key

\* Citations hold whatever a step does to where mentions are shown.
LEMMA CitesMoved ==
  ASSUME GraphTypes, CitesInv, cut' = cut, resolvedChunks' = resolvedChunks, vectors' = vectors,
         \A m \in mentions' : \E x \in mentions : m.cite = x.cite,
         \A m, x \in mentions' : Key(m) = Key(x) => m = x,
         \A i \in DOMAIN merges' : \A k \in merges'[i].mentions :
           \/ \E j \in DOMAIN merges : k \in merges[j].mentions
           \/ \E m \in mentions : k = Key(m)
  PROVE  CitesInv'
<1>1. ASSUME NEW m \in mentions'
      PROVE  LET c == m.cite[1] IN m.cite = Cite(c)' /\ cut'[c] # 0 /\ c \in resolvedChunks'
  BY DEF CitesInv, Cite
<1>2. ASSUME NEW i \in DOMAIN merges', NEW k \in merges'[i].mentions
      PROVE  LET c == k.cite[1] IN /\ k.cite[2] # 0
                                   /\ cut'[c] = 0 \/ k.cite[2] <= cut'[c]
                                   /\ k.cite = Cite(c)' => c \in resolvedChunks'
  <2>1. CASE \E j \in DOMAIN merges : k \in merges[j].mentions
    BY <2>1 DEF CitesInv, Cite
  <2>2. CASE \E m \in mentions : k = Key(m)
    <3>1. PICK m \in mentions : k = Key(m)
      BY <2>2
    <3>2. k.cite = m.cite
      BY <3>1 DEF Key
    <3>3. PICK c \in Chunks : c = m.cite[1]
      BY DEF GraphTypes, Mentions
    <3>4. m.cite = <<c, cut[c]>> /\ cut[c] # 0 /\ c \in resolvedChunks
      BY <3>3 DEF CitesInv, Cite
    <3>5. cut[c] \in Nat
      BY DEF GraphTypes
    <3> QED BY <3>2, <3>4, <3>5 DEF Cite
  <2> QED BY <1>2, <2>1, <2>2
<1> QED BY <1>1, <1>2 DEF CitesInv, Key

LEMMA MergeMoves ==
  ASSUME GraphTypes, TreeInv, NEW keep \in Live, NEW merged \in Live, Merge(keep, merged)
  PROVE  /\ keep # merged /\ keep \in Entities /\ merged \in Entities
         /\ into' \in [Entities -> Entities \cup {None}]
         /\ \A e \in Entities : into'[e] = IF e = merged \/ into[e] = merged THEN keep ELSE into[e]
         /\ exists' = exists /\ Live' = Live \ {merged}
         /\ \A e \in exists : Rep(e)' = IF Rep(e) = merged THEN keep ELSE Rep(e)
<1>1. /\ keep # merged /\ exists' = exists
      /\ into' = [e \in Entities |-> IF e = merged \/ (e \in exists /\ into[e] = merged) THEN keep ELSE into[e]]
  BY DEF Merge, Repointed
<1>2. keep \in exists /\ merged \in exists /\ into[keep] = None /\ into[merged] = None
  BY DEF Live
<1>3. keep \in Entities /\ merged \in Entities /\ exists \subseteq Entities
  BY <1>2, LiveNumbers
<1>4. keep # None /\ merged # None
  BY <1>3, NoneIsNoEntity
<1>5. into \in [Entities -> Entities \cup {None}]
  BY DEF GraphTypes
<1>6. \A e \in Entities : into'[e] = IF e = merged \/ into[e] = merged THEN keep ELSE into[e]
  BY <1>1, <1>4, <1>5 DEF TreeInv
<1>7. Live' = Live \ {merged}
  BY <1>1, <1>2, <1>3, <1>4, <1>6, DeadTarget DEF Live
<1>8. \A e \in exists : Rep(e)' = IF Rep(e) = merged THEN keep ELSE Rep(e)
  BY <1>1, <1>2, <1>3, <1>4, <1>6 DEF Rep
<1>9. into' \in [Entities -> Entities \cup {None}]
  BY <1>1, <1>3, <1>5
<1> QED BY <1>1, <1>3, <1>6, <1>7, <1>8, <1>9

\* The row a merge writes.
NewRow(keep, merged) ==
  LET dropped == {r \in relations : {r.ends[1], r.ends[2]} = {keep, merged}}
      moves == relations \ dropped
  IN [keep |-> keep, merged |-> merged,
      names |-> ({canonical[merged]} \cup aliases[merged]) \ ({canonical[keep]} \cup aliases[keep]),
      dropped |-> dropped, open |-> TRUE,
      mentions |-> {[cite |-> m.cite, name |-> m.name] : m \in {x \in mentions : x.at = merged}},
      sources |-> {[cite |-> r.cite, pair |-> r.pair] : r \in {x \in moves : x.ends[1] = merged}},
      targets |-> {[cite |-> r.cite, pair |-> r.pair] : r \in {x \in moves : x.ends[2] = merged}},
      children |-> Children(merged)]

IsNewRow(g, keep, merged) ==
  /\ g \in MergeRows /\ g.keep = keep /\ g.merged = merged /\ g.open = TRUE
  /\ g.children = Children(merged)
  /\ \A k : k \in g.mentions <=> \E m \in mentions : m.at = merged /\ k = Key(m)
  /\ \A r \in g.dropped : {r.ends[1], r.ends[2]} = {keep, merged}

LEMMA NewRowFacts ==
  ASSUME GraphTypes, NEW keep \in Entities, NEW merged \in Entities
  PROVE  IsNewRow(NewRow(keep, merged), keep, merged)
<1> DEFINE dropped == {r \in relations : {r.ends[1], r.ends[2]} = {keep, merged}}
           moves == relations \ dropped
           names == ({canonical[merged]} \cup aliases[merged]) \ ({canonical[keep]} \cup aliases[keep])
           keys == {[cite |-> m.cite, name |-> m.name] : m \in {x \in mentions : x.at = merged}}
           sources == {[cite |-> r.cite, pair |-> r.pair] : r \in {x \in moves : x.ends[1] = merged}}
           targets == {[cite |-> r.cite, pair |-> r.pair] : r \in {x \in moves : x.ends[2] = merged}}
<1>1. NewRow(keep, merged) = [keep |-> keep, merged |-> merged, names |-> names, dropped |-> dropped, open |-> TRUE,
                              mentions |-> keys, sources |-> sources, targets |-> targets,
                              children |-> Children(merged)]
  BY DEF NewRow
<1>2. names \subseteq Names \cup {None}
  BY DEF GraphTypes
<1>3. dropped \subseteq Relations /\ moves \subseteq Relations
  BY DEF GraphTypes
<1>4. keys \subseteq [cite : Chunks \X Nat, name : Names]
  BY DEF GraphTypes, Mentions
<1>5. /\ sources \subseteq [cite : Chunks \X Nat, pair : Names \X Names]
      /\ targets \subseteq [cite : Chunks \X Nat, pair : Names \X Names]
  BY <1>3 DEF Relations
<1>6. Children(merged) \subseteq Entities
  BY LiveNumbers DEF Children
<1>7. \A r \in dropped : {r.ends[1], r.ends[2]} = {keep, merged}
  OBVIOUS
<1>8. \A k : k \in keys <=> \E m \in mentions : m.at = merged /\ k = Key(m)
  BY DEF Key
<1> HIDE DEF names, dropped, keys, sources, targets
<1> QED BY <1>1, <1>2, <1>3, <1>4, <1>5, <1>6, <1>7, <1>8 DEF MergeRows, IsNewRow

LEMMA MergeTree ==
  ASSUME GraphTypes, CitesInv, TreeInv, NEW keep \in Live, NEW merged \in Live, Merge(keep, merged)
  PROVE  TreeInv' /\ relations' \subseteq Relations
<1>1. /\ keep # merged /\ keep \in Entities /\ merged \in Entities
      /\ \A e \in Entities : into'[e] = IF e = merged \/ into[e] = merged THEN keep ELSE into[e]
      /\ exists' = exists /\ Live' = Live \ {merged}
      /\ \A e \in exists : Rep(e)' = IF Rep(e) = merged THEN keep ELSE Rep(e)
  BY MergeMoves
<1>2. \A e \in Entities : into'[e] # None => e \in exists' /\ into'[e] \in Live'
  BY <1>1 DEF TreeInv, Live
<1>3. ASSUME NEW s \in relations'
      PROVE  s \in Relations /\ {s.ends[1], s.ends[2]} \subseteq Live' /\ s.ends[1] # s.ends[2]
  <2>1. PICK r \in relations : /\ {r.ends[1], r.ends[2]} # {keep, merged}
                               /\ s = MoveEnd(MoveEnd(r, 1, merged, keep), 2, merged, keep)
    BY <1>3 DEF Merge
  <2>2. PICK x : x = MoveEnd(r, 1, merged, keep)
    OBVIOUS
  <2>3. r \in Relations
    BY DEF GraphTypes
  <2>4. x \in Relations /\ x.ends[2] = r.ends[2] /\ x.ends[1] = IF r.ends[1] = merged THEN keep ELSE r.ends[1]
    BY <1>1, <2>2, <2>3, MoveFirst
  <2>5. /\ s \in Relations /\ s.ends[1] = x.ends[1]
        /\ s.ends[2] = IF x.ends[2] = merged THEN keep ELSE x.ends[2]
    BY <1>1, <2>1, <2>2, <2>4, MoveSecond
  <2>6. {r.ends[1], r.ends[2]} \subseteq Live /\ r.ends[1] # r.ends[2]
    BY DEF TreeInv
  <2> QED BY <1>1, <2>1, <2>4, <2>5, <2>6
<1>4. ASSUME NEW s \in suggestions' PROVE s \subseteq Live' /\ s # {} /\ \A e \in s : s # {e}
  BY <1>1, <1>4 DEF Merge, TreeInv
<1>5. ASSUME NEW m \in mentions' PROVE m.home \in exists' /\ m.at = Rep(m.home)'
  <2>1. PICK x \in mentions : m = [x EXCEPT !.at = IF @ = merged THEN keep ELSE @]
    BY <1>5 DEF Merge
  <2>2. PICK e \in Entities : e = IF x.at = merged THEN keep ELSE x.at
    BY <1>1 DEF GraphTypes, Mentions
  <2>3. x \in Mentions /\ m = [x EXCEPT !.at = e]
    BY <2>1, <2>2 DEF GraphTypes
  <2>4. m.home = x.home /\ m.at = e
    BY <2>3, MentionMoves
  <2>5. x.home \in exists /\ x.at = Rep(x.home)
    BY DEF TreeInv, MentionsAtHome
  <2> QED BY <1>1, <2>2, <2>4, <2>5
<1> QED BY <1>2, <1>3, <1>4, <1>5 DEF TreeInv, MentionsAtHome

LEMMA MergeRowsKept ==
  ASSUME GraphTypes, NEW keep \in Live, NEW merged \in Live, Merge(keep, merged)
  PROVE  /\ merges' \in Seq(MergeRows)
         /\ \E n \in Nat : /\ DOMAIN merges = 1 .. n /\ DOMAIN merges' = 1 .. (n + 1)
                           /\ \A i \in 1 .. n : merges'[i] = merges[i] /\ merges[i] \in MergeRows
                           /\ merges'[n + 1] = NewRow(keep, merged)
<1>1. PICK g : g = NewRow(keep, merged)
  OBVIOUS
<1>2. keep \in Entities /\ merged \in Entities
  BY LiveNumbers DEF Live
<1>3. g \in MergeRows
  BY <1>1, <1>2, NewRowFacts DEF IsNewRow
<1>4. merges' = Append(merges, g)
  BY <1>1 DEF Merge, NewRow
<1>5. merges \in Seq(MergeRows)
  BY DEF GraphTypes
<1>6. PICK n \in Nat : n = Len(merges)
  BY <1>5
<1> QED BY <1>1, <1>3, <1>4, <1>5, <1>6

\* The merge just made against an open one: nothing was merged into `merged` but what
\* follows it now, and `keep` and `merged` were below nobody.
LEMMA NewRowNested ==
  ASSUME TreeInv, GraphTypes, NEW keep \in Live, NEW merged \in Live,
         NEW g, g.keep = keep, g.merged = merged, g.children = Children(merged),
         NEW h \in MergeRows, Holds(h)
  PROVE  Nested(g, h) /\ Nested(h, g)
<1>1. keep \in exists /\ merged \in exists /\ into[keep] = None /\ into[merged] = None
      /\ keep \in Entities /\ merged \in Entities /\ keep # None /\ merged # None
  BY LiveNumbers, NoneIsNoEntity DEF Live
<1>2. /\ h.keep \in exists /\ h.merged \in exists
      /\ into[h.merged] # None /\ into[h.merged] = Rep(h.keep)
      /\ \A e \in h.children \cap exists : into[e] = into[h.merged]
  BY DEF Holds
<1>3. keep \notin Below(h) /\ merged \notin h.children /\ h.merged # merged
  BY <1>1, <1>2 DEF Below
<1>4. \A e \in exists : e \in g.children <=> into[e] = merged
  BY DEF Children
<1>5. Nested(g, h)
  BY <1>2, <1>3, <1>4 DEF Nested
<1>6. h.merged \in g.children <=> h.keep \in Below(g)
  BY <1>1, <1>2, <1>4 DEF Below, Rep
<1>7. Nested(h, g)
  BY <1>2, <1>3, <1>4, <1>6 DEF Nested
<1> QED BY <1>5, <1>7

LEMMA MergeKeeps ==
  ASSUME GraphInv, NEW keep \in Live, NEW merged \in Live, Merge(keep, merged)
  PROVE  GraphInv'
<1>0. GraphTypes /\ CitesInv /\ MergeInv /\ TreeInv
  BY DEF GraphInv
<1>1. /\ keep # merged /\ keep \in Entities /\ merged \in Entities
      /\ into' \in [Entities -> Entities \cup {None}]
      /\ \A e \in Entities : into'[e] = IF e = merged \/ into[e] = merged THEN keep ELSE into[e]
      /\ exists' = exists /\ Live' = Live \ {merged}
      /\ \A e \in exists : Rep(e)' = IF Rep(e) = merged THEN keep ELSE Rep(e)
  BY <1>0, MergeMoves
<1>2. TreeInv' /\ relations' \subseteq Relations
  BY <1>0, MergeTree
<1>3. PICK g : g = NewRow(keep, merged)
  OBVIOUS
<1>4. /\ g \in MergeRows /\ g.keep = keep /\ g.merged = merged /\ g.open = TRUE
      /\ g.children = Children(merged)
      /\ \A k : k \in g.mentions <=> \E m \in mentions : m.at = merged /\ k = Key(m)
      /\ \A r \in g.dropped : {r.ends[1], r.ends[2]} = {keep, merged}
  <2>1. IsNewRow(NewRow(keep, merged), keep, merged)
    BY <1>0, <1>1, NewRowFacts
  <2> QED BY <1>3, <2>1 DEF IsNewRow
<1>5. PICK n \in Nat : /\ DOMAIN merges = 1 .. n /\ DOMAIN merges' = 1 .. (n + 1)
                       /\ \A i \in 1 .. n : merges'[i] = merges[i] /\ merges[i] \in MergeRows
                       /\ merges'[n + 1] = g
  BY <1>0, <1>3, MergeRowsKept
<1>6. /\ created' = created /\ canonical' = canonical /\ cut' = cut /\ resolvedChunks' = resolvedChunks
      /\ vectors' = vectors
      /\ aliases' = [aliases EXCEPT ![keep] = @ \cup (({canonical[merged]} \cup aliases[merged]) \ ({canonical[keep]} \cup aliases[keep]))]
      /\ mentions' = {[m EXCEPT !.at = IF @ = merged THEN keep ELSE @] : m \in mentions}
  BY DEF Merge
<1>7. \A m \in mentions' : \E x \in mentions : /\ m.home = x.home /\ m.cite = x.cite /\ Key(m) = Key(x)
                                               /\ m \in Mentions
                                               /\ m = [x EXCEPT !.at = IF @ = merged THEN keep ELSE @]
  <2>1. ASSUME NEW m \in mentions'
        PROVE  \E x \in mentions : /\ m.home = x.home /\ m.cite = x.cite /\ Key(m) = Key(x) /\ m \in Mentions
                                   /\ m = [x EXCEPT !.at = IF @ = merged THEN keep ELSE @]
    <3>1. PICK x \in mentions : m = [x EXCEPT !.at = IF @ = merged THEN keep ELSE @]
      BY <1>6
    <3>2. PICK e \in Entities : e = IF x.at = merged THEN keep ELSE x.at
      BY <1>0, <1>1 DEF GraphTypes, Mentions
    <3>3. x \in Mentions /\ m = [x EXCEPT !.at = e]
      BY <1>0, <3>1, <3>2 DEF GraphTypes
    <3> QED BY <3>1, <3>3, MentionMoves
  <2> QED BY <2>1
<1>8. GraphTypes'
  <2>1. aliases' \in [Entities -> SUBSET (Names \cup {None})]
    BY <1>0, <1>1, <1>6 DEF GraphTypes
  <2>2. mentions' \subseteq Mentions
    BY <1>7
  <2>3. merges' \in Seq(MergeRows)
    BY <1>0, MergeRowsKept
  <2> QED BY <1>0, <1>1, <1>2, <1>6, <2>1, <2>2, <2>3 DEF GraphTypes
<1>9. CitesInv'
  <2>1. \A m, x \in mentions' : Key(m) = Key(x) => m = x
    BY <1>0, <1>7 DEF CitesInv
  <2>2. \A i \in DOMAIN merges' : \A k \in merges'[i].mentions :
          \/ \E j \in DOMAIN merges : k \in merges[j].mentions
          \/ \E m \in mentions : k = Key(m)
    BY <1>4, <1>5
  <2> QED BY <1>0, <1>6, <1>7, <2>1, <2>2, CitesMoved
<1>10. MergeInv'
  <2>1. Holds(g)'
    <3>1. into'[merged] = keep /\ Rep(keep)' = keep /\ keep # None
      BY <1>0, <1>1, LiveNumbers, NoneIsNoEntity DEF Live, Rep
    <3>2. \A e \in exists : e \in Below(g) <=> Rep(e) = merged
      BY <1>0, <1>1, <1>4, LiveNumbers, NoneIsNoEntity DEF Below, Children, Rep, Live
    <3>3. ASSUME NEW m \in mentions' PROVE m.home \in Below(g) <=> Key(m) \in g.mentions
      <4>1. PICK x \in mentions : m.home = x.home /\ Key(m) = Key(x)
        BY <1>7
      <4>2. x.home \in exists /\ x.at = Rep(x.home)
        BY <1>0 DEF TreeInv, MentionsAtHome
      <4>3. Key(x) \in g.mentions <=> x.at = merged
        BY <1>0, <1>4 DEF CitesInv
      <4> QED BY <3>2, <4>1, <4>2, <4>3
    <3>4. \A e \in g.children \cap exists' : into'[e] = into'[merged]
      BY <1>0, <1>1, <1>4, <3>1, LiveNumbers DEF Children
    <3>5. {keep, merged} \subseteq exists'
      BY <1>1 DEF Live
    <3> QED BY <1>4, <3>1, <3>3, <3>4, <3>5 DEF Holds, Key, Below
  <2>2. ASSUME NEW h \in MergeRows, Holds(h) PROVE Holds(h)'
    <3>1. h.keep \in exists /\ h.merged \in exists /\ h.merged \in Entities /\ into[h.merged] # None
          /\ into[h.merged] = Rep(h.keep)
      BY <1>0, <2>2, LiveNumbers DEF Holds
    <3>2. h.merged # merged /\ keep # None
      BY <1>1, <3>1, NoneIsNoEntity DEF Live
    <3>3. into'[h.merged] # None /\ into'[h.merged] = Rep(h.keep)'
      BY <1>1, <3>1, <3>2
    <3>4. ASSUME NEW e \in h.children \cap exists PROVE into'[e] = into'[h.merged]
      <4>1. e \in Entities /\ into[e] = into[h.merged]
        BY <1>0, <2>2, LiveNumbers DEF Holds
      <4>2. e # merged
        BY <3>1, <4>1 DEF Live
      <4> QED BY <1>1, <3>1, <3>2, <4>1, <4>2
    <3>5. \A m \in mentions' : m.home \in Below(h) <=> Key(m) \in h.mentions
      BY <1>7, <2>2 DEF Holds
    <3> QED BY <1>1, <3>1, <3>3, <3>4, <3>5 DEF Holds, Key, Below
  <2>3. ASSUME NEW h \in MergeRows, NEW x \in MergeRows, Nested(h, x) PROVE Nested(h, x)'
    BY <1>1, <2>3 DEF Nested, Below
  <2>4. ASSUME NEW i \in 1 .. (n + 1) PROVE i = n + 1 \/ i \in 1 .. n
    OBVIOUS
  <2>5. ASSUME NEW i \in 1 .. (n + 1), merges'[i].open
        PROVE  /\ merges'[i] \in MergeRows
               /\ i \in 1 .. n => Holds(merges[i]) /\ merges[i].open /\ merges'[i] = merges[i]
               /\ i \notin 1 .. n => merges'[i] = g
    BY <1>0, <1>4, <1>5, <2>4, <2>5 DEF MergeInv
  <2>6. ASSUME NEW i \in 1 .. (n + 1), merges'[i].open PROVE Holds(merges[i])'
    <3>1. PICK h \in MergeRows : h = merges'[i]
      BY <2>5, <2>6
    <3>2. Holds(h)'
      BY <2>1, <2>2, <2>5, <2>6, <3>1
    <3> QED BY <3>1, <3>2 DEF Holds
  <2>7. ASSUME NEW i \in 1 .. (n + 1), NEW j \in 1 .. (n + 1), i # j, merges'[i].open, merges'[j].open
        PROVE  Nested(merges[i], merges[j])'
    <3>1. PICK h \in MergeRows : h = merges'[i]
      BY <2>5, <2>7
    <3>2. PICK x \in MergeRows : x = merges'[j]
      BY <2>5, <2>7
    <3>3. Nested(h, x)
      <4>1. CASE i \in 1 .. n /\ j \in 1 .. n
        BY <1>0, <1>5, <2>5, <2>7, <3>1, <3>2, <4>1 DEF MergeInv
      <4>2. CASE i \notin 1 .. n
        BY <1>0, <1>4, <2>4, <2>5, <2>7, <3>1, <3>2, <4>2, NewRowNested
      <4>3. CASE j \notin 1 .. n
        BY <1>0, <1>4, <2>4, <2>5, <2>7, <3>1, <3>2, <4>3, NewRowNested
      <4> QED BY <4>1, <4>2, <4>3
    <3>4. Nested(h, x)'
      BY <2>3, <3>3
    <3> QED BY <3>1, <3>2, <3>4 DEF Nested
  <2>8. ASSUME NEW i \in 1 .. (n + 1)
        PROVE  LET h == merges'[i] IN /\ {h.keep, h.merged} \cup h.children \subseteq 1 .. created
                                      /\ h.keep # h.merged /\ h.merged \notin h.children
                                      /\ \A r \in h.dropped : {r.ends[1], r.ends[2]} = {h.keep, h.merged}
    <3>1. CASE i \in 1 .. n
      BY <1>0, <1>5, <3>1 DEF MergeInv
    <3>2. CASE i = n + 1
      <4>1. exists \subseteq 1 .. created
        BY <1>0 DEF GraphTypes
      <4>2. merged \notin g.children
        BY <1>0, <1>1, <1>4, LiveNumbers, NoneIsNoEntity DEF Children, Live
      <4>3. {keep, merged} \cup g.children \subseteq 1 .. created
        BY <1>4, <4>1 DEF Live, Children
      <4>4. PICK h : h = merges'[i]
        OBVIOUS
      <4>5. h = g
        BY <1>5, <3>2, <4>4
      <4> QED BY <1>1, <1>4, <4>2, <4>3, <4>4, <4>5
    <3> QED BY <2>4, <3>1, <3>2
  <2> QED BY <1>5, <1>6, <2>6, <2>7, <2>8 DEF MergeInv, Holds, Nested
<1> QED BY <1>2, <1>8, <1>9, <1>10 DEF GraphInv

------------------------------------------------------------------------------
(* Undoing a merge *)

LEMMA UndoMoves ==
  ASSUME GraphTypes, TreeInv, MergeInv, NEW i \in DOMAIN merges, Undo(i),
         NEW g \in MergeRows, g = merges[i]
  PROVE  /\ Holds(g) /\ g.keep \in Live /\ g.merged \in exists /\ g.merged \notin Live
         /\ g.merged \in Entities /\ g.keep \in Entities /\ g.keep # g.merged
         /\ into' \in [Entities -> Entities \cup {None}]
         /\ \A e \in exists : into'[e] = IF e = g.merged THEN None ELSE IF e \in g.children THEN g.merged ELSE into[e]
         /\ \A e \in Entities : into'[e] # None => e \in exists
         /\ exists' = exists /\ Live' = Live \cup {g.merged}
         /\ \A e \in exists : Rep(e)' = IF e \in Below(g) THEN g.merged ELSE Rep(e)
         /\ \A e \in exists \cap Below(g) : Rep(e) = g.keep
         /\ \A r \in g.dropped : r \in Relations /\ {r.ends[1], r.ends[2]} = {g.keep, g.merged}
<1>1. /\ g.open /\ into[g.merged] = g.keep /\ exists' = exists
      /\ into' = [e \in Entities |-> IF e = g.merged THEN None
                                     ELSE IF e \in g.children /\ into[e] = g.keep THEN g.merged ELSE into[e]]
  BY DEF Undo
<1>2. /\ Holds(g) /\ g.keep # g.merged /\ g.merged \notin g.children
      /\ \A r \in g.dropped : {r.ends[1], r.ends[2]} = {g.keep, g.merged}
  BY <1>1 DEF MergeInv
<1>3. g.merged \in exists /\ g.merged \in Entities /\ g.keep \in Entities /\ g.children \subseteq Entities
      /\ g.dropped \subseteq Relations
  BY <1>2, RowFacts DEF Holds
<1>4. g.keep # None /\ g.merged # None
  BY <1>3, NoneIsNoEntity
<1>5. g.keep \in Live /\ g.merged \notin Live
  BY <1>1, <1>3, <1>4 DEF TreeInv, Live
<1>6. into \in [Entities -> Entities \cup {None}] /\ exists \subseteq Entities
  BY LiveNumbers DEF GraphTypes
<1>7. into' \in [Entities -> Entities \cup {None}]
  BY <1>1, <1>3, <1>6
<1>8. \A e \in g.children \cap exists : into[e] = g.keep
  BY <1>1, <1>2 DEF Holds
<1>9. \A e \in exists : into'[e] = IF e = g.merged THEN None ELSE IF e \in g.children THEN g.merged ELSE into[e]
  BY <1>1, <1>6, <1>8
<1>10. \A e \in Entities : into'[e] # None => e \in exists
  BY <1>1, <1>4 DEF TreeInv
<1>11. Live' = Live \cup {g.merged}
  <2>1. \A e \in exists : into'[e] = None <=> e = g.merged \/ into[e] = None
    BY <1>4, <1>8, <1>9
  <2> QED BY <1>1, <1>3, <2>1 DEF Live
<1>12. \A e \in exists \cap Below(g) : Rep(e) = g.keep
  BY <1>1, <1>4, <1>8 DEF Below, Rep
<1>13. \A e \in exists : Rep(e)' = IF e \in Below(g) THEN g.merged ELSE Rep(e)
  BY <1>1, <1>2, <1>4, <1>9 DEF Below, Rep
<1> QED BY <1>1, <1>2, <1>3, <1>5, <1>7, <1>9, <1>10, <1>11, <1>12, <1>13

LEMMA UndoRelations ==
  ASSUME GraphTypes, TreeInv, NEW i \in DOMAIN merges, Undo(i), NEW g \in MergeRows, g = merges[i],
         g.keep \in Live, g.merged \in Entities, g.merged \notin Live, g.keep # g.merged,
         \A r \in g.dropped : r \in Relations /\ {r.ends[1], r.ends[2]} = {g.keep, g.merged},
         NEW s \in relations'
  PROVE  s \in Relations /\ {s.ends[1], s.ends[2]} \subseteq Live \cup {g.merged} /\ s.ends[1] # s.ends[2]
<1> DEFINE at(r) == [cite |-> r.cite, pair |-> r.pair]
           first(r) == IF at(r) \in g.sources THEN MoveEnd(r, 1, g.keep, g.merged) ELSE r
           from(r) == IF at(r) \in g.targets THEN g.keep ELSE None
<1>1. relations' = {MoveEnd(first(r), 2, from(r), g.merged) : r \in relations} \cup Restored(g)
  BY DEF Undo
<1>2. CASE s \in Restored(g)
  BY <1>2 DEF Restored
<1>3. CASE s \notin Restored(g)
  <2>1. PICK r \in relations : s = MoveEnd(first(r), 2, from(r), g.merged)
    BY <1>1, <1>3
  <2>2. r \in Relations /\ {r.ends[1], r.ends[2]} \subseteq Live /\ r.ends[1] # r.ends[2]
    BY DEF GraphTypes, TreeInv
  <2>3. PICK x : x = first(r)
    OBVIOUS
  <2>4. x \in Relations /\ x.ends[2] = r.ends[2] /\ (x.ends[1] = r.ends[1] \/ (x.ends[1] = g.merged /\ r.ends[1] = g.keep))
    BY <2>2, <2>3, MoveFirst
  <2>5. PICK f : f = from(r) /\ (f = g.keep \/ f = None)
    OBVIOUS
  <2>6. s = MoveEnd(x, 2, f, g.merged)
    BY <2>1, <2>3, <2>5
  <2> HIDE DEF first, from
  <2>7. /\ s \in Relations /\ s.ends[1] = x.ends[1]
        /\ s.ends[2] = IF x.ends[2] = f THEN g.merged ELSE x.ends[2]
    BY <2>4, <2>6, MoveSecond
  <2>8. r.ends[2] # None
    <3>1. r.ends[2] \in Entities
      BY <2>2, LiveNumbers DEF Live
    <3> QED BY <3>1, NoneIsNoEntity
  <2> QED BY <2>2, <2>4, <2>5, <2>7, <2>8
<1> QED BY <1>2, <1>3

LEMMA UndoTree ==
  ASSUME GraphTypes, TreeInv, MergeInv, NEW i \in DOMAIN merges, Undo(i), NEW g \in MergeRows, g = merges[i]
  PROVE  /\ TreeInv' /\ relations' \subseteq Relations
         /\ \A m \in mentions' : \E x \in mentions : m.home = x.home /\ m.cite = x.cite /\ Key(m) = Key(x)
                                                     /\ m \in Mentions
                                                     /\ m = (IF x.at = g.keep /\ [cite |-> x.cite, name |-> x.name] \in g.mentions
                                                             THEN [x EXCEPT !.at = g.merged] ELSE x)
<1>1. /\ Holds(g) /\ g.keep \in Live /\ g.merged \in exists /\ g.merged \notin Live
      /\ g.merged \in Entities /\ g.keep \in Entities /\ g.keep # g.merged
      /\ \A e \in exists : into'[e] = IF e = g.merged THEN None ELSE IF e \in g.children THEN g.merged ELSE into[e]
      /\ \A e \in Entities : into'[e] # None => e \in exists
      /\ exists' = exists /\ Live' = Live \cup {g.merged}
      /\ \A e \in exists : Rep(e)' = IF e \in Below(g) THEN g.merged ELSE Rep(e)
      /\ \A e \in exists \cap Below(g) : Rep(e) = g.keep
      /\ \A r \in g.dropped : r \in Relations /\ {r.ends[1], r.ends[2]} = {g.keep, g.merged}
  BY UndoMoves
<1>2. \A e \in Entities : into'[e] # None => e \in exists' /\ into'[e] \in Live'
  BY <1>1 DEF TreeInv
<1>3. ASSUME NEW s \in relations'
      PROVE  s \in Relations /\ {s.ends[1], s.ends[2]} \subseteq Live' /\ s.ends[1] # s.ends[2]
  BY <1>1, UndoRelations
<1>4. \A s \in suggestions' : s \subseteq Live' /\ s # {} /\ \A e \in s : s # {e}
  BY <1>1 DEF Undo, TreeInv
<1>5. ASSUME NEW m \in mentions'
      PROVE  \E x \in mentions : m.home = x.home /\ m.cite = x.cite /\ Key(m) = Key(x)
                                 /\ m \in Mentions
                                 /\ m = (IF x.at = g.keep /\ [cite |-> x.cite, name |-> x.name] \in g.mentions
                                         THEN [x EXCEPT !.at = g.merged] ELSE x)
  <2>1. PICK x \in mentions : m = IF x.at = g.keep /\ [cite |-> x.cite, name |-> x.name] \in g.mentions
                                  THEN [x EXCEPT !.at = g.merged] ELSE x
    BY DEF Undo, MentionsBack
  <2>2. x \in Mentions
    BY DEF GraphTypes
  <2>3. PICK y : y = [x EXCEPT !.at = g.merged]
    OBVIOUS
  <2>4. y \in Mentions /\ y.home = x.home /\ y.cite = x.cite /\ Key(y) = Key(x)
    BY <1>1, <2>2, <2>3, MentionMoves
  <2> QED BY <2>1, <2>2, <2>3, <2>4
<1>6. ASSUME NEW m \in mentions' PROVE m.home \in exists' /\ m.at = Rep(m.home)'
  <2>1. PICK x \in mentions : /\ m.home = x.home
                              /\ m = (IF x.at = g.keep /\ [cite |-> x.cite, name |-> x.name] \in g.mentions
                                      THEN [x EXCEPT !.at = g.merged] ELSE x)
    BY <1>5
  <2>2. x.home \in exists /\ x.at = Rep(x.home)
    BY DEF TreeInv, MentionsAtHome
  <2>3. x.home \in Below(g) <=> Key(x) \in g.mentions
    BY <1>1 DEF Holds
  <2>4. CASE x.home \in Below(g)
    <3>1. x.at = g.keep /\ [cite |-> x.cite, name |-> x.name] \in g.mentions
      BY <1>1, <2>2, <2>3, <2>4 DEF Key
    <3>2. x \in Mentions
      BY DEF GraphTypes
    <3>3. m.at = g.merged
      BY <1>1, <2>1, <3>1, <3>2, MentionMoves
    <3> QED BY <1>1, <2>1, <2>2, <2>4, <3>3
  <2>5. CASE x.home \notin Below(g)
    <3>1. m = x
      BY <2>1, <2>3, <2>5 DEF Key
    <3> QED BY <1>1, <2>2, <2>5, <3>1
  <2> QED BY <2>4, <2>5
<1> QED BY <1>2, <1>3, <1>4, <1>5, <1>6 DEF TreeInv, MentionsAtHome

\* Every other open merge is above the undone one, below it, or apart from it, and
\* keeps what it holds.
LEMMA UndoHolds ==
  ASSUME GraphTypes, TreeInv, MergeInv, NEW i \in DOMAIN merges, Undo(i), NEW g \in MergeRows, g = merges[i],
         NEW h \in MergeRows, Holds(h), Nested(g, h), Nested(h, g),
         \A m \in mentions' : \E x \in mentions : m.home = x.home /\ Key(m) = Key(x)
  PROVE  Holds(h)'
<1>1. /\ Holds(g) /\ g.keep \in Live /\ g.merged \in exists /\ g.merged \in Entities
      /\ \A e \in exists : into'[e] = IF e = g.merged THEN None ELSE IF e \in g.children THEN g.merged ELSE into[e]
      /\ exists' = exists
      /\ \A e \in exists : Rep(e)' = IF e \in Below(g) THEN g.merged ELSE Rep(e)
  BY UndoMoves
<1>2. /\ h.keep \in exists /\ h.merged \in exists /\ h.merged # g.merged
      /\ into[h.merged] # None /\ into[h.merged] = Rep(h.keep)
      /\ \A e \in h.children \cap exists : into[e] = into[h.merged]
  BY DEF Holds, Nested
<1>3. g.merged # None
  BY <1>1, NoneIsNoEntity
<1>4. h.merged \in g.children <=> h.keep \in Below(g)
  BY DEF Nested
<1>5. into'[h.merged] # None /\ into'[h.merged] = Rep(h.keep)'
  BY <1>1, <1>2, <1>3, <1>4
<1>6. ASSUME NEW e \in h.children \cap exists PROVE into'[e] = into'[h.merged]
  <2>1. g.merged \notin h.children
    <3>1. ASSUME g.merged \in h.children PROVE FALSE
      <4>1. g.keep \in Below(h) /\ g.keep \in exists /\ into[g.keep] = None
        BY <1>1, <3>1 DEF Nested, Live
      <4> QED BY <1>2, <4>1 DEF Below
    <3> QED BY <3>1
  <2>2. CASE h.merged \in g.children
    <3>1. e \in g.children
      BY <2>2 DEF Nested
    <3> QED BY <1>1, <1>2, <2>1, <2>2, <3>1
  <2>3. CASE h.merged \notin g.children
    <3>1. e \notin g.children
      BY <2>1, <2>3 DEF Nested
    <3> QED BY <1>1, <1>2, <2>1, <2>3, <3>1
  <2> QED BY <2>2, <2>3
<1>7. \A m \in mentions' : m.home \in Below(h) <=> Key(m) \in h.mentions
  BY DEF Holds
<1> QED BY <1>1, <1>2, <1>5, <1>6, <1>7 DEF Holds, Key, Below

LEMMA UndoKeeps ==
  ASSUME GraphInv, NEW i \in DOMAIN merges, Undo(i)
  PROVE  GraphInv'
<1>0. GraphTypes /\ CitesInv /\ MergeInv /\ TreeInv
  BY DEF GraphInv
<1>1. PICK g \in MergeRows : g = merges[i]
  BY <1>0 DEF GraphTypes
<1>2. /\ TreeInv' /\ relations' \subseteq Relations
      /\ \A m \in mentions' : \E x \in mentions : m.home = x.home /\ m.cite = x.cite /\ Key(m) = Key(x)
                                                  /\ m \in Mentions
                                                  /\ m = (IF x.at = g.keep /\ [cite |-> x.cite, name |-> x.name] \in g.mentions
                                                          THEN [x EXCEPT !.at = g.merged] ELSE x)
  BY <1>0, <1>1, UndoTree
<1>3. /\ into' \in [Entities -> Entities \cup {None}] /\ exists' = exists /\ g.keep \in Entities
  BY <1>0, <1>1, UndoMoves
<1>4. /\ created' = created /\ canonical' = canonical /\ cut' = cut /\ resolvedChunks' = resolvedChunks
      /\ vectors' = vectors /\ aliases' = [aliases EXCEPT ![g.keep] = @ \ g.names]
      /\ merges' = [merges EXCEPT ![i] = [merges[i] EXCEPT !.open = FALSE]]
  BY <1>1 DEF Undo
<1>5. PICK n \in Nat : n = Len(merges)
  BY <1>0 DEF GraphTypes
<1>6. /\ DOMAIN merges = 1 .. n /\ DOMAIN merges' = 1 .. n
      /\ \A j \in 1 .. n : merges[j] \in MergeRows /\ merges'[j] \in MergeRows
      /\ \A j \in 1 .. n : j # i => merges'[j] = merges[j]
      /\ Alike(g, merges'[i]) /\ ~merges'[i].open
      /\ merges' \in Seq(MergeRows)
  <2>1. merges \in Seq(MergeRows) /\ DOMAIN merges = 1 .. n
    BY <1>0, <1>5 DEF GraphTypes
  <2>2. PICK x : x = [g EXCEPT !.open = FALSE]
    OBVIOUS
  <2>3. x \in MergeRows /\ Alike(g, x) /\ ~x.open
    BY <2>2, OpenFacts DEF Alike
  <2>4. merges' = [merges EXCEPT ![i] = x]
    BY <1>1, <1>4, <2>2
  <2> QED BY <2>1, <2>3, <2>4
<1>7. GraphTypes'
  <2>1. aliases' \in [Entities -> SUBSET (Names \cup {None})]
    BY <1>0, <1>3, <1>4 DEF GraphTypes
  <2>2. mentions' \subseteq Mentions
    BY <1>2
  <2> QED BY <1>0, <1>2, <1>3, <1>4, <1>6, <2>1, <2>2 DEF GraphTypes
<1>8. CitesInv'
  <2>1. ASSUME NEW m \in mentions', NEW x \in mentions', Key(m) = Key(x) PROVE m = x
    <3> DEFINE Moved(y) == IF y.at = g.keep /\ [cite |-> y.cite, name |-> y.name] \in g.mentions
                           THEN [y EXCEPT !.at = g.merged] ELSE y
    <3>1. PICK y \in mentions : Key(m) = Key(y) /\ m = Moved(y)
      BY <1>2
    <3>2. PICK z \in mentions : Key(x) = Key(z) /\ x = Moved(z)
      BY <1>2
    <3>3. y = z
      BY <1>0, <2>1, <3>1, <3>2 DEF CitesInv
    <3> HIDE DEF Moved
    <3> QED BY <3>1, <3>2, <3>3
  <2>2. \A j \in DOMAIN merges' : \A k \in merges'[j].mentions : \E l \in DOMAIN merges : k \in merges[l].mentions
    BY <1>1, <1>6 DEF Alike
  <2> QED BY <1>0, <1>2, <1>4, <2>1, <2>2, CitesMoved
<1>9. MergeInv'
  <2>1. ASSUME NEW j \in 1 .. n, merges'[j].open
        PROVE  j # i /\ merges'[j] = merges[j] /\ merges[j].open
    BY <1>6, <2>1
  <2>2. g.open
    BY <1>1 DEF Undo
  <2>3. ASSUME NEW j \in 1 .. n, merges'[j].open PROVE Holds(merges[j])'
    <3>1. PICK h \in MergeRows : h = merges[j]
      BY <1>6
    <3>2. Holds(h) /\ Nested(g, h) /\ Nested(h, g)
      BY <1>0, <1>1, <1>6, <2>1, <2>2, <2>3, <3>1 DEF MergeInv
    <3>3. Holds(h)'
      BY <1>0, <1>1, <1>2, <3>2, UndoHolds
    <3>4. h = merges'[j]
      BY <2>1, <2>3, <3>1
    <3> QED BY <3>3, <3>4 DEF Holds
  <2>4. ASSUME NEW j \in 1 .. n, NEW k \in 1 .. n, j # k, merges'[j].open, merges'[k].open
        PROVE  Nested(merges[j], merges[k])'
    <3>1. PICK h \in MergeRows : h = merges[j]
      BY <1>6
    <3>2. PICK x \in MergeRows : x = merges[k]
      BY <1>6
    <3>3. Nested(h, x) /\ h = merges'[j] /\ x = merges'[k]
      BY <1>0, <1>6, <2>1, <2>4, <3>1, <3>2 DEF MergeInv
    <3>4. Nested(h, x)'
      BY <1>3, <3>3 DEF Nested, Below
    <3> QED BY <3>3, <3>4 DEF Nested
  <2>5. ASSUME NEW j \in 1 .. n
        PROVE  LET h == merges'[j] IN /\ {h.keep, h.merged} \cup h.children \subseteq 1 .. created
                                      /\ h.keep # h.merged /\ h.merged \notin h.children
                                      /\ \A r \in h.dropped : {r.ends[1], r.ends[2]} = {h.keep, h.merged}
    <3>1. PICK h : h = merges[j]
      OBVIOUS
    <3>2. PICK x : x = merges'[j]
      OBVIOUS
    <3>3. Alike(h, x)
      BY <1>1, <1>6, <3>1, <3>2 DEF Alike
    <3>4. /\ {h.keep, h.merged} \cup h.children \subseteq 1 .. created
          /\ h.keep # h.merged /\ h.merged \notin h.children
          /\ \A r \in h.dropped : {r.ends[1], r.ends[2]} = {h.keep, h.merged}
      BY <1>0, <1>6, <3>1 DEF MergeInv
    <3> QED BY <3>2, <3>3, <3>4 DEF Alike
  <2>6. DOMAIN merges' = 1 .. n /\ created' = created
    BY <1>4, <1>6
  <2> QED BY <2>3, <2>4, <2>5, <2>6 DEF MergeInv, Holds, Nested
<1> QED BY <1>2, <1>7, <1>8, <1>9 DEF GraphInv

------------------------------------------------------------------------------
(* The graph's theorems *)

LEMMA GraphStep ==
  ASSUME GraphInv, [GraphNext]_graphVars
  PROVE  GraphInv'
<1>1. ASSUME NEW c \in Chunks, Look(c) \/ ResolveFails(c) PROVE GraphInv'
  BY <1>1, LookKeeps
<1>2. ASSUME NEW c \in Chunks, Recut(c) PROVE GraphInv'
  BY <1>2, RecutKeeps
<1>3. ASSUME NEW c \in Chunks, DeleteMeeting(c) PROVE GraphInv'
  BY <1>3, DeleteMeetingKeeps
<1>4. ASSUME NEW c \in Chunks, NEW proposed \in {{}} \cup {{e} : e \in Live}, ResolveChunk(c, proposed) PROVE GraphInv'
  <2>1. proposed \in SUBSET Live
    OBVIOUS
  <2> QED BY <1>4, <2>1, ResolveKeeps
<1>5. CASE SweepUnmentioned
  BY <1>5, SweepKeeps
<1>6. ASSUME NEW keep \in Live, NEW merged \in Live, Merge(keep, merged) PROVE GraphInv'
  BY <1>6, MergeKeeps
<1>7. ASSUME NEW i \in 1 .. Len(merges), Undo(i) PROVE GraphInv'
  <2>1. i \in DOMAIN merges
    BY DEF GraphInv, GraphTypes
  <2> QED BY <1>7, <2>1, UndoKeeps
<1>8. ASSUME NEW e \in Live, NEW n \in Names, Rename(e, n) PROVE GraphInv'
  BY <1>8, RenameKeeps
<1>9. ASSUME NEW e \in Live, RemoveEntity(e) PROVE GraphInv'
  BY <1>9, RemoveKeeps
<1>10. ASSUME NEW s \in suggestions, RejectSuggestion(s) PROVE GraphInv'
  BY <1>10, RejectKeeps
<1>11. CASE UNCHANGED graphVars
  <2>1. /\ UNCHANGED <<created, exists, canonical, aliases, into, mentions, relations, suggestions, merges, cut,
                       resolvedChunks, vectors>>
    BY <1>11 DEF graphVars
  <2>2. GraphTypes' /\ CitesInv'
    BY <2>1 DEF GraphInv, GraphTypes, CitesInv, Key, Cite
  <2> QED BY <2>1, <2>2, TreeKept DEF GraphInv
<1> QED BY <1>1, <1>2, <1>3, <1>4, <1>5, <1>6, <1>7, <1>8, <1>9, <1>10, <1>11 DEF GraphNext

\* However merges, undos, renames, deletions, re-cut chunks and new mentions follow one
\* another, nothing is merged twice over, and no mention, relation or suggestion is about
\* an entity that is merged or gone (entity-merge.service.ts, entity-edit.service.ts).
THEOREM GraphIsFlatCorrect == GraphSpec => []GraphIsFlat
<1>1. GraphInit => GraphInv
  BY GraphStart
<1>2. GraphInv /\ [GraphNext]_graphVars => GraphInv'
  BY GraphStep
<1>3. GraphInv => GraphIsFlat
  <2> SUFFICES ASSUME GraphInv PROVE GraphIsFlat
    OBVIOUS
  <2>1. \A m \in mentions : m.at \in Live
    BY RepLive DEF GraphInv, TreeInv, MentionsAtHome
  <2>2. \A e \in exists : into[e] # None => into[e] \in Live
    BY LiveNumbers DEF GraphInv, TreeInv
  <2> QED BY <2>1, <2>2 DEF GraphInv, TreeInv, GraphIsFlat
<1> QED BY <1>1, <1>2, <1>3, PTL DEF GraphSpec

\* A mention is shown where it was found, or under whom that entity stands merged into,
\* and an undo takes back exactly the mentions its merge moved, in whatever order merges
\* are undone (EntityMergeService.undo).
THEOREM MentionsAtHomeCorrect == GraphSpec => []MentionsAtHome
<1>1. GraphInit => GraphInv
  BY GraphStart
<1>2. GraphInv /\ [GraphNext]_graphVars => GraphInv'
  BY GraphStep
<1>3. GraphInv => MentionsAtHome
  BY DEF GraphInv, TreeInv
<1> QED BY <1>1, <1>2, <1>3, PTL DEF GraphSpec

------------------------------------------------------------------------------
(* Undo gives back the relations.  A relation is stated once, by a chunk as *)
(* it was cut (StatedInv), and is either shown between those who stand for  *)
(* its two sides (ShownInv) or was dropped by the open merge that brought   *)
(* the two together (DropInv).  Which relations a merge moved is written in *)
(* its row (MarkInv), and what a merge dropped tells apart the merges       *)
(* before it and after it (LaterInv).  Premise of all but the first two: no *)
(* merge was undone before a later one into the same entity.                *)

Same(r, w) == r.cite = w.cite /\ r.pair = w.pair
Mark(r) == [cite |-> r.cite, pair |-> r.pair]
UpToDate(r) == r.cite[2] = cut[r.cite[1]]
BothExist(r) == r.homes[1] \in exists /\ r.homes[2] \in exists
Stated(r) == \E w \in written : Same(r, w) /\ r.homes = w.homes

\* The i-th merge is open and took e, itself or below it, into k.
Took(i, k, e) == merges[i].open /\ merges[i].keep = k /\ e \in Below(merges[i])

\* Whoever is merged was taken by an open merge into the entity it stands under; what was
\* below an open merge's entity by an earlier one.
StackInv ==
  /\ \A e \in exists : into[e] # None => \E j \in DOMAIN merges : Took(j, into[e], e)
  /\ \A i \in DOMAIN merges : merges[i].open => \A e \in merges[i].children \cap exists :
       \E j \in DOMAIN merges : j < i /\ Took(j, merges[i].merged, e)

StatedInv ==
  /\ written \subseteq Relations
  /\ \A w \in written : /\ w.homes[1] <= created /\ w.homes[2] <= created
                        /\ w.cite[2] # 0 /\ (cut[w.cite[1]] = 0 \/ w.cite[2] <= cut[w.cite[1]])
                        /\ UpToDate(w) => w.cite[1] \in resolvedChunks
  /\ \A w, x \in written : Same(w, x) => w = x

ShownInv ==
  /\ \A r \in relations : /\ Stated(r) /\ UpToDate(r) /\ BothExist(r)
                          /\ r.ends[1] = Rep(r.homes[1]) /\ r.ends[2] = Rep(r.homes[2])
  /\ \A w \in written : UpToDate(w) /\ BothExist(w) /\ Rep(w.homes[1]) # Rep(w.homes[2])
                          => \E r \in relations : Same(r, w)

\* The row of a merge tells which relations have an end in what it took.
Marked(g, r) ==
  /\ Mark(r) \in g.sources <=> r.homes[1] \in Below(g)
  /\ Mark(r) \in g.targets <=> r.homes[2] \in Below(g)

MarkInv ==
  \A i \in DOMAIN merges : merges[i].open =>
    /\ \A r \in relations : Marked(merges[i], r)
    /\ \A k \in merges[i].sources \cup merges[i].targets : \E w \in written : k = Mark(w)

\* Where the i-th merge put its entities: `keep`, and those taken into it before.
Beside(i, e) == e = merges[i].keep \/ \E j \in DOMAIN merges : j < i /\ Took(j, merges[i].keep, e)
Joined(i, r) ==
  \/ r.homes[1] \in Below(merges[i]) /\ Beside(i, r.homes[2])
  \/ r.homes[2] \in Below(merges[i]) /\ Beside(i, r.homes[1])
Side(g, e) == IF e \in Below(g) THEN g.merged ELSE g.keep

DropInv ==
  \A i \in DOMAIN merges : merges[i].open =>
    /\ \A w \in written : UpToDate(w) /\ BothExist(w) /\ Joined(i, w)
                            => \E r \in merges[i].dropped : Same(r, w)
    /\ \A r \in merges[i].dropped :
         /\ Stated(r) /\ BothExist(r) /\ Joined(i, r)
         /\ r.ends[1] = Side(merges[i], r.homes[1]) /\ r.ends[2] = Side(merges[i], r.homes[2])

\* Of what a merge dropped, an earlier one had written down its part, and a later one none;
\* if the later one took a side of it, it took the whole.
LaterInv ==
  \A i, j \in DOMAIN merges : i < j /\ merges[i].open /\ merges[j].open =>
    /\ \A r \in merges[j].dropped : Marked(merges[i], r)
    /\ \A r \in merges[i].dropped :
         /\ Mark(r) \notin merges[j].sources /\ Mark(r) \notin merges[j].targets
         /\ r.homes[1] \in Below(merges[j]) \/ r.homes[2] \in Below(merges[j])
              => merges[i].keep \in Below(merges[j])

\* The name of a merged entity is a name of the one it stands under; an undo takes no name from
\* those who stay, and none is lost to those who go.
NameInv ==
  /\ \A e \in exists : canonical[e] = canonical[Rep(e)] \/ canonical[e] \in aliases[Rep(e)]
  /\ \A i \in DOMAIN merges : merges[i].open =>
       /\ \A e \in exists : e # merges[i].keep /\ Beside(i, e) => canonical[e] \notin merges[i].names
       /\ \A e \in exists : e \in Below(merges[i])
            => canonical[e] = canonical[merges[i].merged] \/ canonical[e] \in aliases[merges[i].merged]

RelationsInv == ShownInv /\ MarkInv /\ DropInv /\ LaterInv
UndoInv == StackInv /\ StatedInv /\ (~tangled => RelationsInv /\ NameInv)

------------------------------------------------------------------------------
(* Trees and rows *)

LEMMA UndoStart == GraphInit => UndoInv
<1> SUFFICES ASSUME GraphInit PROVE UndoInv
  OBVIOUS
<1>1. DOMAIN merges = {} /\ written = {} /\ relations = {} /\ exists = {}
  BY DEF GraphInit
<1> QED BY <1>1 DEF UndoInv, StackInv, StatedInv, RelationsInv, NameInv, ShownInv, MarkInv, DropInv, LaterInv

\* What an open merge took and still exists is under whom its `keep` stands for.
LEMMA TookStands ==
  ASSUME GraphTypes, TreeInv, MergeInv, NEW i \in DOMAIN merges, merges[i].open,
         NEW e \in exists, e \in Below(merges[i])
  PROVE  /\ into[e] # None /\ Rep(e) = into[e]
         /\ into[e] = Rep(merges[i].keep) /\ into[e] = into[merges[i].merged]
         /\ merges[i].keep \in exists /\ merges[i].merged \in exists
<1>1. PICK g : g = merges[i]
  OBVIOUS
<1>2. Holds(g)
  BY <1>1 DEF MergeInv
<1>3. e = g.merged \/ e \in g.children
  BY <1>1 DEF Below
<1> QED BY <1>1, <1>2, <1>3 DEF Holds, Rep

\* Nobody was taken by two merges into the same live entity.
LEMMA TookOnce ==
  ASSUME GraphTypes, TreeInv, MergeInv, NEW i \in DOMAIN merges, NEW j \in DOMAIN merges, NEW k \in Live,
         NEW e \in exists, Took(i, k, e), Took(j, k, e)
  PROVE  i = j
<1>1. SUFFICES ASSUME i # j PROVE FALSE
  OBVIOUS
<1>2. PICK g \in MergeRows : g = merges[i]
  BY DEF GraphTypes
<1>3. PICK h \in MergeRows : h = merges[j]
  BY DEF GraphTypes
<1>4. Nested(g, h) /\ Nested(h, g)
  BY <1>1, <1>2, <1>3 DEF MergeInv, Took
<1>5. g.keep = k /\ h.keep = k /\ e \in Below(g) /\ e \in Below(h)
  BY <1>2, <1>3 DEF Took
<1>6. g.merged # h.merged
  BY <1>4 DEF Nested
<1>7. g.merged \in h.children \/ h.merged \in g.children
  BY <1>4, <1>5, <1>6 DEF Nested, Below
<1>8. k \in Below(g) \/ k \in Below(h)
  BY <1>4, <1>5, <1>7 DEF Nested
<1>9. k \in exists /\ into[k] = None
  BY DEF Live
<1> QED BY <1>2, <1>3, <1>8, <1>9, TookStands DEF Took

\* Two rows that differ in nothing but being open.
Twin(g, h) == /\ Alike(g, h) /\ h.names = g.names /\ h.sources = g.sources /\ h.targets = g.targets

LEMMA OpenTwin ==
  ASSUME NEW g \in MergeRows, NEW b \in BOOLEAN
  PROVE  Twin(g, [g EXCEPT !.open = b]) /\ [g EXCEPT !.open = b].open = b
BY OpenFacts DEF MergeRows, Twin, Alike

------------------------------------------------------------------------------
(* Steps that take relations, entities and merges away, or nothing *)

\* What such a step leaves: whole trees D are gone, with their merges and relations, and the rest
\* of the tree and of the rows is as it was.
Pruned(D) ==
  /\ Closed(D) /\ exists' = exists \ D /\ \A e \in exists \ D : into'[e] = into[e]
  /\ written' = written /\ tangled' = tangled
  /\ DOMAIN merges' = DOMAIN merges
  /\ \A i \in DOMAIN merges :
       /\ Twin(merges[i], merges'[i])
       /\ merges'[i].open <=> merges[i].open /\ merges[i].keep \notin D /\ merges[i].merged \notin D
  /\ ~tangled => \A r : r \in relations' <=>
                     r \in relations /\ UpToDate(r)' /\ r.ends[1] \notin D /\ r.ends[2] \notin D
  /\ \A w \in written : UpToDate(w)' => UpToDate(w)

LEMMA PrunedTrees ==
  ASSUME GraphTypes, TreeInv, NEW D, Pruned(D)
  PROVE  /\ \A e \in exists \ D : e \in exists' /\ Rep(e)' = Rep(e) /\ Rep(e) \notin D
         /\ \A e \in exists : e \in D <=> Rep(e) \in D
<1>1. \A e \in exists : into[e] # None => (e \in D <=> into[e] \in D)
  BY DEF Pruned, Closed
<1>2. \A e \in exists : e \in D <=> Rep(e) \in D
  BY <1>1 DEF Rep
<1>3. \A e \in exists \ D : e \in exists' /\ into'[e] = into[e]
  BY DEF Pruned
<1> QED BY <1>2, <1>3 DEF Rep

LEMMA PrunedTook ==
  ASSUME GraphTypes, TreeInv, MergeInv, NEW D, Pruned(D), NEW i \in DOMAIN merges, NEW k, NEW e
  PROVE  /\ i \in DOMAIN merges' /\ Below(merges'[i]) = Below(merges[i])
         /\ Took(i, k, e)' => Took(i, k, e)
         /\ Took(i, k, e) /\ e \in exists \ D => Took(i, k, e)'
         /\ Took(i, k, e) /\ k \in exists \ D => Took(i, k, e)'
<1>1. /\ Twin(merges[i], merges'[i]) /\ i \in DOMAIN merges'
      /\ merges'[i].open <=> merges[i].open /\ merges[i].keep \notin D /\ merges[i].merged \notin D
  BY DEF Pruned
<1>2. Below(merges'[i]) = Below(merges[i]) /\ merges'[i].keep = merges[i].keep
  BY <1>1 DEF Twin, Alike, Below
<1>3. Took(i, k, e)' <=> merges'[i].open /\ merges'[i].keep = k /\ e \in Below(merges'[i])
  BY DEF Took, Below
<1>4. ASSUME Took(i, k, e), e \in exists \ D \/ k \in exists \ D PROVE merges'[i].open
  <2>1. merges[i].open /\ merges[i].keep = k /\ e \in Below(merges[i])
    BY <1>4 DEF Took
  <2>2. PICK g \in MergeRows : g = merges[i]
    BY DEF GraphTypes
  <2>3. /\ g.keep \in exists /\ g.merged \in exists /\ into[g.merged] # None /\ into[g.merged] = Rep(g.keep)
        /\ Rep(g.merged) = Rep(g.keep)
    BY <2>1, <2>2 DEF MergeInv, Holds, Rep
  <2>4. e \in exists => Rep(e) = Rep(g.keep)
    BY <2>1, <2>2, TookStands
  <2>5. Rep(g.keep) \notin D
    BY <1>4, <2>1, <2>2, <2>4, PrunedTrees
  <2> QED BY <1>1, <2>1, <2>2, <2>3, <2>5, PrunedTrees
<1> QED BY <1>1, <1>2, <1>3, <1>4 DEF Took

LEMMA PrunedStack ==
  ASSUME GraphTypes, TreeInv, MergeInv, StackInv, NEW D, Pruned(D)
  PROVE  StackInv'
<1>1. ASSUME NEW e \in exists', into'[e] # None PROVE \E j \in DOMAIN merges' : Took(j, into[e], e)'
  <2>1. e \in exists \ D /\ into'[e] = into[e]
    BY <1>1 DEF Pruned
  <2>2. PICK j \in DOMAIN merges : Took(j, into[e], e)
    BY <1>1, <2>1 DEF StackInv
  <2>3. PICK k : k = into[e]
    OBVIOUS
  <2>4. j \in DOMAIN merges' /\ Took(j, k, e)'
    BY <2>1, <2>2, <2>3, PrunedTook
  <2> QED BY <2>1, <2>3, <2>4 DEF Took
<1>2. ASSUME NEW i \in DOMAIN merges', merges'[i].open, NEW e \in merges'[i].children \cap exists'
      PROVE  \E j \in DOMAIN merges' : j < i /\ Took(j, merges[i].merged, e)'
  <2>1. i \in DOMAIN merges /\ merges[i].open /\ e \in exists \ D /\ e \in merges[i].children
        /\ merges'[i].merged = merges[i].merged
    BY <1>2 DEF Pruned, Twin, Alike
  <2>2. PICK k : k = merges[i].merged
    OBVIOUS
  <2>3. PICK j \in DOMAIN merges : j < i /\ Took(j, k, e)
    BY <2>1, <2>2 DEF StackInv
  <2>4. j \in DOMAIN merges' /\ Took(j, k, e)'
    BY <2>1, <2>3, PrunedTook
  <2> QED BY <2>1, <2>2, <2>3, <2>4 DEF Took
<1> QED BY <1>1, <1>2 DEF StackInv

\* A pair whose sides are under one entity goes with it or stays.
LEMMA PrunedBeside ==
  ASSUME GraphTypes, TreeInv, MergeInv, NEW D, Pruned(D), NEW i \in DOMAIN merges, merges'[i].open, NEW e
  PROVE  Beside(i, e)' <=> Beside(i, e)
<1>1. merges[i].open /\ merges'[i].keep = merges[i].keep /\ merges[i].keep \notin D
  BY DEF Pruned, Twin, Alike
<1>2. PICK k : k = merges[i].keep
  OBVIOUS
<1>3. k \in exists \ D
  BY <1>1, <1>2 DEF MergeInv, Holds
<1>4. \A j \in DOMAIN merges : Took(j, k, e)' <=> Took(j, k, e)
  BY <1>3, PrunedTook
<1>5. DOMAIN merges' = DOMAIN merges
  BY DEF Pruned
<1>6. Beside(i, e) <=> e = k \/ \E j \in DOMAIN merges : j < i /\ Took(j, k, e)
  BY <1>2 DEF Beside
<1>7. Beside(i, e)' <=> e = k \/ \E j \in DOMAIN merges' : j < i /\ Took(j, k, e)'
  BY <1>1, <1>2 DEF Beside, Took
<1> QED BY <1>4, <1>5, <1>6, <1>7

LEMMA BesideStands ==
  ASSUME GraphTypes, TreeInv, MergeInv, NEW i \in DOMAIN merges, merges[i].open, NEW e \in exists,
         e \in Below(merges[i]) \/ Beside(i, e)
  PROVE  Rep(e) = Rep(merges[i].keep)
<1>1. CASE e \in Below(merges[i])
  BY <1>1, TookStands
<1>2. CASE e = merges[i].keep
  BY <1>2
<1>3. ASSUME NEW j \in DOMAIN merges, Took(j, merges[i].keep, e) PROVE Rep(e) = Rep(merges[i].keep)
  <2>1. merges[j].open /\ merges[j].keep = merges[i].keep /\ e \in Below(merges[j])
    BY <1>3 DEF Took
  <2>2. Rep(e) = Rep(merges[j].keep)
    BY <2>1, TookStands
  <2> QED BY <2>1, <2>2
<1> QED BY <1>1, <1>2, <1>3 DEF Beside

LEMMA PrunedShown ==
  ASSUME GraphTypes, TreeInv, MergeInv, StatedInv, ShownInv, NEW D, Pruned(D), ~tangled
  PROVE  ShownInv'
<1>1. \A e \in exists \ D : e \in exists' /\ Rep(e)' = Rep(e) /\ Rep(e) \notin D
  BY PrunedTrees
<1>2. \A e \in exists : e \in D <=> Rep(e) \in D
  BY PrunedTrees
<1>3. /\ written' = written /\ exists' = exists \ D
      /\ \A r : r \in relations' <=> r \in relations /\ UpToDate(r)' /\ r.ends[1] \notin D /\ r.ends[2] \notin D
  BY DEF Pruned
<1>4. ASSUME NEW r \in relations'
      PROVE  /\ Stated(r)' /\ UpToDate(r)' /\ BothExist(r)'
             /\ r.ends[1] = Rep(r.homes[1])' /\ r.ends[2] = Rep(r.homes[2])'
  <2>1. /\ r \in relations /\ Stated(r) /\ BothExist(r) /\ UpToDate(r)'
        /\ r.ends[1] = Rep(r.homes[1]) /\ r.ends[2] = Rep(r.homes[2])
        /\ r.ends[1] \notin D /\ r.ends[2] \notin D
    BY <1>3 DEF ShownInv
  <2>2. r.homes[1] \in exists \ D /\ r.homes[2] \in exists \ D
    BY <1>2, <2>1 DEF BothExist
  <2>3. Stated(r)'
    BY <1>3, <2>1 DEF Stated, Same
  <2> QED BY <1>1, <2>1, <2>2, <2>3 DEF BothExist
<1>5. ASSUME NEW w \in written', UpToDate(w)', BothExist(w)', Rep(w.homes[1])' # Rep(w.homes[2])'
      PROVE  \E r \in relations' : Same(r, w)
  <2>1. w \in written /\ UpToDate(w) /\ w.homes[1] \in exists \ D /\ w.homes[2] \in exists \ D
    BY <1>3, <1>5 DEF Pruned, BothExist
  <2>2. PICK r \in relations : Same(r, w)
    BY <1>1, <1>5, <2>1 DEF ShownInv, BothExist
  <2>3. PICK x \in written : Same(r, x) /\ r.homes = x.homes
    BY DEF ShownInv, Stated
  <2>4. x = w
    BY <2>1, <2>2, <2>3 DEF StatedInv, Same
  <2>5. r.ends[1] = Rep(w.homes[1]) /\ r.ends[2] = Rep(w.homes[2])
    BY <2>3, <2>4 DEF ShownInv
  <2>6. UpToDate(r)'
    BY <1>5, <2>2 DEF Same, UpToDate
  <2> QED BY <1>1, <1>3, <2>1, <2>2, <2>5, <2>6
<1> QED BY <1>4, <1>5 DEF ShownInv, Same

LEMMA PrunedMarks ==
  ASSUME GraphTypes, TreeInv, MergeInv, MarkInv, NEW D, Pruned(D), ~tangled
  PROVE  MarkInv'
<1>1. ASSUME NEW i \in DOMAIN merges', merges'[i].open, NEW r \in relations' PROVE Marked(merges[i], r)'
  <2>1. i \in DOMAIN merges /\ merges[i].open /\ Twin(merges[i], merges'[i]) /\ r \in relations
    BY <1>1 DEF Pruned
  <2>2. Marked(merges[i], r)
    BY <2>1 DEF MarkInv
  <2> QED BY <2>1, <2>2 DEF Marked, Twin, Alike, Below, Mark
<1>2. ASSUME NEW i \in DOMAIN merges', merges'[i].open, NEW k \in merges'[i].sources \cup merges'[i].targets
      PROVE  \E w \in written' : k = Mark(w)
  BY <1>2 DEF Pruned, Twin, MarkInv
<1> QED BY <1>1, <1>2 DEF MarkInv, Mark

LEMMA PrunedDrops ==
  ASSUME GraphTypes, TreeInv, MergeInv, DropInv, NEW D, Pruned(D)
  PROVE  DropInv'
<1> SUFFICES ASSUME NEW i \in DOMAIN merges', merges'[i].open
             PROVE /\ \A w \in written' : UpToDate(w)' /\ BothExist(w)' /\ Joined(i, w)'
                                            => \E r \in merges'[i].dropped : Same(r, w)
                   /\ \A r \in merges'[i].dropped :
                        /\ Stated(r)' /\ BothExist(r)' /\ Joined(i, r)'
                        /\ r.ends[1] = Side(merges'[i], r.homes[1]) /\ r.ends[2] = Side(merges'[i], r.homes[2])
  BY DEF DropInv, Same, Side, Below
<1>1. i \in DOMAIN merges /\ merges[i].open /\ Twin(merges[i], merges'[i]) /\ merges[i].keep \notin D
  BY DEF Pruned
<1>2. /\ merges'[i].dropped = merges[i].dropped
      /\ \A e : e \in Below(merges'[i]) <=> e \in Below(merges[i])
      /\ \A e : Side(merges'[i], e) = Side(merges[i], e)
  BY <1>1 DEF Twin, Alike, Below, Side
<1>3. \A e : Beside(i, e)' <=> Beside(i, e)
  BY <1>1, PrunedBeside
<1>4. \A r : Joined(i, r)' <=> Joined(i, r)
  BY <1>2, <1>3 DEF Joined, Below
<1>5. written' = written /\ exists' = exists \ D /\ \A w \in written : UpToDate(w)' => UpToDate(w)
  BY DEF Pruned
<1>6. ASSUME NEW w \in written', UpToDate(w)', BothExist(w)', Joined(i, w)'
      PROVE  \E r \in merges'[i].dropped : Same(r, w)
  <2>1. w \in written /\ UpToDate(w) /\ BothExist(w) /\ Joined(i, w)
    BY <1>4, <1>5, <1>6 DEF BothExist
  <2> QED BY <1>1, <1>2, <2>1 DEF DropInv
<1>7. ASSUME NEW r \in merges'[i].dropped
      PROVE  /\ Stated(r)' /\ BothExist(r)' /\ Joined(i, r)'
             /\ r.ends[1] = Side(merges'[i], r.homes[1]) /\ r.ends[2] = Side(merges'[i], r.homes[2])
  <2>1. /\ Stated(r) /\ BothExist(r) /\ Joined(i, r)
        /\ r.ends[1] = Side(merges[i], r.homes[1]) /\ r.ends[2] = Side(merges[i], r.homes[2])
    BY <1>1, <1>2, <1>7 DEF DropInv
  <2>2. Rep(r.homes[1]) = Rep(merges[i].keep) /\ Rep(r.homes[2]) = Rep(merges[i].keep)
    BY <1>1, <2>1, BesideStands DEF Joined, BothExist
  <2>3. merges[i].keep \in exists
    BY <1>1 DEF MergeInv, Holds
  <2>4. \A e \in exists : e \in D <=> Rep(e) \in D
    BY PrunedTrees
  <2>5. BothExist(r)'
    BY <1>1, <1>5, <2>1, <2>2, <2>3, <2>4 DEF BothExist
  <2>6. Stated(r)'
    BY <1>5, <2>1 DEF Stated, Same
  <2> QED BY <1>2, <1>4, <2>1, <2>5, <2>6
<1> QED BY <1>6, <1>7

LEMMA PrunedLater ==
  ASSUME LaterInv, NEW D, Pruned(D)
  PROVE  LaterInv'
<1> SUFFICES ASSUME NEW i \in DOMAIN merges', NEW j \in DOMAIN merges', i < j, merges'[i].open, merges'[j].open
             PROVE /\ \A r \in merges'[j].dropped : Marked(merges'[i], r)
                   /\ \A r \in merges'[i].dropped :
                        /\ Mark(r) \notin merges'[j].sources /\ Mark(r) \notin merges'[j].targets
                        /\ r.homes[1] \in Below(merges'[j]) \/ r.homes[2] \in Below(merges'[j])
                             => merges'[i].keep \in Below(merges'[j])
  BY DEF LaterInv, Marked, Below, Mark
<1>1. /\ i \in DOMAIN merges /\ merges[i].open /\ Twin(merges[i], merges'[i])
      /\ j \in DOMAIN merges /\ merges[j].open /\ Twin(merges[j], merges'[j])
  BY DEF Pruned
<1>2. /\ \A r \in merges[j].dropped : Marked(merges[i], r)
      /\ \A r \in merges[i].dropped :
           /\ Mark(r) \notin merges[j].sources /\ Mark(r) \notin merges[j].targets
           /\ r.homes[1] \in Below(merges[j]) \/ r.homes[2] \in Below(merges[j])
                => merges[i].keep \in Below(merges[j])
  BY <1>1 DEF LaterInv
<1>3. /\ merges'[j].dropped = merges[j].dropped /\ merges'[j].sources = merges[j].sources
      /\ merges'[j].targets = merges[j].targets /\ Below(merges'[j]) = Below(merges[j])
      /\ merges'[i].dropped = merges[i].dropped /\ merges'[i].keep = merges[i].keep
      /\ \A r : Marked(merges'[i], r) <=> Marked(merges[i], r)
  BY <1>1 DEF Twin, Alike, Below, Marked
<1> QED BY <1>2, <1>3

\* Nothing is renamed: who is left has its names.
LEMMA PrunedNames ==
  ASSUME GraphTypes, TreeInv, MergeInv, NameInv, NEW D, Pruned(D), canonical' = canonical, aliases' = aliases
  PROVE  NameInv'
<1>1. \A e \in exists \ D : Rep(e)' = Rep(e)
  BY PrunedTrees
<1>2. exists' = exists \ D
  BY DEF Pruned
<1>3. ASSUME NEW i \in DOMAIN merges', merges'[i].open
      PROVE  /\ \A e \in exists' : e # merges'[i].keep /\ Beside(i, e)' => canonical[e] \notin merges'[i].names
             /\ \A e \in exists' : e \in Below(merges'[i])
                  => canonical[e] = canonical[merges'[i].merged] \/ canonical[e] \in aliases[merges'[i].merged]
  <2>1. i \in DOMAIN merges /\ merges[i].open /\ Twin(merges[i], merges'[i])
    BY <1>3 DEF Pruned
  <2>2. /\ merges'[i].keep = merges[i].keep /\ merges'[i].merged = merges[i].merged
        /\ merges'[i].names = merges[i].names /\ Below(merges'[i]) = Below(merges[i])
    BY <2>1 DEF Twin, Alike, Below
  <2>3. \A e : Beside(i, e)' <=> Beside(i, e)
    BY <1>3, <2>1, PrunedBeside
  <2> QED BY <1>2, <2>1, <2>2, <2>3 DEF NameInv
<1> QED BY <1>1, <1>2, <1>3 DEF NameInv, Below

LEMMA PrunedRelations ==
  ASSUME GraphInv, UndoInv, NEW D, Pruned(D)
  PROVE  StackInv' /\ (~tangled => RelationsInv')
<1>1. GraphTypes /\ TreeInv /\ MergeInv
  BY DEF GraphInv
<1>2. StackInv'
  BY <1>1, PrunedStack DEF UndoInv
<1>3. ASSUME ~tangled PROVE RelationsInv'
  <2>1. ShownInv /\ MarkInv /\ DropInv /\ LaterInv /\ StatedInv
    BY <1>3 DEF UndoInv, RelationsInv
  <2> QED BY <1>1, <1>3, <2>1, PrunedShown, PrunedMarks, PrunedDrops, PrunedLater DEF RelationsInv
<1> QED BY <1>2, <1>3

LEMMA PrunedKeeps ==
  ASSUME GraphInv, UndoInv, NEW D, Pruned(D), StatedInv', canonical' = canonical, aliases' = aliases
  PROVE  UndoInv'
<1>1. StackInv' /\ (~tangled => RelationsInv')
  BY PrunedRelations
<1>2. ~tangled => NameInv'
  BY PrunedNames DEF GraphInv, UndoInv
<1>3. tangled' = tangled
  BY DEF Pruned
<1> QED BY <1>1, <1>2, <1>3 DEF UndoInv

LEMMA NothingPruned ==
  ASSUME GraphInv, UndoInv, UNCHANGED <<exists, into, merges, relations, written, tangled, cut>>
  PROVE  Pruned({})
<1>1. Closed({})
  BY DEF Closed
<1>2. \A i \in DOMAIN merges : Twin(merges[i], merges[i])
  BY DEF Twin, Alike
<1>3. ~tangled => \A r \in relations : UpToDate(r)'
  BY DEF UndoInv, RelationsInv, ShownInv, UpToDate
<1> QED BY <1>1, <1>2, <1>3 DEF Pruned, UpToDate

LEMMA StatedKept ==
  ASSUME StatedInv, UNCHANGED <<written, created, cut, resolvedChunks>>
  PROVE  StatedInv'
BY DEF StatedInv, Same, UpToDate

LEMMA LookUndo ==
  ASSUME GraphInv, UndoInv, \/ \E c \in Chunks : Look(c) \/ ResolveFails(c)
                            \/ \E s \in suggestions : RejectSuggestion(s)
                            \/ UNCHANGED graphVars
  PROVE  UndoInv'
<1>1. UNCHANGED <<created, exists, canonical, aliases, into, merges, relations, written, tangled, cut, resolvedChunks>>
  BY DEF Look, ResolveFails, RejectSuggestion, graphVars
<1>2. StatedInv'
  BY <1>1, StatedKept DEF UndoInv
<1> QED BY <1>1, <1>2, NothingPruned, PrunedKeeps

LEMMA RecutUndo ==
  ASSUME GraphInv, UndoInv, NEW c \in Chunks, Recut(c)
  PROVE  UndoInv'
<1>1. /\ UNCHANGED <<created, exists, canonical, aliases, into, merges, written, tangled>>
      /\ cut' = [cut EXCEPT ![c] = @ + 1] /\ cut[c] # 0
      /\ resolvedChunks' = resolvedChunks \ {c}
      /\ relations' = {r \in relations : r.cite # Cite(c)}
  BY DEF Recut, WithoutChunk
<1>2. cut \in [Chunks -> Nat] /\ cut' \in [Chunks -> Nat] /\ cut'[c] = cut[c] + 1 /\ \A d \in Chunks \ {c} : cut'[d] = cut[d]
  BY <1>1 DEF GraphInv, GraphTypes
<1>3. /\ written \subseteq Relations
      /\ \A w \in written : /\ w.homes[1] <= created /\ w.homes[2] <= created
                            /\ w.cite[2] # 0 /\ (cut[w.cite[1]] = 0 \/ w.cite[2] <= cut[w.cite[1]])
                            /\ UpToDate(w) => w.cite[1] \in resolvedChunks
      /\ \A w, x \in written : Same(w, x) => w = x
  BY DEF UndoInv, StatedInv
<1>4. \A r \in Relations : r.cite[1] \in Chunks /\ r.cite[2] \in Nat /\ r.cite = <<r.cite[1], r.cite[2]>>
  BY DEF Relations
<1>5. ASSUME NEW w \in written
      PROVE  /\ UpToDate(w)' => UpToDate(w) /\ w.cite[1] # c
             /\ cut'[w.cite[1]] = 0 \/ w.cite[2] <= cut'[w.cite[1]]
  <2>1. w.cite[1] \in Chunks /\ w.cite[2] \in Nat
    BY <1>3, <1>4
  <2>2. CASE w.cite[1] = c
    BY <1>1, <1>2, <1>3, <2>1, <2>2 DEF UpToDate
  <2>3. CASE w.cite[1] # c
    BY <1>1, <1>2, <1>3, <2>1, <2>3 DEF UpToDate
  <2> QED BY <2>2, <2>3
<1>6. StatedInv'
  BY <1>1, <1>3, <1>5 DEF StatedInv, Same, UpToDate
<1>7. ASSUME ~tangled, NEW r \in relations PROVE r.cite # Cite(c) <=> UpToDate(r)'
  <2>1. UpToDate(r) /\ r \in Relations
    BY <1>7 DEF UndoInv, RelationsInv, ShownInv, GraphInv, GraphTypes
  <2>2. PICK d \in Chunks : d = r.cite[1]
    BY <1>4, <2>1
  <2>3. r.cite[2] = cut[d] /\ r.cite = <<d, cut[d]>>
    BY <1>4, <2>1, <2>2 DEF UpToDate
  <2>4. CASE d = c
    BY <1>2, <2>2, <2>3, <2>4 DEF UpToDate, Cite
  <2>5. CASE d # c
    BY <1>2, <2>2, <2>3, <2>5 DEF UpToDate, Cite
  <2> QED BY <2>4, <2>5
<1>8. Pruned({})
  <2>1. Closed({})
    BY DEF Closed
  <2>2. \A i \in DOMAIN merges : Twin(merges[i], merges[i])
    BY DEF Twin, Alike
  <2>3. ~tangled => \A r : r \in relations' <=> r \in relations /\ UpToDate(r)' /\ r.ends[1] \notin {} /\ r.ends[2] \notin {}
    BY <1>1, <1>7
  <2> QED BY <1>1, <1>5, <2>1, <2>2, <2>3 DEF Pruned
<1> QED BY <1>1, <1>6, <1>8, PrunedKeeps

LEMMA DeletePrunes ==
  ASSUME GraphInv, UndoInv, NEW D, Closed(D), NEW M, NEW R, DeleteEntities(D, M, R),
         UNCHANGED <<created, canonical, aliases, written, tangled>>,
         cut' \in [Chunks -> Nat],
         \A c \in Chunks : \/ cut'[c] = cut[c] /\ (c \in resolvedChunks => c \in resolvedChunks')
                           \/ cut'[c] = 0,
         ~tangled => R = {r \in relations : UpToDate(r)'}
  PROVE  UndoInv'
<1>1. GraphTypes /\ TreeInv /\ MergeInv
  BY DEF GraphInv
<1>2. /\ exists' = exists \ D
      /\ \A e \in Entities : into'[e] = IF e \in D THEN None ELSE into[e]
      /\ DOMAIN merges' = DOMAIN merges
  BY <1>1, DeleteMoves
<1>3. \A e \in exists \ D : into'[e] = into[e]
  BY <1>1, <1>2, LiveNumbers
<1>4. ASSUME NEW i \in DOMAIN merges
      PROVE  /\ Twin(merges[i], merges'[i])
             /\ merges'[i].open <=> merges[i].open /\ merges[i].keep \notin D /\ merges[i].merged \notin D
  <2>1. PICK g \in MergeRows : g = merges[i]
    BY <1>1 DEF GraphTypes
  <2>2. PICK b \in BOOLEAN : b = (g.open /\ {g.keep, g.merged} \cap D = {})
    BY <2>1, RowFacts
  <2>3. merges'[i] = [g EXCEPT !.open = b]
    BY <2>1, <2>2 DEF DeleteEntities
  <2>4. Twin(g, merges'[i]) /\ merges'[i].open = b
    BY <2>3, OpenTwin
  <2> QED BY <2>1, <2>2, <2>4
<1>5. relations' = {r \in R : r.ends[1] \notin D /\ r.ends[2] \notin D}
  BY DEF DeleteEntities
<1>6. /\ written \subseteq Relations
      /\ \A w \in written : /\ w.homes[1] <= created /\ w.homes[2] <= created
                            /\ w.cite[2] # 0 /\ (cut[w.cite[1]] = 0 \/ w.cite[2] <= cut[w.cite[1]])
                            /\ UpToDate(w) => w.cite[1] \in resolvedChunks
      /\ \A w, x \in written : Same(w, x) => w = x
  BY DEF UndoInv, StatedInv
<1>7. ASSUME NEW w \in written
      PROVE  /\ UpToDate(w)' => UpToDate(w) /\ w.cite[1] \in resolvedChunks'
             /\ cut'[w.cite[1]] = 0 \/ w.cite[2] <= cut'[w.cite[1]]
  <2>1. w.cite[1] \in Chunks
    BY <1>6 DEF Relations
  <2> QED BY <1>6, <2>1 DEF UpToDate
<1>8. StatedInv'
  BY <1>6, <1>7 DEF StatedInv, Same, UpToDate
<1>9. Pruned(D)
  BY <1>2, <1>3, <1>4, <1>5, <1>7 DEF Pruned
<1> QED BY <1>8, <1>9, PrunedKeeps

LEMMA SweepUndo == GraphInv /\ UndoInv /\ SweepUnmentioned => UndoInv'
<1> SUFFICES ASSUME GraphInv, UndoInv, SweepUnmentioned PROVE UndoInv'
  OBVIOUS
<1>1. PICK D : D = {e \in Live \ userEdited : e \notin Mentioned(mentions) /\ Children(e) = {}}
  OBVIOUS
<1>2. /\ DeleteEntities(D, mentions, relations)
      /\ UNCHANGED <<created, canonical, aliases, written, tangled, cut, resolvedChunks>>
  BY <1>1 DEF SweepUnmentioned
<1>3. Closed(D)
  BY <1>1, SweepCloses
<1>4. cut' \in [Chunks -> Nat]
  BY <1>2 DEF GraphInv, GraphTypes
<1>5. ~tangled => relations = {r \in relations : UpToDate(r)'}
  BY <1>2 DEF UndoInv, RelationsInv, ShownInv, UpToDate
<1> QED BY <1>2, <1>3, <1>4, <1>5, DeletePrunes

LEMMA RemoveUndo ==
  ASSUME GraphInv, UndoInv, NEW e \in Live, RemoveEntity(e)
  PROVE  UndoInv'
<1>1. PICK D : D = {e} \cup Children(e)
  OBVIOUS
<1>2. /\ DeleteEntities(D, mentions, relations)
      /\ UNCHANGED <<created, canonical, aliases, written, tangled, cut, resolvedChunks>>
  BY <1>1 DEF RemoveEntity
<1>3. Closed(D)
  BY <1>1, RemoveCloses
<1>4. cut' \in [Chunks -> Nat]
  BY <1>2 DEF GraphInv, GraphTypes
<1>5. ~tangled => relations = {r \in relations : UpToDate(r)'}
  BY <1>2 DEF UndoInv, RelationsInv, ShownInv, UpToDate
<1> QED BY <1>2, <1>3, <1>4, <1>5, DeletePrunes

LEMMA DeleteMeetingUndo ==
  ASSUME GraphInv, UndoInv, NEW c \in Chunks, DeleteMeeting(c)
  PROVE  UndoInv'
<1>1. PICK left : left = WithoutChunk(c, mentions)
  OBVIOUS
<1>2. PICK orphans : orphans = {m.at : m \in mentions \ left} \ Mentioned(left)
  OBVIOUS
<1>3. PICK D : D = orphans \cup UNION {Children(e) : e \in orphans}
  OBVIOUS
<1>4. PICK R : R = WithoutChunk(c, relations)
  OBVIOUS
<1>5. /\ DeleteEntities(D, left, R) /\ cut' = [cut EXCEPT ![c] = 0]
      /\ resolvedChunks' = resolvedChunks \ {c}
      /\ UNCHANGED <<created, canonical, aliases, written, tangled>>
  BY <1>1, <1>2, <1>3, <1>4 DEF DeleteMeeting
<1>6. Closed(D)
  <2>1. left \in SUBSET mentions
    BY <1>1 DEF WithoutChunk
  <2> QED BY <1>2, <1>3, <2>1, OrphansClose
<1>7. cut \in [Chunks -> Nat] /\ cut' \in [Chunks -> Nat] /\ cut'[c] = 0 /\ \A d \in Chunks \ {c} : cut'[d] = cut[d]
  BY <1>5 DEF GraphInv, GraphTypes
<1>8. \A d \in Chunks : (cut'[d] = cut[d] /\ (d \in resolvedChunks => d \in resolvedChunks')) \/ cut'[d] = 0
  BY <1>5, <1>7
<1>9. ASSUME ~tangled PROVE R = {r \in relations : UpToDate(r)'}
  <2>1. ASSUME NEW r \in relations PROVE r.cite # Cite(c) <=> UpToDate(r)'
    <3>1. UpToDate(r) /\ r \in Relations
      BY <1>9 DEF UndoInv, RelationsInv, ShownInv, GraphInv, GraphTypes
    <3>2. PICK d \in Chunks : d = r.cite[1] /\ r.cite = <<d, r.cite[2]>>
      BY <3>1 DEF Relations
    <3>3. r.cite[2] = cut[d] /\ r.cite = <<d, cut[d]>>
      BY <3>1, <3>2 DEF UpToDate
    <3>4. r.cite[2] # 0
      <4>1. PICK w \in written : Same(r, w)
        BY <1>9 DEF UndoInv, RelationsInv, ShownInv, Stated
      <4> QED BY <4>1 DEF UndoInv, StatedInv, Same
    <3>5. CASE d = c
      BY <1>7, <3>2, <3>3, <3>4, <3>5 DEF UpToDate, Cite
    <3>6. CASE d # c
      BY <1>7, <3>2, <3>3, <3>6 DEF UpToDate, Cite
    <3> QED BY <3>5, <3>6
  <2> QED BY <1>4, <2>1 DEF WithoutChunk
<1> QED BY <1>5, <1>6, <1>7, <1>8, <1>9, DeletePrunes

LEMMA RenameUndo ==
  ASSUME GraphInv, UndoInv, NEW e \in Live, NEW n \in Names, Rename(e, n)
  PROVE  UndoInv'
<1>1. UNCHANGED <<created, exists, into, merges, relations, written, tangled, cut, resolvedChunks>>
  BY DEF Rename
<1>2. GraphTypes /\ TreeInv /\ MergeInv
  BY DEF GraphInv
<1>3. StackInv' /\ (~tangled => RelationsInv')
  BY <1>1, NothingPruned, PrunedRelations
<1>4. StatedInv'
  BY <1>1, StatedKept DEF UndoInv
<1>5. e \in exists /\ into[e] = None /\ e \in Entities
  BY <1>2, LiveNumbers DEF Live
<1>6. /\ canonical' = [canonical EXCEPT ![e] = n]
      /\ aliases' = [aliases EXCEPT ![e] = IF canonical[e] \in aliases[e] THEN aliases[e] \ {n} ELSE aliases[e] \cup {canonical[e]}]
  BY DEF Rename
<1>7. /\ canonical'[e] = n /\ \A x \in Entities \ {e} : canonical'[x] = canonical[x] /\ aliases'[x] = aliases[x]
      /\ \A k : k = canonical[e] \/ k \in aliases[e] => k = n \/ k \in aliases'[e]
  BY <1>2, <1>5, <1>6 DEF GraphTypes
<1>8. ASSUME NameInv PROVE NameInv'
  <2>1. ASSUME NEW x \in exists' PROVE canonical'[x] = canonical'[Rep(x)'] \/ canonical'[x] \in aliases'[Rep(x)']
    <3>1. x \in exists /\ Rep(x)' = Rep(x) /\ Rep(x) \in Entities /\ x \in Entities
      BY <1>1, <1>2, RepLive DEF Rep
    <3>2. canonical[x] = canonical[Rep(x)] \/ canonical[x] \in aliases[Rep(x)]
      BY <1>8, <3>1 DEF NameInv
    <3>3. CASE x = e
      BY <1>5, <3>1, <3>3 DEF Rep
    <3>4. CASE x # e
      BY <1>7, <3>1, <3>2, <3>4
    <3> QED BY <3>3, <3>4
  <2>2. ASSUME NEW i \in DOMAIN merges', merges'[i].open
        PROVE  /\ \A x \in exists' : x # merges'[i].keep /\ Beside(i, x)' => canonical'[x] \notin merges'[i].names
               /\ \A x \in exists' : x \in Below(merges'[i])
                    => canonical'[x] = canonical'[merges'[i].merged] \/ canonical'[x] \in aliases'[merges'[i].merged]
    <3>1. i \in DOMAIN merges /\ merges'[i] = merges[i] /\ merges[i].open
      BY <1>1, <2>2
    <3>2. ASSUME NEW x \in exists, NEW j \in DOMAIN merges, merges[j].open, x \in Below(merges[j]) PROVE x # e
      BY <1>2, <1>5, <3>2, TookStands
    <3>3. ASSUME NEW x \in exists', x # merges'[i].keep, Beside(i, x)' PROVE canonical'[x] \notin merges'[i].names
      <4>1. x \in exists /\ Beside(i, x) /\ x # merges[i].keep
        BY <1>1, <3>1, <3>3 DEF Beside, Took, Below
      <4>2. x # e
        BY <3>2, <4>1 DEF Beside, Took
      <4>3. canonical[x] \notin merges[i].names
        BY <1>8, <3>1, <4>1 DEF NameInv
      <4> QED BY <1>2, <1>7, <3>1, <4>1, <4>2, <4>3, LiveNumbers
    <3>4. ASSUME NEW x \in exists', x \in Below(merges'[i])
          PROVE  canonical'[x] = canonical'[merges'[i].merged] \/ canonical'[x] \in aliases'[merges'[i].merged]
      <4>1. PICK g : g = merges[i]
        OBVIOUS
      <4>2. x \in exists /\ x \in Below(g)
        BY <1>1, <3>1, <3>4, <4>1
      <4>3. x # e
        BY <3>1, <3>2, <4>1, <4>2
      <4>4. g.merged \in exists /\ g.merged # e
        BY <1>2, <1>5, <3>1, <4>1 DEF MergeInv, Holds
      <4>5. canonical[x] = canonical[g.merged] \/ canonical[x] \in aliases[g.merged]
        BY <1>8, <3>1, <4>1, <4>2 DEF NameInv
      <4> QED BY <1>2, <1>7, <3>1, <4>1, <4>2, <4>3, <4>4, <4>5, LiveNumbers
    <3> QED BY <3>3, <3>4
  <2> QED BY <2>1, <2>2 DEF NameInv, Below
<1> QED BY <1>1, <1>3, <1>4, <1>8 DEF UndoInv

------------------------------------------------------------------------------
(* Resolving a chunk states new relations, between live entities *)

Added(c) ==
  {[cite |-> Cite(c), pair |-> q, homes |-> <<Place(c)[q[1]], Place(c)[q[2]]>>,
    ends |-> <<Place(c)[q[1]], Place(c)[q[2]]>>] : q \in {p \in Extraction[c].relations : Place(c)[p[1]] # Place(c)[p[2]]}}

LEMMA ResolveWrites ==
  ASSUME GraphInv, NEW c \in Chunks, NEW proposed \in SUBSET Live, ResolveChunk(c, proposed)
  PROVE  /\ relations' = relations \cup Added(c) /\ written' = written \cup Added(c) /\ tangled' = tangled
         /\ \A r \in Added(c) :
              /\ r \in Relations /\ r.cite = Cite(c) /\ r.homes = r.ends
              /\ r.homes[1] \in Live \cup Fresh(c) /\ r.homes[2] \in Live \cup Fresh(c)
         /\ \A r, x \in Added(c) : Same(r, x) => r = x
         /\ \A e \in Entities \ Fresh(c) : canonical'[e] = canonical[e]
<1>1. /\ relations' = relations \cup Added(c) /\ written' = written \cup Added(c) /\ tangled' = tangled
      /\ canonical' = [e \in Entities |-> IF \E n \in Unknown(c) : e = FreshId(c, n)
                                          THEN CHOOSE n \in Unknown(c) : e = FreshId(c, n) ELSE canonical[e]]
  BY DEF ResolveChunk, FreshId, Place, Added
<1>2. \A e \in Entities \ Fresh(c) : canonical'[e] = canonical[e]
  BY <1>1 DEF Fresh
<1>3. \A n \in Extraction[c].names : Place(c)[n] \in Live \cup Fresh(c)
  BY ResolveMoves
<1>4. Live \cup Fresh(c) \subseteq Entities
  <2>1. /\ created' \in Nat /\ created' <= MaxEntities /\ Fresh(c) \subseteq (created + 1) .. created'
        /\ created \in Nat
    BY ResolveMoves DEF GraphInv, GraphTypes
  <2>2. \A x \in (created + 1) .. created' : x \in Entities
    BY <2>1, GraphAssumption DEF Entities
  <2>3. Live \subseteq Entities
    BY LiveNumbers DEF Live, GraphInv
  <2> QED BY <2>1, <2>2, <2>3
<1>5. ASSUME NEW r \in Added(c)
      PROVE  /\ r \in Relations /\ r.cite = Cite(c) /\ r.homes = r.ends
             /\ r.homes[1] \in Live \cup Fresh(c) /\ r.homes[2] \in Live \cup Fresh(c)
             /\ r = [cite |-> Cite(c), pair |-> r.pair, homes |-> <<Place(c)[r.pair[1]], Place(c)[r.pair[2]]>>,
                     ends |-> <<Place(c)[r.pair[1]], Place(c)[r.pair[2]]>>]
  <2>1. PICK q \in Extraction[c].relations :
          r = [cite |-> Cite(c), pair |-> q, homes |-> <<Place(c)[q[1]], Place(c)[q[2]]>>,
               ends |-> <<Place(c)[q[1]], Place(c)[q[2]]>>]
    BY DEF Added
  <2>2. q \in Extraction[c].names \X Extraction[c].names /\ q \in Names \X Names
    BY GraphAssumption
  <2>3. PICK a \in Live \cup Fresh(c) : a = Place(c)[q[1]]
    BY <1>3, <2>2
  <2>4. PICK b \in Live \cup Fresh(c) : b = Place(c)[q[2]]
    BY <1>3, <2>2
  <2>5. r = [cite |-> Cite(c), pair |-> q, homes |-> <<a, b>>, ends |-> <<a, b>>] /\ a \in Entities /\ b \in Entities
    BY <1>4, <2>1, <2>3, <2>4
  <2>6. Cite(c) \in Chunks \X Nat
    BY DEF Cite, GraphInv, GraphTypes
  <2>7. r \in Relations
    BY <2>2, <2>5, <2>6 DEF Relations
  <2>8. r.pair = q /\ r.cite = Cite(c) /\ r.homes = <<a, b>> /\ r.ends = <<a, b>>
    BY <2>5
  <2> QED BY <2>1, <2>7, <2>8
<1>6. \A r, x \in Added(c) : Same(r, x) => r = x
  BY <1>5 DEF Same
<1> QED BY <1>1, <1>2, <1>5, <1>6

LEMMA ResolveUndo ==
  ASSUME GraphInv, UndoInv, NEW c \in Chunks, NEW proposed \in SUBSET Live, ResolveChunk(c, proposed)
  PROVE  UndoInv'
<1>1. GraphTypes /\ TreeInv /\ MergeInv /\ CitesInv /\ StackInv /\ StatedInv
  BY DEF GraphInv, UndoInv
<1>2. /\ created' \in Nat /\ created <= created' /\ created' <= MaxEntities /\ Fresh(c) \subseteq (created + 1) .. created'
      /\ exists' = exists \cup Fresh(c)
      /\ resolvedChunks' = resolvedChunks \cup {c} /\ vectors.chunk = c /\ cut[c] # 0
      /\ aliases' = aliases /\ into' = into /\ merges' = merges /\ cut' = cut
  BY ResolveMoves
<1>3. /\ relations' = relations \cup Added(c) /\ written' = written \cup Added(c) /\ tangled' = tangled
      /\ \A r \in Added(c) :
           /\ r \in Relations /\ r.cite = Cite(c) /\ r.homes = r.ends
           /\ r.homes[1] \in Live \cup Fresh(c) /\ r.homes[2] \in Live \cup Fresh(c)
      /\ \A r, x \in Added(c) : Same(r, x) => r = x
      /\ \A e \in Entities \ Fresh(c) : canonical'[e] = canonical[e]
  BY ResolveWrites
<1>4. created \in Nat /\ exists \subseteq 1 .. created /\ exists \subseteq Entities
  BY <1>1, LiveNumbers DEF GraphTypes
<1>5. \A e \in Fresh(c) : e \in Nat /\ created < e /\ e <= created' /\ e \notin exists
  BY <1>2, <1>4
<1>6. c \notin resolvedChunks
  BY <1>1, <1>2 DEF CitesInv
<1>7. \A e \in Live \cup Fresh(c) : e \in exists' /\ into[e] = None /\ Rep(e)' = e /\ e \in Nat /\ e <= created'
  <2>1. ASSUME NEW e \in Fresh(c) PROVE into[e] = None
    <3>1. e \in Entities
      BY <1>2, <1>4, <1>5, GraphAssumption DEF Entities
    <3> QED BY <1>1, <1>5, <3>1 DEF TreeInv
  <2>2. ASSUME NEW e \in Live PROVE e \in exists /\ e \in Nat /\ e <= created' /\ into[e] = None
    BY <1>2, <1>4 DEF Live
  <2> QED BY <1>2, <1>5, <2>1, <2>2 DEF Rep
<1>8. \A e \in exists : e \in exists' /\ Rep(e)' = Rep(e)
  BY <1>2 DEF Rep
\* No row knows the new relations, and what merges took is neither live nor new.
<1>9. ASSUME NEW w \in written, NEW r \in Added(c) PROVE ~Same(r, w) /\ Mark(r) # Mark(w)
  <2>1. SUFFICES ~Same(r, w)
    BY DEF Same, Mark
  <2>2. SUFFICES ASSUME w.cite = Cite(c) PROVE FALSE
    BY <1>3 DEF Same
  <2>3. UpToDate(w) /\ w.cite[1] = c
    BY <2>2 DEF UpToDate, Cite
  <2> QED BY <1>1, <1>6, <2>3 DEF StatedInv
<1>10. ASSUME NEW i \in DOMAIN merges, merges[i].open, NEW e \in Live \cup Fresh(c) PROVE e \notin Below(merges[i])
  <2>1. Below(merges[i]) \subseteq 1 .. created
    BY <1>1 DEF MergeInv, Below
  <2>2. CASE e \in Fresh(c)
    BY <1>4, <1>5, <2>1, <2>2
  <2>3. CASE e \in Live
    BY <1>1, <1>10, <2>3, TookStands DEF Live
  <2> QED BY <2>2, <2>3
<1>11. \A r : UpToDate(r)' <=> UpToDate(r)
  BY <1>2 DEF UpToDate
<1>12. \A w \in written : BothExist(w)' => BothExist(w)
  <2>1. \A w \in written : w.homes[1] <= created /\ w.homes[2] <= created
    BY <1>1 DEF StatedInv
  <2>2. \A e \in exists' : e <= created => e \in exists
    BY <1>2, <1>4, <1>5
  <2> QED BY <2>1, <2>2 DEF BothExist
<1>13. StackInv'
  <2>1. \A i \in DOMAIN merges : \A k, e : Took(i, k, e)' <=> Took(i, k, e)
    BY <1>2 DEF Took, Below
  <2>2. ASSUME NEW i \in DOMAIN merges, merges[i].open PROVE merges[i].children \cap exists' \subseteq exists
    <3>1. merges[i].children \subseteq 1 .. created
      BY <1>1 DEF MergeInv
    <3> QED BY <1>2, <1>4, <1>5, <3>1
  <2>3. ASSUME NEW e \in exists', into'[e] # None PROVE \E j \in DOMAIN merges' : Took(j, into[e], e)'
    <3>1. e \in exists
      BY <1>2, <1>7, <2>3
    <3>2. PICK j \in DOMAIN merges : Took(j, into[e], e)
      BY <1>1, <1>2, <2>3, <3>1 DEF StackInv
    <3> QED BY <1>2, <3>2 DEF Took, Below
  <2>4. ASSUME NEW i \in DOMAIN merges', merges'[i].open, NEW e \in merges'[i].children \cap exists'
        PROVE  \E j \in DOMAIN merges' : j < i /\ Took(j, merges[i].merged, e)'
    <3>1. e \in merges[i].children \cap exists
      BY <1>2, <2>2, <2>4
    <3>2. PICK j \in DOMAIN merges : j < i /\ Took(j, merges[i].merged, e)
      BY <1>1, <1>2, <2>4, <3>1 DEF StackInv
    <3> QED BY <1>2, <3>2 DEF Took, Below
  <2> QED BY <2>3, <2>4 DEF StackInv
<1>14. StatedInv'
  <2>1. written' \subseteq Relations
    BY <1>1, <1>3 DEF StatedInv
  <2>2. ASSUME NEW w \in written'
        PROVE  /\ w.homes[1] <= created' /\ w.homes[2] <= created'
               /\ w.cite[2] # 0 /\ (cut'[w.cite[1]] = 0 \/ w.cite[2] <= cut'[w.cite[1]])
               /\ UpToDate(w)' => w.cite[1] \in resolvedChunks'
    <3>1. CASE w \in written
      <4>1. w.homes[1] \in Nat /\ w.homes[2] \in Nat /\ w.homes[1] <= created /\ w.homes[2] <= created
        <5>1. w.homes \in Entities \X Entities
          BY <1>1, <3>1 DEF StatedInv, Relations
        <5> QED BY <1>1, <3>1, <5>1 DEF StatedInv, Entities
      <4>2. w.homes[1] <= created' /\ w.homes[2] <= created'
        BY <1>2, <1>4, <4>1
      <4> QED BY <1>1, <1>2, <1>11, <3>1, <4>2 DEF StatedInv
    <3>2. CASE w \in Added(c)
      <4>1. w.cite[1] = c /\ w.cite[2] = cut[c] /\ cut[c] \in Nat
        BY <1>1, <1>3, <3>2 DEF Cite, GraphTypes
      <4>2. w.homes[1] <= created' /\ w.homes[2] <= created'
        BY <1>3, <1>7, <3>2
      <4> QED BY <1>2, <4>1, <4>2
    <3> QED BY <1>3, <3>1, <3>2
  <2>3. ASSUME NEW w \in written', NEW x \in written', Same(w, x) PROVE w = x
    <3>1. CASE w \in written /\ x \in written
      BY <1>1, <2>3, <3>1 DEF StatedInv
    <3>2. CASE w \in Added(c) /\ x \in Added(c)
      BY <1>3, <2>3, <3>2
    <3> QED BY <1>3, <1>9, <2>3, <3>1, <3>2 DEF Same
  <2> QED BY <2>1, <2>2, <2>3 DEF StatedInv, Same
<1>15. ASSUME ~tangled PROVE ShownInv'
  <2>1. ShownInv
    BY <1>15 DEF UndoInv, RelationsInv
  <2>2. ASSUME NEW r \in relations'
        PROVE  /\ Stated(r)' /\ UpToDate(r)' /\ BothExist(r)'
               /\ r.ends[1] = Rep(r.homes[1])' /\ r.ends[2] = Rep(r.homes[2])'
    <3>1. CASE r \in relations
      BY <1>3, <1>8, <1>11, <2>1, <3>1 DEF ShownInv, Stated, Same, BothExist
    <3>2. CASE r \in Added(c)
      <4>1. UpToDate(r)
        BY <1>3, <3>2 DEF UpToDate, Cite
      <4>2. Stated(r)'
        BY <1>3, <3>2 DEF Stated, Same
      <4> QED BY <1>3, <1>7, <1>11, <3>2, <4>1, <4>2 DEF BothExist
    <3> QED BY <1>3, <3>1, <3>2
  <2>3. ASSUME NEW w \in written', UpToDate(w)', BothExist(w)', Rep(w.homes[1])' # Rep(w.homes[2])'
        PROVE  \E r \in relations' : Same(r, w)
    <3>1. CASE w \in Added(c)
      BY <1>3, <3>1 DEF Same
    <3>2. CASE w \in written
      BY <1>3, <1>8, <1>11, <1>12, <2>1, <2>3, <3>2 DEF ShownInv, BothExist
    <3> QED BY <1>3, <3>1, <3>2
  <2> QED BY <2>2, <2>3 DEF ShownInv, Same
<1>16. ASSUME ~tangled PROVE MarkInv'
  <2>1. ASSUME NEW i \in DOMAIN merges, merges[i].open
        PROVE  /\ \A r \in relations : Marked(merges[i], r)
               /\ \A k \in merges[i].sources \cup merges[i].targets : \E w \in written : k = Mark(w)
    BY <1>16, <2>1 DEF UndoInv, RelationsInv, MarkInv
  <2>2. ASSUME NEW i \in DOMAIN merges, merges[i].open, NEW r \in Added(c) PROVE Marked(merges[i], r)
    <3>1. Mark(r) \notin merges[i].sources \cup merges[i].targets
      BY <1>9, <2>1, <2>2
    <3> QED BY <1>3, <1>10, <2>2, <3>1 DEF Marked
  <2> QED BY <1>2, <1>3, <2>1, <2>2 DEF MarkInv, Marked, Mark, Below
<1>17. ASSUME ~tangled PROVE DropInv'
  <2> SUFFICES ASSUME NEW i \in DOMAIN merges, merges[i].open
               PROVE /\ \A w \in written' : UpToDate(w) /\ BothExist(w)' /\ Joined(i, w)
                                              => \E r \in merges[i].dropped : Same(r, w)
                     /\ \A r \in merges[i].dropped :
                          /\ Stated(r)' /\ BothExist(r)' /\ Joined(i, r)
                          /\ r.ends[1] = Side(merges[i], r.homes[1]) /\ r.ends[2] = Side(merges[i], r.homes[2])
    BY <1>2, <1>11 DEF DropInv, Same, Side, Below, Joined, Beside, Took
  <2>1. DropInv
    BY <1>17 DEF UndoInv, RelationsInv
  <2>2. ASSUME NEW w \in written', UpToDate(w), BothExist(w)', Joined(i, w) PROVE \E r \in merges[i].dropped : Same(r, w)
    <3>1. w \notin Added(c)
      BY <1>3, <1>10, <2>2 DEF Joined
    <3> QED BY <1>3, <1>12, <2>1, <2>2, <3>1 DEF DropInv
  <2>3. \A r \in merges[i].dropped :
          /\ Stated(r) /\ BothExist(r) /\ Joined(i, r)
          /\ r.ends[1] = Side(merges[i], r.homes[1]) /\ r.ends[2] = Side(merges[i], r.homes[2])
    BY <2>1 DEF DropInv
  <2> QED BY <1>2, <1>3, <2>2, <2>3 DEF Stated, BothExist, Same
<1>18. ASSUME ~tangled PROVE LaterInv'
  BY <1>2, <1>18 DEF UndoInv, RelationsInv, LaterInv, Marked, Mark, Below
<1>19. ASSUME ~tangled PROVE NameInv'
  <2>1. NameInv
    BY <1>19 DEF UndoInv
  <2>2. \A e \in exists : canonical'[e] = canonical[e] /\ Rep(e) \in exists
    BY <1>1, <1>3, <1>4, <1>5, RepLive
  <2>3. ASSUME NEW e \in exists' PROVE canonical'[e] = canonical'[Rep(e)'] \/ canonical'[e] \in aliases'[Rep(e)']
    <3>1. CASE e \in exists
      BY <1>2, <1>8, <2>1, <2>2, <3>1 DEF NameInv
    <3>2. CASE e \in Fresh(c)
      BY <1>7, <3>2
    <3> QED BY <1>2, <3>1, <3>2
  <2>4. ASSUME NEW i \in DOMAIN merges, merges[i].open
        PROVE  /\ \A e \in exists' : e # merges[i].keep /\ Beside(i, e) => canonical'[e] \notin merges[i].names
               /\ \A e \in exists' : e \in Below(merges[i])
                    => canonical'[e] = canonical'[merges[i].merged] \/ canonical'[e] \in aliases[merges[i].merged]
    <3>1. ASSUME NEW e \in exists', e # merges[i].keep, Beside(i, e) PROVE canonical'[e] \notin merges[i].names
      <4>1. PICK j \in DOMAIN merges : merges[j].open /\ e \in Below(merges[j])
        BY <3>1 DEF Beside, Took
      <4>2. e \in exists
        BY <1>2, <1>10, <4>1
      <4> QED BY <2>1, <2>2, <2>4, <3>1, <4>2 DEF NameInv
    <3>2. ASSUME NEW e \in exists', e \in Below(merges[i])
          PROVE  canonical'[e] = canonical'[merges[i].merged] \/ canonical'[e] \in aliases[merges[i].merged]
      <4>1. e \in exists
        BY <1>2, <1>10, <2>4, <3>2
      <4>2. merges[i].merged \in exists
        BY <1>1, <2>4 DEF MergeInv, Holds
      <4> QED BY <2>1, <2>2, <2>4, <3>2, <4>1, <4>2 DEF NameInv
    <3> QED BY <3>1, <3>2
  <2> QED BY <1>2, <2>3, <2>4 DEF NameInv, Beside, Took, Below
<1> QED BY <1>3, <1>13, <1>14, <1>15, <1>16, <1>17, <1>18, <1>19 DEF UndoInv, RelationsInv

------------------------------------------------------------------------------
(* A merge *)

LEMMA StatedOnce ==
  ASSUME StatedInv, NEW r, NEW x, Stated(r), Stated(x), Same(r, x)
  PROVE  r.homes = x.homes
BY DEF StatedInv, Stated, Same

LEMMA MarkSame ==
  ASSUME NEW r, NEW x
  PROVE  Mark(r) = Mark(x) <=> Same(r, x)
BY DEF Mark, Same

\* What a merge drops: it would relate the merged entity to itself.
Between(r, keep, merged) == {r.ends[1], r.ends[2]} = {keep, merged}

LEMMA NewRowTakes ==
  ASSUME GraphTypes, NEW keep \in Entities, NEW merged \in Entities, NEW g, g = NewRow(keep, merged)
  PROVE  /\ \A k : k \in g.names <=> /\ k = canonical[merged] \/ k \in aliases[merged]
                                     /\ k # canonical[keep] /\ k \notin aliases[keep]
         /\ \A r : r \in g.dropped <=> r \in relations /\ Between(r, keep, merged)
         /\ \A k : k \in g.sources <=> \E r \in relations : /\ ~Between(r, keep, merged)
                                                            /\ r.ends[1] = merged /\ k = Mark(r)
         /\ \A k : k \in g.targets <=> \E r \in relations : /\ ~Between(r, keep, merged)
                                                            /\ r.ends[2] = merged /\ k = Mark(r)
BY DEF NewRow, Mark, Between

\* A relation that is not dropped stays, with its ends moved.
MovedTo(s, r, keep, merged) ==
  /\ Same(s, r) /\ s.homes = r.homes
  /\ s.ends[1] = (IF r.ends[1] = merged THEN keep ELSE r.ends[1])
  /\ s.ends[2] = (IF r.ends[2] = merged THEN keep ELSE r.ends[2])

LEMMA MergeRelations ==
  ASSUME GraphTypes, NEW keep \in Entities, NEW merged \in Entities, Merge(keep, merged)
  PROVE  /\ \A s \in relations' : \E r \in relations : ~Between(r, keep, merged) /\ MovedTo(s, r, keep, merged)
         /\ \A r \in relations : ~Between(r, keep, merged) => \E s \in relations' : MovedTo(s, r, keep, merged)
<1> DEFINE Move(r) == MoveEnd(MoveEnd(r, 1, merged, keep), 2, merged, keep)
<1>1. relations' = {Move(r) : r \in relations \ {x \in relations : {x.ends[1], x.ends[2]} = {keep, merged}}}
  BY DEF Merge
<1>2. ASSUME NEW r \in relations PROVE MovedTo(Move(r), r, keep, merged)
  <2>1. r \in Relations
    BY DEF GraphTypes
  <2>2. PICK x : x = MoveEnd(r, 1, merged, keep)
    OBVIOUS
  <2>3. /\ x \in Relations /\ x.cite = r.cite /\ x.pair = r.pair /\ x.homes = r.homes
        /\ x.ends[2] = r.ends[2] /\ x.ends[1] = IF r.ends[1] = merged THEN keep ELSE r.ends[1]
    BY <2>1, <2>2, MoveFirst
  <2>4. PICK s : s = MoveEnd(x, 2, merged, keep)
    OBVIOUS
  <2>5. /\ s.cite = x.cite /\ s.pair = x.pair /\ s.homes = x.homes
        /\ s.ends[1] = x.ends[1] /\ s.ends[2] = IF x.ends[2] = merged THEN keep ELSE x.ends[2]
    BY <2>3, <2>4, MoveSecond
  <2>6. s = Move(r)
    BY <2>2, <2>4
  <2> HIDE DEF Move
  <2> QED BY <2>3, <2>5, <2>6 DEF MovedTo, Same
<1> HIDE DEF Move
<1> QED BY <1>1, <1>2 DEF Between

\* What a merge leaves, for the lemmas below.
Merged(g, n, keep, merged) ==
  /\ keep \in Live /\ merged \in Live /\ keep # merged /\ exists' = exists
  /\ n \in Nat /\ DOMAIN merges = 1 .. n /\ DOMAIN merges' = 1 .. (n + 1)
  /\ \A i \in 1 .. n : merges'[i] = merges[i]
  /\ merges'[n + 1] = g /\ g = NewRow(keep, merged) /\ g.open
  /\ g.keep = keep /\ g.merged = merged /\ g.children = Children(merged)
  /\ \A e \in exists : Rep(e) = merged <=> e \in Below(g)
  /\ \A e \in exists : Rep(e)' = IF Rep(e) = merged THEN keep ELSE Rep(e)
  /\ \A e \in exists : into'[e] = IF e \in Below(g) THEN keep ELSE into[e]
  /\ Rep(keep) = keep /\ Rep(merged) = merged
  /\ \A s \in relations' : \E r \in relations : ~Between(r, keep, merged) /\ MovedTo(s, r, keep, merged)
  /\ \A r \in relations : ~Between(r, keep, merged) => \E s \in relations' : MovedTo(s, r, keep, merged)
  /\ written' = written /\ cut' = cut /\ canonical' = canonical
  /\ aliases' = [aliases EXCEPT ![keep] = @ \cup g.names]

LEMMA MergeLeaves ==
  ASSUME GraphTypes, CitesInv, TreeInv, NEW keep \in Live, NEW merged \in Live, Merge(keep, merged)
  PROVE  \E g \in MergeRows, n \in Nat : Merged(g, n, keep, merged)
<1>1. /\ keep # merged /\ keep \in Entities /\ merged \in Entities /\ exists' = exists
      /\ \A e \in Entities : into'[e] = IF e = merged \/ into[e] = merged THEN keep ELSE into[e]
      /\ \A e \in exists : Rep(e)' = IF Rep(e) = merged THEN keep ELSE Rep(e)
  BY MergeMoves
<1>2. PICK g : g = NewRow(keep, merged)
  OBVIOUS
<1>3. g \in MergeRows /\ g.keep = keep /\ g.merged = merged /\ g.open = TRUE /\ g.children = Children(merged)
  <2>1. IsNewRow(NewRow(keep, merged), keep, merged)
    BY <1>1, NewRowFacts
  <2> QED BY <1>2, <2>1 DEF IsNewRow
<1>4. PICK n \in Nat : /\ DOMAIN merges = 1 .. n /\ DOMAIN merges' = 1 .. (n + 1)
                       /\ \A i \in 1 .. n : merges'[i] = merges[i] /\ merges[i] \in MergeRows
                       /\ merges'[n + 1] = g
  BY <1>2, MergeRowsKept
<1>5. /\ keep \in exists /\ merged \in exists /\ into[keep] = None /\ into[merged] = None /\ merged # None
      /\ \A e \in exists : e \in Entities
  BY <1>1, LiveNumbers, NoneIsNoEntity DEF Live
<1>6. \A e \in exists : e \in Below(g) <=> e = merged \/ into[e] = merged
  BY <1>3 DEF Below, Children
<1>7. \A e \in exists : Rep(e) = merged <=> e \in Below(g)
  BY <1>5, <1>6 DEF Rep
<1>8. \A e \in exists : into'[e] = IF e \in Below(g) THEN keep ELSE into[e]
  BY <1>1, <1>5, <1>6
<1>9. /\ written' = written /\ cut' = cut /\ canonical' = canonical
      /\ aliases' = [aliases EXCEPT ![keep] = @ \cup g.names]
  BY <1>2 DEF Merge, NewRow
<1>10. Rep(keep) = keep /\ Rep(merged) = merged
  BY <1>5 DEF Rep
<1>11. Merged(g, n, keep, merged)
  BY <1>1, <1>2, <1>3, <1>4, <1>7, <1>8, <1>9, <1>10, MergeRelations DEF Merged
<1> QED BY <1>3, <1>11

\* The merges made before are as they were, and so is what they took.
LEMMA MergedRows ==
  ASSUME NEW g, NEW n, NEW keep, NEW merged, Merged(g, n, keep, merged), NEW i \in 1 .. n
  PROVE  /\ i \in DOMAIN merges /\ i \in DOMAIN merges' /\ merges'[i] = merges[i]
         /\ \A k, e : Took(i, k, e)' <=> Took(i, k, e)
         /\ \A e : Beside(i, e)' <=> Beside(i, e)
         /\ \A r : Joined(i, r)' <=> Joined(i, r)
<1>1. /\ n \in Nat /\ DOMAIN merges = 1 .. n /\ DOMAIN merges' = 1 .. (n + 1)
      /\ \A j \in 1 .. n : merges'[j] = merges[j]
  BY DEF Merged
<1>2. \A j \in 1 .. n : j \in 1 .. (n + 1)
  BY <1>1
<1>3. i \in DOMAIN merges /\ i \in DOMAIN merges' /\ merges'[i] = merges[i]
  BY <1>1, <1>2
<1>4. \A j \in 1 .. n : \A k, e : Took(j, k, e)' <=> Took(j, k, e)
  BY <1>1 DEF Took, Below
<1>5. ASSUME NEW e PROVE Beside(i, e)' <=> Beside(i, e)
  <2>1. \A j \in 1 .. (n + 1) : j < i => j \in 1 .. n
    BY <1>1
  <2>2. PICK k : k = merges[i].keep
    OBVIOUS
  <2>3. merges'[i].keep = k
    BY <1>3, <2>2
  <2>4. Beside(i, e)' <=> e = k \/ \E j \in 1 .. (n + 1) : j < i /\ Took(j, k, e)'
    BY <1>1, <2>3 DEF Beside, Took
  <2>5. Beside(i, e) <=> e = k \/ \E j \in 1 .. n : j < i /\ Took(j, k, e)
    BY <1>1, <2>2 DEF Beside
  <2>6. \A j \in 1 .. n : Took(j, k, e)' <=> Took(j, k, e)
    BY <1>4
  <2> QED BY <1>2, <2>1, <2>4, <2>5, <2>6
<1>6. \A r : Joined(i, r)' <=> Joined(i, r)
  BY <1>3, <1>5 DEF Joined, Below
<1> QED BY <1>3, <1>4, <1>5, <1>6

\* The new merge is the last, and what is beside it is what stood under `keep`.
LEMMA MergedLast ==
  ASSUME GraphTypes, TreeInv, MergeInv, StackInv,
         NEW g, NEW n, NEW keep, NEW merged, Merged(g, n, keep, merged)
  PROVE  /\ n + 1 \in DOMAIN merges' /\ merges'[n + 1] = g
         /\ \A i \in DOMAIN merges' : i \in 1 .. n \/ i = n + 1
         /\ \A i \in 1 .. n : i < n + 1
         /\ \A e \in exists : Beside(n + 1, e)' <=> Rep(e) = keep
<1>1. /\ n \in Nat /\ DOMAIN merges = 1 .. n /\ DOMAIN merges' = 1 .. (n + 1) /\ merges'[n + 1] = g
      /\ g.keep = keep /\ keep \in Live /\ Rep(keep) = keep
  BY DEF Merged
<1>2. n + 1 \in DOMAIN merges' /\ (\A i \in DOMAIN merges' : i \in 1 .. n \/ i = n + 1) /\ \A i \in 1 .. n : i < n + 1
  BY <1>1
<1>3. ASSUME NEW e \in exists PROVE Beside(n + 1, e)' <=> Rep(e) = keep
  <2>1. \A j \in 1 .. n : Took(j, keep, e)' <=> Took(j, keep, e)
    BY MergedRows
  <2>2. Beside(n + 1, e)' <=> e = keep \/ \E j \in 1 .. n : Took(j, keep, e)
    <3>1. Beside(n + 1, e)' <=> e = keep \/ \E j \in DOMAIN merges' : j < n + 1 /\ Took(j, keep, e)'
      BY <1>1 DEF Beside, Took
    <3>2. \A j \in DOMAIN merges' : j < n + 1 <=> j \in 1 .. n
      BY <1>1
    <3>3. \A j \in 1 .. n : j \in DOMAIN merges'
      BY <1>1
    <3> QED BY <2>1, <3>1, <3>2, <3>3
  <2>3. ASSUME NEW j \in 1 .. n, Took(j, keep, e) PROVE Rep(e) = keep
    BY <1>1, <2>3, TookStands DEF Took
  <2>4. ASSUME Rep(e) = keep, e # keep PROVE \E j \in 1 .. n : Took(j, keep, e)
    <3>1. into[e] # None /\ into[e] = keep
      BY <2>4 DEF Rep
    <3> QED BY <1>1, <3>1 DEF StackInv
  <2> QED BY <1>1, <2>2, <2>3, <2>4
<1> QED BY <1>1, <1>2, <1>3

LEMMA MergedStack ==
  ASSUME GraphTypes, TreeInv, MergeInv, StackInv,
         NEW g, NEW n, NEW keep, NEW merged, Merged(g, n, keep, merged)
  PROVE  StackInv'
<1>1. /\ DOMAIN merges = 1 .. n /\ exists' = exists /\ merges'[n + 1] = g /\ g.open /\ g.keep = keep
      /\ g.merged = merged /\ g.children = Children(merged) /\ merged \in Live
      /\ \A e \in exists : into'[e] = IF e \in Below(g) THEN keep ELSE into[e]
  BY DEF Merged
<1>2. /\ n + 1 \in DOMAIN merges' /\ (\A i \in DOMAIN merges' : i \in 1 .. n \/ i = n + 1)
      /\ \A i \in 1 .. n : i < n + 1
  BY MergedLast
<1>3. \A i \in 1 .. n : /\ i \in DOMAIN merges' /\ merges'[i] = merges[i]
                        /\ \A k, e : Took(i, k, e)' <=> Took(i, k, e)
  BY MergedRows
<1>4. ASSUME NEW e \in exists', into'[e] # None PROVE \E j \in DOMAIN merges' : Took(j, into[e], e)'
  <2>1. CASE e \in Below(g)
    <3>1. Took(n + 1, into[e], e)'
      BY <1>1, <2>1 DEF Took, Below
    <3> QED BY <1>2, <3>1
  <2>2. CASE e \notin Below(g)
    <3>1. PICK k : k = into[e]
      OBVIOUS
    <3>2. into'[e] = k /\ k # None /\ e \in exists
      BY <1>1, <1>4, <2>2, <3>1
    <3>3. PICK j \in 1 .. n : Took(j, k, e)
      BY <1>1, <3>1, <3>2 DEF StackInv
    <3> QED BY <1>3, <3>2, <3>3 DEF Took
  <2> QED BY <2>1, <2>2
<1>5. ASSUME NEW i \in DOMAIN merges', merges'[i].open, NEW e \in merges'[i].children \cap exists'
      PROVE  \E j \in DOMAIN merges' : j < i /\ Took(j, merges[i].merged, e)'
  <2>1. PICK k : k = merges'[i].merged
    OBVIOUS
  <2>2. \E j \in 1 .. n : j < i /\ Took(j, k, e)
    <3>1. CASE i \in 1 .. n
      BY <1>1, <1>3, <1>5, <2>1, <3>1 DEF StackInv
    <3>2. CASE i = n + 1
      <4>1. into[e] = merged /\ k = merged /\ e \in exists
        BY <1>1, <1>5, <2>1, <3>2 DEF Children
      <4>2. merged # None
        BY <1>1, LiveNumbers, NoneIsNoEntity DEF Live
      <4> QED BY <1>1, <1>2, <3>2, <4>1, <4>2 DEF StackInv
    <3> QED BY <1>2, <3>1, <3>2
  <2> QED BY <1>3, <2>1, <2>2 DEF Took
<1> QED BY <1>4, <1>5 DEF StackInv

LEMMA MergedShown ==
  ASSUME GraphTypes, TreeInv, StatedInv, ShownInv,
         NEW g, NEW n, NEW keep, NEW merged, Merged(g, n, keep, merged)
  PROVE  ShownInv'
<1>1. /\ exists' = exists /\ written' = written /\ cut' = cut
      /\ \A e \in exists : Rep(e)' = IF Rep(e) = merged THEN keep ELSE Rep(e)
      /\ \A s \in relations' : \E r \in relations : ~Between(r, keep, merged) /\ MovedTo(s, r, keep, merged)
      /\ \A r \in relations : ~Between(r, keep, merged) => \E s \in relations' : MovedTo(s, r, keep, merged)
  BY DEF Merged
<1>2. ASSUME NEW s \in relations'
      PROVE  /\ Stated(s)' /\ UpToDate(s)' /\ BothExist(s)'
             /\ s.ends[1] = Rep(s.homes[1])' /\ s.ends[2] = Rep(s.homes[2])'
  <2>1. PICK r \in relations : MovedTo(s, r, keep, merged)
    BY <1>1
  <2>2. /\ Stated(r) /\ UpToDate(r) /\ BothExist(r)
        /\ r.ends[1] = Rep(r.homes[1]) /\ r.ends[2] = Rep(r.homes[2])
    BY DEF ShownInv
  <2>3. /\ Same(s, r) /\ s.homes = r.homes
        /\ s.ends[1] = (IF r.ends[1] = merged THEN keep ELSE r.ends[1])
        /\ s.ends[2] = (IF r.ends[2] = merged THEN keep ELSE r.ends[2])
    BY <2>1 DEF MovedTo
  <2>4. Stated(s)' /\ UpToDate(s)' /\ BothExist(s)'
    BY <1>1, <2>2, <2>3 DEF Stated, UpToDate, BothExist, Same
  <2> QED BY <1>1, <2>2, <2>3, <2>4 DEF BothExist
<1>3. ASSUME NEW w \in written', UpToDate(w)', BothExist(w)', Rep(w.homes[1])' # Rep(w.homes[2])'
      PROVE  \E s \in relations' : Same(s, w)
  <2>1. w \in written /\ UpToDate(w) /\ BothExist(w)
    BY <1>1, <1>3 DEF UpToDate, BothExist
  <2>2. Rep(w.homes[1]) # Rep(w.homes[2])
    BY <1>1, <1>3, <2>1 DEF BothExist
  <2>3. PICK r \in relations : Same(r, w)
    BY <2>1, <2>2 DEF ShownInv
  <2>4. r.homes = w.homes
    <3>1. Stated(r) /\ Stated(w)
      BY <2>1 DEF ShownInv, Stated, Same
    <3> QED BY <2>3, <3>1, StatedOnce
  <2>5. r.ends[1] = Rep(w.homes[1]) /\ r.ends[2] = Rep(w.homes[2])
    BY <2>4 DEF ShownInv
  <2>6. ~Between(r, keep, merged)
    <3>1. ASSUME Between(r, keep, merged) PROVE FALSE
      <4>1. r.ends[1] \in {keep, merged} /\ r.ends[2] \in {keep, merged}
        BY <3>1 DEF Between
      <4>2. Rep(w.homes[1])' = keep /\ Rep(w.homes[2])' = keep
        BY <1>1, <2>1, <2>5, <4>1 DEF BothExist
      <4> QED BY <1>3, <4>2
    <3> QED BY <3>1
  <2>7. PICK s \in relations' : MovedTo(s, r, keep, merged)
    BY <1>1, <2>6
  <2> QED BY <2>3, <2>7 DEF MovedTo, Same
<1> QED BY <1>2, <1>3 DEF ShownInv, Same

LEMMA MergedMarks ==
  ASSUME GraphTypes, TreeInv, StatedInv, ShownInv, MarkInv, MergeInv, StackInv,
         NEW g, NEW n, NEW keep, NEW merged, Merged(g, n, keep, merged)
  PROVE  MarkInv'
<1>1. /\ exists' = exists /\ written' = written /\ g.open /\ g = NewRow(keep, merged)
      /\ keep \in Live /\ merged \in Live
      /\ \A e \in exists : Rep(e) = merged <=> e \in Below(g)
      /\ \A s \in relations' : \E r \in relations : ~Between(r, keep, merged) /\ MovedTo(s, r, keep, merged)
  BY DEF Merged
<1>2. keep \in Entities /\ merged \in Entities
  BY <1>1, LiveNumbers DEF Live
<1>3. /\ \A k : k \in g.sources <=> \E r \in relations : /\ ~Between(r, keep, merged)
                                                         /\ r.ends[1] = merged /\ k = Mark(r)
      /\ \A k : k \in g.targets <=> \E r \in relations : /\ ~Between(r, keep, merged)
                                                         /\ r.ends[2] = merged /\ k = Mark(r)
  <2>1. g = NewRow(keep, merged)
    BY <1>1
  <2> QED BY <1>2, <2>1, NewRowTakes
<1>4. /\ merges'[n + 1] = g /\ \A i \in DOMAIN merges' : i \in 1 .. n \/ i = n + 1
      /\ \A i \in 1 .. n : i \in DOMAIN merges /\ merges'[i] = merges[i]
  BY MergedLast, MergedRows
<1>5. \A r \in relations : /\ Stated(r) /\ BothExist(r)
                           /\ r.ends[1] = Rep(r.homes[1]) /\ r.ends[2] = Rep(r.homes[2])
  BY DEF ShownInv
<1>6. \A r, x \in relations : Mark(r) = Mark(x) => r.homes = x.homes
  BY <1>5, StatedOnce, MarkSame
<1>7. ASSUME NEW i \in DOMAIN merges', merges'[i].open, NEW s \in relations' PROVE Marked(merges'[i], s)
  <2>1. PICK r \in relations : ~Between(r, keep, merged) /\ MovedTo(s, r, keep, merged)
    BY <1>1
  <2>2. Mark(s) = Mark(r) /\ s.homes = r.homes
    BY <2>1, MarkSame DEF MovedTo
  <2>3. CASE i \in 1 .. n
    <3>1. Marked(merges[i], r)
      BY <1>4, <1>7, <2>3 DEF MarkInv
    <3> QED BY <1>4, <2>2, <2>3, <3>1 DEF Marked
  <2>4. CASE i = n + 1
    <3>1. r.ends[1] = merged <=> r.homes[1] \in Below(g)
      BY <1>1, <1>5 DEF BothExist
    <3>2. r.ends[2] = merged <=> r.homes[2] \in Below(g)
      BY <1>1, <1>5 DEF BothExist
    <3>3. Mark(r) \in g.sources <=> r.ends[1] = merged
      BY <1>3, <1>5, <1>6, <2>1
    <3>4. Mark(r) \in g.targets <=> r.ends[2] = merged
      BY <1>3, <1>5, <1>6, <2>1
    <3> QED BY <1>4, <2>2, <2>4, <3>1, <3>2, <3>3, <3>4 DEF Marked
  <2> QED BY <1>4, <2>3, <2>4
<1>8. ASSUME NEW i \in DOMAIN merges', merges'[i].open, NEW k \in merges'[i].sources \cup merges'[i].targets
      PROVE  \E w \in written' : k = Mark(w)
  <2>1. CASE i \in 1 .. n
    BY <1>1, <1>4, <1>8, <2>1 DEF MarkInv
  <2>2. CASE i = n + 1
    <3>1. PICK r \in relations : k = Mark(r)
      BY <1>3, <1>4, <1>8, <2>2
    <3> QED BY <1>1, <1>5, <3>1, MarkSame DEF Stated
  <2> QED BY <1>4, <2>1, <2>2
<1> QED BY <1>7, <1>8 DEF MarkInv, Marked, Mark, Below

LEMMA MergedDrops ==
  ASSUME GraphTypes, TreeInv, MergeInv, StackInv, StatedInv, ShownInv, DropInv,
         NEW g, NEW n, NEW keep, NEW merged, Merged(g, n, keep, merged)
  PROVE  DropInv'
<1>1. /\ exists' = exists /\ written' = written /\ cut' = cut /\ g = NewRow(keep, merged)
      /\ keep \in Live /\ merged \in Live /\ keep # merged /\ g.keep = keep /\ g.merged = merged
      /\ \A e \in exists : Rep(e) = merged <=> e \in Below(g)
  BY DEF Merged
<1>2. keep \in Entities /\ merged \in Entities
  BY <1>1, LiveNumbers DEF Live
<1>3. \A r : r \in g.dropped <=> r \in relations /\ Between(r, keep, merged)
  <2>1. g = NewRow(keep, merged)
    BY <1>1
  <2> QED BY <1>2, <2>1, NewRowTakes
<1>4. /\ merges'[n + 1] = g /\ \A i \in DOMAIN merges' : i \in 1 .. n \/ i = n + 1
      /\ \A i \in 1 .. n : i \in DOMAIN merges /\ merges'[i] = merges[i] /\ \A r : Joined(i, r)' <=> Joined(i, r)
      /\ \A e \in exists : Beside(n + 1, e)' <=> Rep(e) = keep
  BY MergedLast, MergedRows
<1>5. \A r \in relations : /\ Stated(r) /\ BothExist(r)
                           /\ r.ends[1] = Rep(r.homes[1]) /\ r.ends[2] = Rep(r.homes[2])
  BY DEF ShownInv
<1>6. ASSUME NEW r, BothExist(r)
      PROVE  Joined(n + 1, r)' <=> \/ Rep(r.homes[1]) = merged /\ Rep(r.homes[2]) = keep
                                   \/ Rep(r.homes[2]) = merged /\ Rep(r.homes[1]) = keep
  <2>1. Joined(n + 1, r)' <=> \/ r.homes[1] \in Below(merges'[n + 1]) /\ Beside(n + 1, r.homes[2])'
                              \/ r.homes[2] \in Below(merges'[n + 1]) /\ Beside(n + 1, r.homes[1])'
    BY DEF Joined, Below
  <2> QED BY <1>1, <1>4, <1>6, <2>1 DEF BothExist
<1>7. ASSUME NEW w \in written', UpToDate(w)', BothExist(w)', Joined(n + 1, w)'
      PROVE  \E r \in g.dropped : Same(r, w)
  <2>1. w \in written /\ UpToDate(w) /\ BothExist(w)
    BY <1>1, <1>7 DEF UpToDate, BothExist
  <2>2. {Rep(w.homes[1]), Rep(w.homes[2])} = {keep, merged} /\ Rep(w.homes[1]) # Rep(w.homes[2])
    BY <1>1, <1>6, <1>7, <2>1
  <2>3. PICK r \in relations : Same(r, w)
    BY <2>1, <2>2 DEF ShownInv
  <2>4. r.homes = w.homes
    <3>1. Stated(w)
      BY <2>1 DEF Stated, Same
    <3> QED BY <1>5, <2>3, <3>1, StatedOnce
  <2> QED BY <1>3, <1>5, <2>2, <2>3, <2>4 DEF Between
<1>8. ASSUME NEW r \in g.dropped
      PROVE  /\ Stated(r)' /\ BothExist(r)' /\ Joined(n + 1, r)'
             /\ r.ends[1] = Side(g, r.homes[1]) /\ r.ends[2] = Side(g, r.homes[2])
  <2>1. r \in relations /\ Between(r, keep, merged)
    BY <1>3
  <2>2. /\ Stated(r) /\ BothExist(r)
        /\ r.ends[1] = Rep(r.homes[1]) /\ r.ends[2] = Rep(r.homes[2])
    BY <1>5, <2>1
  <2>3. \/ r.ends[1] = merged /\ r.ends[2] = keep
        \/ r.ends[2] = merged /\ r.ends[1] = keep
    BY <2>1 DEF Between
  <2>4. Joined(n + 1, r)'
    BY <1>6, <2>2, <2>3
  <2>5. Stated(r)' /\ BothExist(r)'
    BY <1>1, <2>2 DEF Stated, Same, BothExist
  <2>6. r.homes[1] \in exists /\ r.homes[2] \in exists
    BY <2>2 DEF BothExist
  <2> QED BY <1>1, <2>2, <2>3, <2>4, <2>5, <2>6 DEF Side
<1>9. ASSUME NEW i \in DOMAIN merges', merges'[i].open
      PROVE  /\ \A w \in written' : UpToDate(w)' /\ BothExist(w)' /\ Joined(i, w)'
                                      => \E r \in merges'[i].dropped : Same(r, w)
             /\ \A r \in merges'[i].dropped :
                  /\ Stated(r)' /\ BothExist(r)' /\ Joined(i, r)'
                  /\ r.ends[1] = Side(merges'[i], r.homes[1]) /\ r.ends[2] = Side(merges'[i], r.homes[2])
  <2>1. CASE i \in 1 .. n
    <3>1. PICK h : h = merges[i]
      OBVIOUS
    <3>2. h = merges'[i] /\ i \in DOMAIN merges /\ merges[i].open /\ \A r : Joined(i, r)' <=> Joined(i, r)
      BY <1>4, <1>9, <2>1, <3>1
    <3>3. /\ \A w \in written : UpToDate(w) /\ BothExist(w) /\ Joined(i, w) => \E r \in h.dropped : Same(r, w)
          /\ \A r \in h.dropped : /\ Stated(r) /\ BothExist(r) /\ Joined(i, r)
                                  /\ r.ends[1] = Side(h, r.homes[1]) /\ r.ends[2] = Side(h, r.homes[2])
      BY <3>1, <3>2, ZenonT(60) DEF DropInv
    <3>4. \A r : /\ UpToDate(r)' <=> UpToDate(r)
                 /\ BothExist(r)' <=> BothExist(r)
                 /\ Stated(r)' <=> Stated(r)
      BY <1>1 DEF UpToDate, BothExist, Stated, Same
    <3> QED BY <1>1, <3>2, <3>3, <3>4
  <2>2. CASE i = n + 1
    BY <1>4, <1>7, <1>8, <2>2
  <2> QED BY <1>4, <2>1, <2>2
<1> QED BY <1>9 DEF DropInv, Same, Side, Below

LEMMA MergedLater ==
  ASSUME GraphTypes, TreeInv, MergeInv, StackInv, StatedInv, ShownInv, MarkInv, DropInv, LaterInv,
         NEW g, NEW n, NEW keep, NEW merged, Merged(g, n, keep, merged)
  PROVE  LaterInv'
<1>1. /\ exists' = exists /\ g = NewRow(keep, merged)
      /\ keep \in Live /\ merged \in Live /\ n \in Nat
      /\ \A e \in exists : Rep(e) = merged <=> e \in Below(g)
  BY DEF Merged
<1>2. keep \in Entities /\ merged \in Entities
  BY <1>1, LiveNumbers DEF Live
<1>3. /\ \A r : r \in g.dropped => r \in relations
      /\ \A k : k \in g.sources => \E r \in relations : k = Mark(r)
      /\ \A k : k \in g.targets => \E r \in relations : k = Mark(r)
  BY <1>1, <1>2, NewRowTakes
<1>4. /\ merges'[n + 1] = g /\ \A i \in DOMAIN merges' : i \in 1 .. n \/ i = n + 1
      /\ \A i \in 1 .. n : i \in DOMAIN merges /\ merges'[i] = merges[i]
  BY MergedLast, MergedRows
<1>5. \A r \in relations : /\ Stated(r) /\ r.ends[1] # r.ends[2]
                           /\ r.ends[1] = Rep(r.homes[1]) /\ r.ends[2] = Rep(r.homes[2])
  BY DEF ShownInv, TreeInv
<1> SUFFICES ASSUME NEW i \in DOMAIN merges', NEW j \in DOMAIN merges', i < j, merges'[i].open, merges'[j].open
             PROVE /\ \A r \in merges'[j].dropped : Marked(merges'[i], r)
                   /\ \A r \in merges'[i].dropped :
                        /\ Mark(r) \notin merges'[j].sources /\ Mark(r) \notin merges'[j].targets
                        /\ r.homes[1] \in Below(merges'[j]) \/ r.homes[2] \in Below(merges'[j])
                             => merges'[i].keep \in Below(merges'[j])
  BY DEF LaterInv, Marked, Below, Mark
<1>6. i \in 1 .. n
  BY <1>1, <1>4
<1>7. PICK h : h = merges[i] /\ h = merges'[i] /\ h.open /\ i \in DOMAIN merges
  BY <1>4, <1>6
<1>8. CASE j \in 1 .. n
  BY <1>4, <1>6, <1>8 DEF LaterInv
<1>9. CASE j = n + 1
  <2>1. \A r \in g.dropped : Marked(h, r)
    BY <1>3, <1>7 DEF MarkInv
  <2>2. ASSUME NEW r \in h.dropped
        PROVE  /\ Mark(r) \notin g.sources /\ Mark(r) \notin g.targets
               /\ r.homes[1] \in Below(g) \/ r.homes[2] \in Below(g) => h.keep \in Below(g)
    <3>1. Stated(r) /\ BothExist(r) /\ Joined(i, r)
      BY <1>7, <2>2 DEF DropInv
    <3>2. Rep(r.homes[1]) = Rep(h.keep) /\ Rep(r.homes[2]) = Rep(h.keep)
      BY <1>7, <3>1, BesideStands DEF Joined, BothExist
    <3>3. ASSUME NEW x \in relations, Mark(r) = Mark(x) PROVE FALSE
      <4>1. x.homes = r.homes
        BY <1>5, <3>1, <3>3, StatedOnce, MarkSame
      <4> QED BY <1>5, <3>2, <4>1
    <3>4. h.keep \in exists
      BY <1>7 DEF MergeInv, Holds
    <3> QED BY <1>1, <1>3, <3>1, <3>2, <3>3, <3>4 DEF BothExist
  <2> QED BY <1>4, <1>7, <1>9, <2>1, <2>2
<1> QED BY <1>4, <1>8, <1>9

LEMMA MergedNames ==
  ASSUME GraphTypes, TreeInv, MergeInv, StackInv, NameInv,
         NEW g, NEW n, NEW keep, NEW merged, Merged(g, n, keep, merged)
  PROVE  NameInv'
<1>1. /\ exists' = exists /\ canonical' = canonical /\ g = NewRow(keep, merged)
      /\ keep \in Live /\ merged \in Live /\ g.keep = keep /\ g.merged = merged
      /\ aliases' = [aliases EXCEPT ![keep] = @ \cup g.names]
      /\ \A e \in exists : Rep(e) = merged <=> e \in Below(g)
      /\ \A e \in exists : Rep(e)' = IF Rep(e) = merged THEN keep ELSE Rep(e)
  BY DEF Merged
<1>2. keep \in Entities /\ merged \in Entities /\ keep \in exists /\ merged \in exists
  BY <1>1, LiveNumbers DEF Live
<1>3. \A k : k \in g.names <=> /\ k = canonical[merged] \/ k \in aliases[merged]
                               /\ k # canonical[keep] /\ k \notin aliases[keep]
  BY <1>1, <1>2, NewRowTakes
<1>4. /\ merges'[n + 1] = g /\ \A i \in DOMAIN merges' : i \in 1 .. n \/ i = n + 1
      /\ \A i \in 1 .. n : i \in DOMAIN merges /\ merges'[i] = merges[i] /\ \A e : Beside(i, e)' <=> Beside(i, e)
      /\ \A e \in exists : Beside(n + 1, e)' <=> Rep(e) = keep
  BY MergedLast, MergedRows
<1>5. /\ \A e \in Entities : \A k : k \in aliases[e] => k \in aliases'[e]
      /\ \A k : k \in g.names => k \in aliases'[keep]
  BY <1>1, <1>2 DEF GraphTypes
<1>6. \A e \in exists : Rep(e) \in Entities /\ (canonical[e] = canonical[Rep(e)] \/ canonical[e] \in aliases[Rep(e)])
  BY RepLive DEF NameInv
<1>7. ASSUME NEW e \in exists' PROVE canonical'[e] = canonical'[Rep(e)'] \/ canonical'[e] \in aliases'[Rep(e)']
  <2>1. CASE Rep(e) = merged
    BY <1>1, <1>2, <1>3, <1>5, <1>6, <2>1
  <2>2. CASE Rep(e) # merged
    BY <1>1, <1>5, <1>6, <2>2
  <2> QED BY <2>1, <2>2
<1>8. ASSUME NEW i \in DOMAIN merges', merges'[i].open
      PROVE  /\ \A e \in exists' : e # merges'[i].keep /\ Beside(i, e)' => canonical'[e] \notin merges'[i].names
             /\ \A e \in exists' : e \in Below(merges'[i])
                  => canonical'[e] = canonical'[merges'[i].merged] \/ canonical'[e] \in aliases'[merges'[i].merged]
  <2>1. CASE i \in 1 .. n
    <3>1. PICK h : h = merges[i]
      OBVIOUS
    <3>2. h = merges'[i] /\ i \in DOMAIN merges /\ h.open /\ \A e : Beside(i, e)' <=> Beside(i, e)
      BY <1>4, <1>8, <2>1, <3>1
    <3>3. /\ \A e \in exists : e # h.keep /\ Beside(i, e) => canonical[e] \notin h.names
          /\ \A e \in exists : e \in Below(h) => canonical[e] = canonical[h.merged] \/ canonical[e] \in aliases[h.merged]
      BY <3>1, <3>2 DEF NameInv
    <3>4. h.merged \in Entities
      BY <3>1, <3>2, LiveNumbers DEF MergeInv, Holds
    <3> QED BY <1>1, <1>5, <3>2, <3>3, <3>4
  <2>2. CASE i = n + 1
    <3>1. \A e \in exists : Rep(e) = keep => canonical[e] \notin g.names
      BY <1>3, <1>6
    <3>2. \A e \in exists : e \in Below(g) => canonical[e] = canonical[merged] \/ canonical[e] \in aliases'[merged]
      BY <1>1, <1>2, <1>5, <1>6
    <3> QED BY <1>1, <1>4, <2>2, <3>1, <3>2
  <2> QED BY <1>4, <2>1, <2>2
<1> QED BY <1>1, <1>7, <1>8 DEF NameInv, Below

LEMMA MergeUndo ==
  ASSUME GraphInv, UndoInv, NEW keep \in Live, NEW merged \in Live, Merge(keep, merged)
  PROVE  UndoInv'
<1>1. GraphTypes /\ CitesInv /\ TreeInv /\ MergeInv
  BY DEF GraphInv
<1>2. StackInv /\ StatedInv /\ (~tangled => RelationsInv /\ NameInv)
  BY DEF UndoInv
<1>3. UNCHANGED <<written, created, cut, resolvedChunks, tangled>>
  BY DEF Merge
<1>4. PICK g \in MergeRows, n \in Nat : Merged(g, n, keep, merged)
  BY <1>1, MergeLeaves
<1>5. StackInv' /\ StatedInv'
  BY <1>1, <1>2, <1>3, <1>4, MergedStack, StatedKept
<1>6. ASSUME ~tangled PROVE RelationsInv' /\ NameInv'
  <2>1. ShownInv /\ MarkInv /\ DropInv /\ LaterInv /\ NameInv
    BY <1>2, <1>6 DEF RelationsInv
  <2>2. ShownInv' /\ MarkInv'
    BY <1>1, <1>2, <1>4, <2>1, MergedShown, MergedMarks
  <2>3. DropInv' /\ LaterInv' /\ NameInv'
    BY <1>1, <1>2, <1>4, <2>1, MergedDrops, MergedLater, MergedNames
  <2> QED BY <2>2, <2>3 DEF RelationsInv
<1> QED BY <1>3, <1>5, <1>6 DEF UndoInv

------------------------------------------------------------------------------
(* Undoing a merge gives back what it dropped *)

\* A relation that was not dropped goes back with the sides the row names.
BackTo(s, r, g) ==
  /\ Same(s, r) /\ s.homes = r.homes
  /\ s.ends[1] = (IF Mark(r) \in g.sources /\ r.ends[1] = g.keep THEN g.merged ELSE r.ends[1])
  /\ s.ends[2] = (IF Mark(r) \in g.targets /\ r.ends[2] = g.keep THEN g.merged ELSE r.ends[2])

LEMMA UndoBack ==
  ASSUME GraphTypes, TreeInv, NEW i \in DOMAIN merges, Undo(i), NEW g \in MergeRows, g = merges[i]
  PROVE  /\ \A s \in relations' : s \in Restored(g) \/ \E r \in relations : BackTo(s, r, g)
         /\ \A r \in relations : \E s \in relations' : BackTo(s, r, g)
         /\ Restored(g) \subseteq relations'
<1> DEFINE at(r) == [cite |-> r.cite, pair |-> r.pair]
           first(r) == IF at(r) \in g.sources THEN MoveEnd(r, 1, g.keep, g.merged) ELSE r
           from(r) == IF at(r) \in g.targets THEN g.keep ELSE None
           Back(r) == MoveEnd(first(r), 2, from(r), g.merged)
<1>1. relations' = {Back(r) : r \in relations} \cup Restored(g)
  BY DEF Undo
<1>2. ASSUME NEW r \in relations PROVE BackTo(Back(r), r, g)
  <2>1. r \in Relations /\ r.ends[1] \in Entities /\ r.ends[2] \in Entities /\ at(r) = Mark(r)
    BY DEF GraphTypes, Relations, Mark
  <2>2. g.keep \in Entities /\ g.merged \in Entities
    BY RowFacts
  <2>3. PICK x : x = first(r)
    OBVIOUS
  <2>4. /\ x \in Relations /\ x.cite = r.cite /\ x.pair = r.pair /\ x.homes = r.homes /\ x.ends[2] = r.ends[2]
        /\ x.ends[1] = IF Mark(r) \in g.sources /\ r.ends[1] = g.keep THEN g.merged ELSE r.ends[1]
    <3>1. CASE Mark(r) \in g.sources
      <4>1. x = MoveEnd(r, 1, g.keep, g.merged)
        BY <2>1, <2>3, <3>1
      <4> QED BY <2>1, <2>2, <3>1, <4>1, MoveFirst
    <3>2. CASE Mark(r) \notin g.sources
      BY <2>1, <2>3, <3>2
    <3> QED BY <3>1, <3>2
  <2>5. PICK f : f = from(r)
    OBVIOUS
  <2>6. f = IF Mark(r) \in g.targets THEN g.keep ELSE None
    BY <2>1, <2>5
  <2>7. PICK s : s = MoveEnd(x, 2, f, g.merged)
    OBVIOUS
  <2>8. s = Back(r)
    BY <2>3, <2>5, <2>7
  <2>9. /\ s.cite = x.cite /\ s.pair = x.pair /\ s.homes = x.homes /\ s.ends[1] = x.ends[1]
        /\ s.ends[2] = IF x.ends[2] = f THEN g.merged ELSE x.ends[2]
    BY <2>2, <2>4, <2>7, MoveSecond
  <2>10. s.ends[2] = IF Mark(r) \in g.targets /\ r.ends[2] = g.keep THEN g.merged ELSE r.ends[2]
    BY <2>1, <2>4, <2>6, <2>9, NoneIsNoEntity
  <2> HIDE DEF Back
  <2> QED BY <2>4, <2>8, <2>9, <2>10 DEF BackTo, Same
<1> HIDE DEF Back
<1> QED BY <1>1, <1>2

\* What an undo leaves, for the lemmas below.
Undone(g, i) ==
  /\ i \in DOMAIN merges /\ DOMAIN merges' = DOMAIN merges /\ DOMAIN merges \subseteq Nat
  /\ g = merges[i] /\ g.open
  /\ g.keep \in Live /\ g.keep \in exists /\ g.merged \in exists /\ g.keep # g.merged /\ Rep(g.keep) = g.keep
  /\ \A j \in DOMAIN merges : /\ Twin(merges[j], merges'[j])
                              /\ merges'[j].open <=> merges[j].open /\ j # i
  /\ exists' = exists /\ written' = written /\ cut' = cut /\ canonical' = canonical
  /\ aliases' = [aliases EXCEPT ![g.keep] = @ \ g.names]
  /\ \A e \in exists : into'[e] = IF e = g.merged THEN None ELSE IF e \in g.children THEN g.merged ELSE into[e]
  /\ \A e \in exists : Rep(e)' = IF e \in Below(g) THEN g.merged ELSE Rep(e)
  /\ \A e \in exists : e \in Below(g) => Rep(e) = g.keep
  /\ \A r \in g.dropped : {r.ends[1], r.ends[2]} = {g.keep, g.merged}
  /\ \A s \in relations' : s \in Restored(g) \/ \E r \in relations : BackTo(s, r, g)
  /\ \A r \in relations : \E s \in relations' : BackTo(s, r, g)
  /\ Restored(g) \subseteq relations'

\* No later merge into the same entity is open.
InOrder(g, i) == \A j \in DOMAIN merges : merges[j].open /\ merges[j].keep = g.keep => j <= i

LEMMA UndoLeaves ==
  ASSUME GraphTypes, TreeInv, MergeInv, NEW i \in DOMAIN merges, Undo(i)
  PROVE  \E g \in MergeRows : Undone(g, i) /\ (~tangled' => ~tangled /\ InOrder(g, i))
<1>1. PICK g \in MergeRows : g = merges[i]
  BY DEF GraphTypes
<1>2. /\ g.keep \in Live /\ g.merged \in exists /\ g.keep # g.merged /\ exists' = exists
      /\ \A e \in exists : into'[e] = IF e = g.merged THEN None ELSE IF e \in g.children THEN g.merged ELSE into[e]
      /\ \A e \in exists : Rep(e)' = IF e \in Below(g) THEN g.merged ELSE Rep(e)
      /\ \A e \in exists : e \in Below(g) => Rep(e) = g.keep
      /\ \A r \in g.dropped : {r.ends[1], r.ends[2]} = {g.keep, g.merged}
  BY <1>1, UndoMoves
<1>3. g.keep \in exists /\ Rep(g.keep) = g.keep
  BY <1>2 DEF Live, Rep
<1>4. /\ g.open /\ merges' = [merges EXCEPT ![i] = [merges[i] EXCEPT !.open = FALSE]]
      /\ written' = written /\ cut' = cut /\ canonical' = canonical
      /\ aliases' = [aliases EXCEPT ![g.keep] = @ \ g.names]
      /\ tangled' = (tangled \/ \E j \in (i + 1)..Len(merges) : merges[j].open /\ merges[j].keep = g.keep)
  BY <1>1 DEF Undo
<1>5. PICK n \in Nat : n = Len(merges) /\ DOMAIN merges = 1 .. n
  BY DEF GraphTypes
<1>6. DOMAIN merges' = DOMAIN merges /\ DOMAIN merges \subseteq Nat
  BY <1>4, <1>5
<1>7. ASSUME NEW j \in DOMAIN merges
      PROVE  Twin(merges[j], merges'[j]) /\ (merges'[j].open <=> merges[j].open /\ j # i)
  <2>1. CASE j = i
    <3>1. PICK b \in BOOLEAN : b = FALSE
      OBVIOUS
    <3>2. merges'[i] = [g EXCEPT !.open = b]
      BY <1>1, <1>4, <3>1
    <3>3. Twin(g, merges'[i]) /\ merges'[i].open = b
      BY <3>2, OpenTwin
    <3> QED BY <1>1, <2>1, <3>1, <3>3
  <2>2. CASE j # i
    <3>1. merges'[j] = merges[j]
      BY <1>4, <2>2
    <3> QED BY <2>2, <3>1 DEF Twin, Alike
  <2> QED BY <2>1, <2>2
<1>8. /\ \A s \in relations' : s \in Restored(g) \/ \E r \in relations : BackTo(s, r, g)
      /\ \A r \in relations : \E s \in relations' : BackTo(s, r, g)
      /\ Restored(g) \subseteq relations'
  BY <1>1, UndoBack
<1>9. Undone(g, i)
  BY <1>1, <1>2, <1>3, <1>4, <1>6, <1>7, <1>8 DEF Undone
<1>10. ASSUME ~tangled' PROVE ~tangled /\ InOrder(g, i)
  <2>1. ~tangled /\ \A j \in (i + 1)..n : ~(merges[j].open /\ merges[j].keep = g.keep)
    BY <1>4, <1>5, <1>10
  <2>2. \A j \in 1 .. n : j <= i \/ j \in (i + 1)..n
    BY <1>5
  <2> QED BY <1>5, <2>1, <2>2 DEF InOrder
<1> QED BY <1>9, <1>10

\* The other merges took what they took, and none of them took `keep`, which is live.
LEMMA UndoneRows ==
  ASSUME GraphTypes, TreeInv, MergeInv, NEW g, NEW i, Undone(g, i), NEW j \in DOMAIN merges
  PROVE  /\ j \in DOMAIN merges' /\ Below(merges'[j]) = Below(merges[j])
         /\ \A k, e : Took(j, k, e)' <=> Took(j, k, e) /\ j # i
         /\ merges[j].open => g.keep \notin Below(merges[j]) /\ merges[j].merged # g.keep
<1>1. j \in DOMAIN merges' /\ Twin(merges[j], merges'[j]) /\ (merges'[j].open <=> merges[j].open /\ j # i)
  BY DEF Undone
<1>2. Below(merges'[j]) = Below(merges[j]) /\ merges'[j].keep = merges[j].keep
  BY <1>1 DEF Twin, Alike, Below
<1>3. ASSUME NEW k, NEW e PROVE Took(j, k, e)' <=> Took(j, k, e) /\ j # i
  <2>1. Took(j, k, e)' <=> merges'[j].open /\ merges'[j].keep = k /\ e \in Below(merges'[j])
    BY DEF Took, Below
  <2> QED BY <1>1, <1>2, <2>1 DEF Took
<1>4. ASSUME merges[j].open PROVE g.keep \notin Below(merges[j])
  <2>1. g.keep \in exists /\ into[g.keep] = None
    BY DEF Undone, Live
  <2> QED BY <1>4, <2>1, TookStands
<1>5. merges[j].merged \in Below(merges[j])
  BY DEF Below
<1> QED BY <1>1, <1>2, <1>3, <1>4, <1>5

LEMMA UndoneStack ==
  ASSUME GraphTypes, TreeInv, MergeInv, StackInv, NEW g, NEW i, Undone(g, i)
  PROVE  StackInv'
<1>1. /\ i \in DOMAIN merges /\ g = merges[i] /\ g.open /\ exists' = exists
      /\ \A e \in exists : into'[e] = IF e = g.merged THEN None ELSE IF e \in g.children THEN g.merged ELSE into[e]
      /\ DOMAIN merges' = DOMAIN merges
      /\ \A j \in DOMAIN merges : /\ Twin(merges[j], merges'[j])
                                  /\ merges'[j].open <=> merges[j].open /\ j # i
  BY DEF Undone
<1>2. \A j \in DOMAIN merges : /\ \A k, e : Took(j, k, e)' <=> Took(j, k, e) /\ j # i
                               /\ merges[j].open => merges[j].merged # g.keep
  BY UndoneRows
<1>3. ASSUME NEW e \in exists', into'[e] # None PROVE \E j \in DOMAIN merges' : Took(j, into[e], e)'
  <2>1. PICK k : k = into'[e]
    OBVIOUS
  <2>2. e \in exists /\ e # g.merged
    BY <1>1, <1>3
  <2>3. \E j \in DOMAIN merges : j # i /\ Took(j, k, e)
    <3>1. CASE e \in g.children
      <4>1. k = g.merged
        BY <1>1, <2>1, <2>2, <3>1
      <4>2. PICK j \in DOMAIN merges : j < i /\ Took(j, g.merged, e)
        BY <1>1, <2>2, <3>1 DEF StackInv
      <4>3. i \in Nat
        BY <1>1 DEF Undone
      <4> QED BY <4>1, <4>2, <4>3
    <3>2. CASE e \notin g.children
      <4>1. k = into[e] /\ into[e] # None
        BY <1>1, <1>3, <2>1, <2>2, <3>2
      <4>2. PICK j \in DOMAIN merges : Took(j, k, e)
        BY <2>2, <4>1 DEF StackInv
      <4> QED BY <1>1, <2>2, <3>2, <4>2 DEF Took, Below
    <3> QED BY <3>1, <3>2
  <2> QED BY <1>1, <1>2, <2>1, <2>3 DEF Took
<1>4. ASSUME NEW h \in DOMAIN merges', merges'[h].open, NEW e \in merges'[h].children \cap exists'
      PROVE  \E j \in DOMAIN merges' : j < h /\ Took(j, merges[h].merged, e)'
  <2>1. PICK k : k = merges'[h].merged
    OBVIOUS
  <2>2. h \in DOMAIN merges /\ merges[h].open /\ k = merges[h].merged /\ e \in merges[h].children \cap exists
    BY <1>1, <1>4, <2>1 DEF Twin, Alike
  <2>3. PICK j \in DOMAIN merges : j < h /\ Took(j, k, e)
    BY <2>2 DEF StackInv
  <2>4. j # i
    BY <1>1, <1>2, <2>2, <2>3 DEF Took
  <2> QED BY <1>1, <1>2, <2>1, <2>3, <2>4 DEF Took
<1> QED BY <1>3, <1>4 DEF StackInv

\* In order, who stands under `keep` is of this merge or was there before it.
LEMMA UnderKeep ==
  ASSUME StackInv, NEW g, NEW i, Undone(g, i), InOrder(g, i), NEW e \in exists, Rep(e) = g.keep
  PROVE  e \in Below(g) \/ Beside(i, e)
<1>1. i \in DOMAIN merges /\ g = merges[i] /\ DOMAIN merges \subseteq Nat
  BY DEF Undone
<1>2. SUFFICES ASSUME e \notin Below(g), e # g.keep PROVE \E j \in DOMAIN merges : j < i /\ Took(j, g.keep, e)
  BY <1>1 DEF Beside
<1>3. into[e] # None /\ into[e] = g.keep
  BY <1>2 DEF Rep
<1>4. PICK j \in DOMAIN merges : Took(j, g.keep, e)
  BY <1>3 DEF StackInv
<1>5. j # i /\ j <= i
  BY <1>1, <1>2, <1>4 DEF Took, InOrder
<1>6. j \in Nat /\ i \in Nat
  BY <1>1
<1> QED BY <1>4, <1>5, <1>6

\* In order, no other open merge loses what was beside it.
LEMMA UndoneBeside ==
  ASSUME GraphTypes, TreeInv, MergeInv, NEW g, NEW i, Undone(g, i), InOrder(g, i),
         NEW h \in DOMAIN merges, merges'[h].open
  PROVE  /\ h # i /\ merges[h].open
         /\ \A e : Beside(h, e)' <=> Beside(h, e)
         /\ \A r : Joined(h, r)' <=> Joined(h, r)
<1>1. /\ i \in DOMAIN merges /\ g = merges[i] /\ g.open /\ DOMAIN merges' = DOMAIN merges
      /\ DOMAIN merges \subseteq Nat
      /\ Twin(merges[h], merges'[h]) /\ (merges'[h].open <=> merges[h].open /\ h # i)
  BY DEF Undone
<1>2. \A j \in DOMAIN merges : \A k, e : Took(j, k, e)' <=> Took(j, k, e) /\ j # i
  BY UndoneRows
<1>3. Below(merges'[h]) = Below(merges[h])
  BY UndoneRows
<1>4. PICK k : k = merges[h].keep
  OBVIOUS
<1>5. merges'[h].keep = k
  BY <1>1, <1>4 DEF Twin, Alike
<1>6. ASSUME NEW e, NEW j \in DOMAIN merges, j < h, Took(j, k, e) PROVE j # i
  <2>1. SUFFICES ASSUME j = i PROVE FALSE
    OBVIOUS
  <2>2. merges[h].open /\ merges[h].keep = g.keep
    BY <1>1, <1>4, <1>6, <2>1 DEF Took
  <2>3. h <= i /\ i < h /\ h \in Nat /\ i \in Nat
    BY <1>1, <1>6, <2>1, <2>2 DEF InOrder
  <2> QED BY <2>3
<1>7. ASSUME NEW e PROVE Beside(h, e)' <=> Beside(h, e)
  <2>1. Beside(h, e) <=> e = k \/ \E j \in DOMAIN merges : j < h /\ Took(j, k, e)
    BY <1>4 DEF Beside
  <2>2. Beside(h, e)' <=> e = k \/ \E j \in DOMAIN merges' : j < h /\ Took(j, k, e)'
    BY <1>5 DEF Beside, Took
  <2> QED BY <1>1, <1>2, <1>6, <2>1, <2>2
<1>8. ASSUME NEW r PROVE Joined(h, r)' <=> Joined(h, r)
  <2>1. Joined(h, r)' <=> \/ r.homes[1] \in Below(merges'[h]) /\ Beside(h, r.homes[2])'
                          \/ r.homes[2] \in Below(merges'[h]) /\ Beside(h, r.homes[1])'
    BY DEF Joined, Below
  <2> QED BY <1>3, <1>7, <2>1 DEF Joined
<1> QED BY <1>1, <1>7, <1>8

\* What a merge dropped comes back between the two the undo has told apart.
LEMMA RestoredSides ==
  ASSUME GraphTypes, TreeInv, MergeInv, DropInv, NEW g, NEW i, Undone(g, i), NEW r \in Restored(g)
  PROVE  /\ r \in g.dropped /\ Stated(r) /\ UpToDate(r) /\ BothExist(r)
         /\ r.ends[1] = Rep(r.homes[1])' /\ r.ends[2] = Rep(r.homes[2])'
<1>1. /\ i \in DOMAIN merges /\ g = merges[i] /\ g.open /\ Rep(g.keep) = g.keep
      /\ \A e \in exists : Rep(e)' = IF e \in Below(g) THEN g.merged ELSE Rep(e)
  BY DEF Undone
<1>2. r \in g.dropped /\ UpToDate(r)
  BY DEF Restored, UpToDate
<1>3. /\ Stated(r) /\ BothExist(r) /\ Joined(i, r)
      /\ r.ends[1] = Side(g, r.homes[1]) /\ r.ends[2] = Side(g, r.homes[2])
  BY <1>1, <1>2 DEF DropInv
<1>4. \A e \in exists : e \in Below(g) \/ Beside(i, e) => Side(g, e) = Rep(e)'
  BY <1>1, BesideStands DEF Side
<1>5. r.homes[1] \in exists /\ r.homes[2] \in exists
  BY <1>3 DEF BothExist
<1>6. /\ r.homes[1] \in Below(g) \/ Beside(i, r.homes[1])
      /\ r.homes[2] \in Below(g) \/ Beside(i, r.homes[2])
  BY <1>1, <1>3 DEF Joined
<1> QED BY <1>2, <1>3, <1>4, <1>5, <1>6

LEMMA UndoneShown ==
  ASSUME GraphTypes, TreeInv, MergeInv, StackInv, StatedInv, ShownInv, MarkInv, DropInv,
         NEW g, NEW i, Undone(g, i), InOrder(g, i)
  PROVE  ShownInv'
<1>1. /\ i \in DOMAIN merges /\ g = merges[i] /\ g.open /\ g.keep \in exists /\ g.merged \in exists
      /\ exists' = exists /\ written' = written /\ cut' = cut /\ Rep(g.keep) = g.keep
      /\ \A e \in exists : Rep(e)' = IF e \in Below(g) THEN g.merged ELSE Rep(e)
      /\ \A e \in exists : e \in Below(g) => Rep(e) = g.keep
      /\ \A r \in g.dropped : {r.ends[1], r.ends[2]} = {g.keep, g.merged}
      /\ \A s \in relations' : s \in Restored(g) \/ \E r \in relations : BackTo(s, r, g)
      /\ \A r \in relations : \E s \in relations' : BackTo(s, r, g)
      /\ Restored(g) \subseteq relations'
  BY DEF Undone
<1>2. \A r : /\ UpToDate(r)' <=> UpToDate(r)
             /\ BothExist(r)' <=> BothExist(r)
             /\ Stated(r)' <=> Stated(r)
  BY <1>1 DEF UpToDate, BothExist, Stated, Same
<1>3. ASSUME NEW s \in relations'
      PROVE  /\ Stated(s)' /\ UpToDate(s)' /\ BothExist(s)'
             /\ s.ends[1] = Rep(s.homes[1])' /\ s.ends[2] = Rep(s.homes[2])'
  <2>1. CASE s \in Restored(g)
    BY <1>2, <2>1, RestoredSides
  <2>2. ASSUME NEW r \in relations, BackTo(s, r, g)
        PROVE  /\ Stated(s)' /\ UpToDate(s)' /\ BothExist(s)'
               /\ s.ends[1] = Rep(s.homes[1])' /\ s.ends[2] = Rep(s.homes[2])'
    <3>1. /\ Stated(r) /\ UpToDate(r) /\ BothExist(r)
          /\ r.ends[1] = Rep(r.homes[1]) /\ r.ends[2] = Rep(r.homes[2])
      BY DEF ShownInv
    <3>2. /\ Same(s, r) /\ s.homes = r.homes
          /\ s.ends[1] = (IF Mark(r) \in g.sources /\ r.ends[1] = g.keep THEN g.merged ELSE r.ends[1])
          /\ s.ends[2] = (IF Mark(r) \in g.targets /\ r.ends[2] = g.keep THEN g.merged ELSE r.ends[2])
      BY <2>2 DEF BackTo
    <3>3. /\ Mark(r) \in g.sources <=> r.homes[1] \in Below(g)
          /\ Mark(r) \in g.targets <=> r.homes[2] \in Below(g)
      BY <1>1 DEF MarkInv, Marked
    <3>4. Stated(s) /\ UpToDate(s) /\ BothExist(s)
      BY <3>1, <3>2 DEF Stated, UpToDate, BothExist, Same
    <3>5. r.homes[1] \in exists /\ r.homes[2] \in exists
      BY <3>1 DEF BothExist
    <3>6. s.ends[1] = Rep(r.homes[1])' /\ s.ends[2] = Rep(r.homes[2])'
      BY <1>1, <3>1, <3>2, <3>3, <3>5
    <3> QED BY <1>2, <3>2, <3>4, <3>6
  <2> QED BY <1>1, <2>1, <2>2
<1>4. ASSUME NEW w \in written, UpToDate(w), BothExist(w), Rep(w.homes[1])' # Rep(w.homes[2])'
      PROVE  \E s \in relations' : Same(s, w)
  <2>1. CASE Rep(w.homes[1]) # Rep(w.homes[2])
    <3>1. PICK r \in relations : Same(r, w)
      BY <1>4, <2>1 DEF ShownInv
    <3>2. PICK s \in relations' : BackTo(s, r, g)
      BY <1>1
    <3> QED BY <3>1, <3>2 DEF BackTo, Same
  <2>2. CASE Rep(w.homes[1]) = Rep(w.homes[2])
    <3>1. w.homes[1] \in exists /\ w.homes[2] \in exists
      BY <1>4 DEF BothExist
    <3>2. /\ Rep(w.homes[1]) = g.keep /\ Rep(w.homes[2]) = g.keep
          /\ \/ w.homes[1] \in Below(g) /\ w.homes[2] \notin Below(g)
             \/ w.homes[2] \in Below(g) /\ w.homes[1] \notin Below(g)
      BY <1>1, <1>4, <2>2, <3>1
    <3>3. \A k \in {1, 2} : w.homes[k] \in Below(g) \/ Beside(i, w.homes[k])
      BY <3>1, <3>2, UnderKeep
    <3>4. Joined(i, w)
      BY <1>1, <3>2, <3>3 DEF Joined
    <3>5. PICK r \in g.dropped : Same(r, w)
      BY <1>1, <1>4, <3>4 DEF DropInv
    <3>6. UpToDate(r)
      BY <1>4, <3>5 DEF Same, UpToDate
    <3>7. {r.ends[1], r.ends[2]} \subseteq exists
      BY <1>1
    <3>8. r \in Restored(g)
      BY <3>6, <3>7 DEF Restored, UpToDate
    <3> QED BY <1>1, <3>5, <3>8
  <2> QED BY <2>1, <2>2
<1> QED BY <1>1, <1>2, <1>3, <1>4 DEF ShownInv, Same

LEMMA UndoneMarks ==
  ASSUME GraphTypes, TreeInv, MergeInv, MarkInv, DropInv, LaterInv,
         NEW g, NEW i, Undone(g, i), InOrder(g, i)
  PROVE  MarkInv'
<1>1. /\ i \in DOMAIN merges /\ g = merges[i] /\ g.open /\ DOMAIN merges' = DOMAIN merges
      /\ DOMAIN merges \subseteq Nat /\ written' = written
      /\ \A j \in DOMAIN merges : /\ Twin(merges[j], merges'[j])
                                  /\ merges'[j].open <=> merges[j].open /\ j # i
      /\ \A s \in relations' : s \in Restored(g) \/ \E r \in relations : BackTo(s, r, g)
  BY DEF Undone
<1>2. ASSUME NEW h \in DOMAIN merges', merges'[h].open, NEW s \in relations' PROVE Marked(merges'[h], s)
  <2>1. PICK x : x = merges[h]
    OBVIOUS
  <2>2. h \in DOMAIN merges /\ h # i /\ x.open /\ Twin(x, merges'[h])
    BY <1>1, <1>2, <2>1
  <2>3. Marked(x, s)
    <3>1. ASSUME NEW r \in relations, BackTo(s, r, g) PROVE Marked(x, s)
      <4>1. Mark(s) = Mark(r) /\ s.homes = r.homes
        BY <3>1, MarkSame DEF BackTo
      <4>2. Marked(x, r)
        BY <2>1, <2>2 DEF MarkInv
      <4> QED BY <4>1, <4>2 DEF Marked
    <3>2. CASE s \in Restored(g)
      <4>1. s \in g.dropped
        BY <3>2 DEF Restored
      <4>2. CASE h < i
        BY <1>1, <2>1, <2>2, <4>1, <4>2 DEF LaterInv
      <4>3. CASE i < h
        <5>1. /\ Mark(s) \notin x.sources /\ Mark(s) \notin x.targets
              /\ s.homes[1] \in Below(x) \/ s.homes[2] \in Below(x) => g.keep \in Below(x)
          BY <1>1, <2>1, <2>2, <4>1, <4>3 DEF LaterInv
        <5>2. g.keep \notin Below(x)
          BY <2>1, <2>2, UndoneRows
        <5> QED BY <5>1, <5>2 DEF Marked
      <4>4. h \in Nat /\ i \in Nat
        BY <1>1, <2>2
      <4> QED BY <2>2, <4>2, <4>3, <4>4
    <3> QED BY <1>1, <3>1, <3>2
  <2> QED BY <2>2, <2>3 DEF Marked, Twin, Alike, Below
<1>3. ASSUME NEW h \in DOMAIN merges', merges'[h].open, NEW k \in merges'[h].sources \cup merges'[h].targets
      PROVE  \E w \in written' : k = Mark(w)
  BY <1>1, <1>3 DEF MarkInv, Twin
<1> QED BY <1>2, <1>3 DEF MarkInv, Marked, Mark, Below

LEMMA UndoneDrops ==
  ASSUME GraphTypes, TreeInv, MergeInv, DropInv, NEW g, NEW i, Undone(g, i), InOrder(g, i)
  PROVE  DropInv'
<1>1. /\ DOMAIN merges' = DOMAIN merges /\ exists' = exists /\ written' = written /\ cut' = cut
      /\ \A j \in DOMAIN merges : Twin(merges[j], merges'[j])
  BY DEF Undone
<1>2. \A r : /\ UpToDate(r)' <=> UpToDate(r)
             /\ BothExist(r)' <=> BothExist(r)
             /\ Stated(r)' <=> Stated(r)
  BY <1>1 DEF UpToDate, BothExist, Stated, Same
<1>3. ASSUME NEW h \in DOMAIN merges', merges'[h].open
      PROVE  /\ \A w \in written' : UpToDate(w)' /\ BothExist(w)' /\ Joined(h, w)'
                                      => \E r \in merges'[h].dropped : Same(r, w)
             /\ \A r \in merges'[h].dropped :
                  /\ Stated(r)' /\ BothExist(r)' /\ Joined(h, r)'
                  /\ r.ends[1] = Side(merges'[h], r.homes[1]) /\ r.ends[2] = Side(merges'[h], r.homes[2])
  <2>1. h \in DOMAIN merges
    BY <1>1, <1>3
  <2>2. merges[h].open /\ \A r : Joined(h, r)' <=> Joined(h, r)
    BY <1>3, <2>1, UndoneBeside
  <2>3. /\ merges'[h].dropped = merges[h].dropped
        /\ \A e : Side(merges'[h], e) = Side(merges[h], e)
    BY <1>1, <2>1 DEF Twin, Alike, Side, Below
  <2>4. /\ \A w \in written : UpToDate(w) /\ BothExist(w) /\ Joined(h, w) => \E r \in merges[h].dropped : Same(r, w)
        /\ \A r \in merges[h].dropped :
             /\ Stated(r) /\ BothExist(r) /\ Joined(h, r)
             /\ r.ends[1] = Side(merges[h], r.homes[1]) /\ r.ends[2] = Side(merges[h], r.homes[2])
    BY <2>1, <2>2 DEF DropInv
  <2> QED BY <1>1, <1>2, <2>2, <2>3, <2>4
<1> QED BY <1>3 DEF DropInv, Same, Side, Below

LEMMA UndoneLater ==
  ASSUME LaterInv, NEW g, NEW i, Undone(g, i)
  PROVE  LaterInv'
<1>1. /\ DOMAIN merges' = DOMAIN merges
      /\ \A j \in DOMAIN merges : /\ Twin(merges[j], merges'[j])
                                  /\ merges'[j].open <=> merges[j].open /\ j # i
  BY DEF Undone
<1> SUFFICES ASSUME NEW h \in DOMAIN merges', NEW j \in DOMAIN merges', h < j, merges'[h].open, merges'[j].open
             PROVE /\ \A r \in merges'[j].dropped : Marked(merges'[h], r)
                   /\ \A r \in merges'[h].dropped :
                        /\ Mark(r) \notin merges'[j].sources /\ Mark(r) \notin merges'[j].targets
                        /\ r.homes[1] \in Below(merges'[j]) \/ r.homes[2] \in Below(merges'[j])
                             => merges'[h].keep \in Below(merges'[j])
  BY DEF LaterInv, Marked, Below, Mark
<1>2. /\ h \in DOMAIN merges /\ merges[h].open /\ Twin(merges[h], merges'[h])
      /\ j \in DOMAIN merges /\ merges[j].open /\ Twin(merges[j], merges'[j])
  BY <1>1
<1>3. /\ \A r \in merges[j].dropped : Marked(merges[h], r)
      /\ \A r \in merges[h].dropped :
           /\ Mark(r) \notin merges[j].sources /\ Mark(r) \notin merges[j].targets
           /\ r.homes[1] \in Below(merges[j]) \/ r.homes[2] \in Below(merges[j])
                => merges[h].keep \in Below(merges[j])
  BY <1>2 DEF LaterInv
<1>4. /\ merges'[j].dropped = merges[j].dropped /\ merges'[j].sources = merges[j].sources
      /\ merges'[j].targets = merges[j].targets /\ Below(merges'[j]) = Below(merges[j])
      /\ merges'[h].dropped = merges[h].dropped /\ merges'[h].keep = merges[h].keep
      /\ \A r : Marked(merges'[h], r) <=> Marked(merges[h], r)
  BY <1>2 DEF Twin, Alike, Below, Marked
<1> QED BY <1>3, <1>4

LEMMA UndoneNames ==
  ASSUME GraphTypes, TreeInv, MergeInv, StackInv, NameInv, NEW g, NEW i, Undone(g, i), InOrder(g, i)
  PROVE  NameInv'
<1>1. /\ i \in DOMAIN merges /\ g = merges[i] /\ g.open /\ g.keep \in exists /\ g.merged \in exists
      /\ exists' = exists /\ canonical' = canonical /\ g.keep # g.merged
      /\ DOMAIN merges' = DOMAIN merges
      /\ aliases' = [aliases EXCEPT ![g.keep] = @ \ g.names]
      /\ \A e \in exists : Rep(e)' = IF e \in Below(g) THEN g.merged ELSE Rep(e)
      /\ \A j \in DOMAIN merges : Twin(merges[j], merges'[j])
  BY DEF Undone
<1>2. exists \subseteq Entities
  BY LiveNumbers
<1>3. /\ \A e \in exists \ {g.keep} : aliases'[e] = aliases[e]
      /\ \A k : k \in aliases[g.keep] /\ k \notin g.names => k \in aliases'[g.keep]
  BY <1>1, <1>2 DEF GraphTypes
<1>4. \A e \in exists : Rep(e) \in exists /\ (canonical[e] = canonical[Rep(e)] \/ canonical[e] \in aliases[Rep(e)])
  BY RepLive DEF NameInv
<1>5. /\ \A e \in exists : e # g.keep /\ Beside(i, e) => canonical[e] \notin g.names
      /\ \A e \in exists : e \in Below(g) => canonical[e] = canonical[g.merged] \/ canonical[e] \in aliases[g.merged]
  BY <1>1 DEF NameInv
<1>6. ASSUME NEW e \in exists' PROVE canonical'[e] = canonical'[Rep(e)'] \/ canonical'[e] \in aliases'[Rep(e)']
  <2>1. CASE e \in Below(g)
    BY <1>1, <1>3, <1>5, <2>1
  <2>2. CASE e \notin Below(g)
    <3>1. Rep(e)' = Rep(e) /\ e \in exists
      BY <1>1, <2>2
    <3>2. CASE Rep(e) # g.keep
      BY <1>1, <1>3, <1>4, <3>1, <3>2
    <3>3. CASE Rep(e) = g.keep
      <4>1. Beside(i, e)
        BY <2>2, <3>1, <3>3, UnderKeep
      <4>2. e # g.keep => canonical[e] \notin g.names
        BY <1>5, <3>1, <4>1
      <4> QED BY <1>1, <1>3, <1>4, <3>1, <3>3, <4>2
    <3> QED BY <3>2, <3>3
  <2> QED BY <2>1, <2>2
<1>7. ASSUME NEW h \in DOMAIN merges', merges'[h].open
      PROVE  /\ \A e \in exists' : e # merges'[h].keep /\ Beside(h, e)' => canonical'[e] \notin merges'[h].names
             /\ \A e \in exists' : e \in Below(merges'[h])
                  => canonical'[e] = canonical'[merges'[h].merged] \/ canonical'[e] \in aliases'[merges'[h].merged]
  <2>1. PICK x : x = merges[h]
    OBVIOUS
  <2>2. h \in DOMAIN merges /\ Twin(x, merges'[h])
    BY <1>1, <1>7, <2>1
  <2>3. x.open /\ \A e : Beside(h, e)' <=> Beside(h, e)
    BY <1>7, <2>1, <2>2, UndoneBeside
  <2>4. /\ merges'[h].keep = x.keep /\ merges'[h].merged = x.merged
        /\ merges'[h].names = x.names /\ Below(merges'[h]) = Below(x)
    BY <2>2 DEF Twin, Alike, Below
  <2>5. /\ \A e \in exists : e # x.keep /\ Beside(h, e) => canonical[e] \notin x.names
        /\ \A e \in exists : e \in Below(x) => canonical[e] = canonical[x.merged] \/ canonical[e] \in aliases[x.merged]
    BY <2>1, <2>2, <2>3 DEF NameInv
  <2>6. x.merged \in exists
    BY <2>1, <2>2, <2>3 DEF MergeInv, Holds
  <2>7. x.merged # g.keep
    BY <2>1, <2>2, <2>3, UndoneRows
  <2> QED BY <1>1, <1>3, <2>3, <2>4, <2>5, <2>6, <2>7
<1> QED BY <1>6, <1>7 DEF NameInv, Below

LEMMA UndoUndo ==
  ASSUME GraphInv, UndoInv, NEW i \in DOMAIN merges, Undo(i)
  PROVE  UndoInv'
<1>1. GraphTypes /\ TreeInv /\ MergeInv
  BY DEF GraphInv
<1>2. StackInv /\ StatedInv /\ (~tangled => RelationsInv /\ NameInv)
  BY DEF UndoInv
<1>3. UNCHANGED <<written, created, cut, resolvedChunks>>
  BY DEF Undo
<1>4. PICK g \in MergeRows : Undone(g, i) /\ (~tangled' => ~tangled /\ InOrder(g, i))
  BY <1>1, UndoLeaves
<1>5. StackInv' /\ StatedInv'
  BY <1>1, <1>2, <1>3, <1>4, UndoneStack, StatedKept
<1>6. ASSUME ~tangled' PROVE RelationsInv' /\ NameInv'
  <2>1. ShownInv /\ MarkInv /\ DropInv /\ LaterInv /\ NameInv /\ InOrder(g, i)
    BY <1>2, <1>4, <1>6 DEF RelationsInv
  <2>2. ShownInv' /\ MarkInv' /\ DropInv'
    BY <1>1, <1>2, <1>4, <2>1, UndoneShown, UndoneMarks, UndoneDrops
  <2>3. LaterInv' /\ NameInv'
    BY <1>1, <1>2, <1>4, <2>1, UndoneLater, UndoneNames
  <2> QED BY <2>2, <2>3 DEF RelationsInv
<1> QED BY <1>5, <1>6 DEF UndoInv

LEMMA UndoStep ==
  ASSUME GraphInv, UndoInv, [GraphNext]_graphVars
  PROVE  UndoInv'
<1>1. ASSUME NEW c \in Chunks, Look(c) \/ ResolveFails(c) PROVE UndoInv'
  BY <1>1, LookUndo
<1>2. ASSUME NEW c \in Chunks, Recut(c) PROVE UndoInv'
  BY <1>2, RecutUndo
<1>3. ASSUME NEW c \in Chunks, DeleteMeeting(c) PROVE UndoInv'
  BY <1>3, DeleteMeetingUndo
<1>4. ASSUME NEW c \in Chunks, NEW proposed \in {{}} \cup {{e} : e \in Live}, ResolveChunk(c, proposed) PROVE UndoInv'
  <2>1. proposed \in SUBSET Live
    OBVIOUS
  <2> QED BY <1>4, <2>1, ResolveUndo
<1>5. CASE SweepUnmentioned
  BY <1>5, SweepUndo
<1>6. ASSUME NEW keep \in Live, NEW merged \in Live, Merge(keep, merged) PROVE UndoInv'
  BY <1>6, MergeUndo
<1>7. ASSUME NEW i \in 1 .. Len(merges), Undo(i) PROVE UndoInv'
  <2>1. i \in DOMAIN merges
    BY DEF GraphInv, GraphTypes
  <2> QED BY <1>7, <2>1, UndoUndo
<1>8. ASSUME NEW e \in Live, NEW n \in Names, Rename(e, n) PROVE UndoInv'
  BY <1>8, RenameUndo
<1>9. ASSUME NEW e \in Live, RemoveEntity(e) PROVE UndoInv'
  BY <1>9, RemoveUndo
<1>10. ASSUME NEW s \in suggestions, RejectSuggestion(s) PROVE UndoInv'
  BY <1>10, LookUndo
<1>11. CASE UNCHANGED graphVars
  BY <1>11, LookUndo
<1> QED BY <1>1, <1>2, <1>3, <1>4, <1>5, <1>6, <1>7, <1>8, <1>9, <1>10, <1>11 DEF GraphNext

LEMMA ShownAsStated ==
  ASSUME GraphTypes, TreeInv, StatedInv, ShownInv
  PROVE  Shown = Expected
<1> DEFINE W == {w \in written : w.cite[2] = cut[w.cite[1]] /\ {w.homes[1], w.homes[2]} \subseteq exists}
           View(r) == [cite |-> r.cite, pair |-> r.pair, ends |-> r.ends]
<1>1. \A w : w \in W <=> w \in written /\ UpToDate(w) /\ BothExist(w)
  BY DEF UpToDate, BothExist
<1>2. \A q : q \in Expected <=> \E w \in W : q = Relation(w) /\ q.ends[1] # q.ends[2]
  BY DEF Expected
<1>3. \A q : q \in Shown <=> \E r \in relations : q = View(r)
  BY DEF Shown
<1>4. \A w : /\ Relation(w).ends[1] = Rep(w.homes[1]) /\ Relation(w).ends[2] = Rep(w.homes[2])
  BY DEF Relation
<1>5. ASSUME NEW r \in relations, NEW w \in written, Same(r, w), r.homes = w.homes
      PROVE  View(r) = Relation(w) /\ Rep(w.homes[1]) # Rep(w.homes[2])
  <2>1. PICK a \in Entities, b \in Entities : r.ends = <<a, b>>
    BY DEF GraphTypes, Relations
  <2>2. r.ends[1] = Rep(w.homes[1]) /\ r.ends[2] = Rep(w.homes[2]) /\ r.ends[1] # r.ends[2]
    BY <1>5 DEF ShownInv, TreeInv
  <2>3. r.ends = <<Rep(w.homes[1]), Rep(w.homes[2])>>
    BY <2>1, <2>2
  <2> QED BY <1>5, <2>2, <2>3 DEF Same, Relation
<1> HIDE DEF W, View
<1>6. ASSUME NEW q \in Shown PROVE q \in Expected
  <2>1. PICK r \in relations : q = View(r)
    BY <1>3
  <2>2. Stated(r) /\ UpToDate(r) /\ BothExist(r)
    BY DEF ShownInv
  <2>3. PICK w \in written : Same(r, w) /\ r.homes = w.homes
    BY <2>2 DEF Stated
  <2>4. w \in W
    BY <1>1, <2>2, <2>3 DEF UpToDate, BothExist, Same
  <2> QED BY <1>2, <1>4, <1>5, <2>1, <2>3, <2>4
<1>7. ASSUME NEW q \in Expected PROVE q \in Shown
  <2>1. PICK w \in W : q = Relation(w) /\ q.ends[1] # q.ends[2]
    BY <1>2
  <2>2. w \in written /\ UpToDate(w) /\ BothExist(w) /\ Rep(w.homes[1]) # Rep(w.homes[2])
    BY <1>1, <1>4, <2>1
  <2>3. PICK r \in relations : Same(r, w)
    BY <2>2 DEF ShownInv
  <2>4. r.homes = w.homes
    <3>1. Stated(r) /\ Stated(w)
      BY <2>2 DEF ShownInv, Stated, Same
    <3> QED BY <2>3, <3>1, StatedOnce
  <2> QED BY <1>3, <1>5, <2>1, <2>2, <2>3, <2>4
<1> QED BY <1>6, <1>7

\* As long as merges into one entity are undone latest first, what merges, undos, renames, removals,
\* re-cut chunks and deleted meetings leave is what the transcripts state: a relation dropped because
\* a merge would have related an entity to itself is shown again once the undo has parted its sides, every
\* other one went back with the side it came from, and no merged name is lost
\* (EntityMergeService.mergeOne, undo; US-40).
THEOREM UndoRestoresInOrderCorrect == GraphSpec => []UndoRestoresInOrder
<1>1. GraphInit => GraphInv /\ UndoInv
  BY GraphStart, UndoStart
<1>2. GraphInv /\ UndoInv /\ [GraphNext]_graphVars => GraphInv' /\ UndoInv'
  BY GraphStep, UndoStep
<1>3. GraphInv /\ UndoInv => UndoRestoresInOrder
  <2> SUFFICES ASSUME GraphInv, UndoInv, ~tangled PROVE UndoRestores
    BY DEF UndoRestoresInOrder
  <2>1. GraphTypes /\ TreeInv /\ StatedInv /\ ShownInv /\ NameInv
    BY DEF GraphInv, UndoInv, RelationsInv
  <2>2. Shown = Expected
    BY <2>1, ShownAsStated
  <2> QED BY <2>1, <2>2 DEF NameInv, UndoRestores
<1> QED BY <1>1, <1>2, <1>3, PTL DEF GraphSpec

=============================================================================

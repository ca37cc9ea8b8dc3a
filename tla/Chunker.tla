------------------------------- MODULE Chunker -------------------------------
(***************************************************************************)
(* How a transcript is cut into chunks (chunker.ts): greedily up to a      *)
(* token target, ending early at a long pause, each chunk repeating a      *)
(* little of the one before; and how it is cut again after a correction,   *)
(* keeping every boundary.  A line is what the algorithm sees of a         *)
(* segment: its tokens and the pause before it.                            *)
(***************************************************************************)
EXTENDS Integers, FiniteSetsExt, Sequences

CONSTANTS
  NLines,       \* lines of the transcript
  Sizes,        \* token counts of a line
  Pauses,       \* lengths of the pause before a line
  Target,       \* targetTokens
  OverlapPct,   \* overlapRatio, in percent
  MinBoundPct,  \* minBoundaryRatio, in percent
  LongPause     \* longPauseMs

ASSUME ChunkerAssumption ==
  /\ NLines \in Nat \ {0} /\ Sizes \subseteq Nat \ {0} /\ Pauses \subseteq Nat
  /\ Target \in Nat \ {0} /\ LongPause \in Nat \ {0}
  /\ OverlapPct \in 0..99 /\ MinBoundPct \in 1..100

Lines == 1..NLines

\* The tokens of the lines i..j.
Tokens(line, i, j) ==
  LET upTo[n \in 0..NLines] == IF n < i THEN 0 ELSE upTo[n - 1] + line[n].tokens
  IN upTo[j]

BadFillEnd_OneMore(line, start, last) ==
  Max({start} \cup {e \in start..last : Tokens(line, start, e - 1) <= Target})

\* The longest run of lines from `start` that fits the target; one line always does.
FillEnd(line, start, last) ==
  Max({start} \cup {e \in start..last : Tokens(line, start, e) <= Target})

\* In the last part of the window, end at the first of the longest pauses.
PreferPause(line, start, end) ==
  LET candidates == {k \in start..end : 100 * Tokens(line, start, k) >= Target * MinBoundPct}
      longest == Max({0} \cup {line[k + 1].pause : k \in candidates})
  IN IF longest >= LongPause
     THEN Min({k \in candidates : line[k + 1].pause = longest})
     ELSE end

ChunkEnd(line, start, last) ==
  LET end == FillEnd(line, start, last)
  IN IF end < last THEN PreferPause(line, start, end) ELSE end

\* Step back over what fits the overlap, never as far as the start of the chunk.
OverlapStart(line, start, end) ==
  Min({n \in (start + 1)..(end + 1) :
         100 * Tokens(line, n, end) <= OverlapPct * Tokens(line, start, end)})

\* chunkSegments of the lines from..last
ChunkSegments(line, from, last) ==
  LET chunksFrom[start \in 1..(NLines + 1)] ==
        IF start > last THEN <<>>
        ELSE LET end == ChunkEnd(line, start, last) IN
             <<<<start, end>>>> \o
             (IF end >= last THEN <<>> ELSE chunksFrom[OverlapStart(line, start, end)])
  IN chunksFrom[from]

BadRechunkWithinRanges_Only(line, ranges, last) == ranges

\* rechunkWithinRanges: the ranges stay, lines past the last are cut afresh.
RechunkWithinRanges(line, ranges, last) ==
  ranges \o ChunkSegments(line, ranges[Len(ranges)][2] + 1, last)

-----------------------------------------------------------------------------
VARIABLES
  lines,     \* the transcript
  uploaded,  \* how many of its lines have arrived
  cuts,      \* the ranges of the last chunk step, in order
  chunked,   \* history: how many lines it read
  fullCut    \* history: it cut the whole transcript afresh, and no line changed since

chunkerVars == <<lines, uploaded, cuts, chunked, fullCut>>

ChunkerInit ==
  /\ lines \in [Lines -> [tokens : Sizes, pause : Pauses]]
  /\ uploaded \in Lines
  /\ cuts = <<>> /\ chunked = 0 /\ fullCut = FALSE

\* chunk-step.handler.ts run(): ranges are only read, and kept, on a changed run.
ChunkStep(changed) ==
  /\ fullCut' = (~changed \/ cuts = <<>>)
  /\ cuts' = IF fullCut' THEN ChunkSegments(lines, 1, uploaded)
             ELSE RechunkWithinRanges(lines, cuts, uploaded)
  /\ chunked' = uploaded
  /\ UNCHANGED <<lines, uploaded>>

\* A correction changes the length of a line, between the chunk steps of two runs.
Correct(k, size) ==
  /\ fullCut /\ k <= uploaded
  /\ lines' = [lines EXCEPT ![k].tokens = size]
  /\ fullCut' = FALSE
  /\ UNCHANGED <<uploaded, cuts, chunked>>

\* Lines that arrive behind the last one.
LateLines ==
  /\ cuts # <<>> /\ uploaded < NLines
  /\ uploaded' = NLines /\ fullCut' = FALSE
  /\ UNCHANGED <<lines, cuts, chunked>>

ChunkerNext ==
  \/ \E changed \in BOOLEAN : ChunkStep(changed)
  \/ \E k \in Lines, size \in Sizes : Correct(k, size)
  \/ LateLines

ChunkerSpec == ChunkerInit /\ [][ChunkerNext]_chunkerVars

-----------------------------------------------------------------------------
(* Properties *)

\* Every line is in a chunk, chunks follow the transcript and each starts after
\* the one before: what module TranscriptFreshness takes for granted of a cutting,
\* and why the loop of chunkSegments ends.
CutsCoverTranscript ==
  cuts # <<>> =>
    /\ 1..chunked = UNION {cuts[i][1]..cuts[i][2] : i \in DOMAIN cuts}
    /\ \A i \in 1..(Len(cuts) - 1) :
         /\ cuts[i][1] < cuts[i + 1][1] /\ cuts[i][2] <= cuts[i + 1][2]
         /\ cuts[i + 1][1] <= cuts[i][2] + 1

\* A fresh cut stays within what an embedding call takes: no chunk of several lines
\* is over the target, and what two neighbours share is at most the overlap's share
\* of the first.
CutsKeepBudget ==
  fullCut =>
    /\ \A i \in DOMAIN cuts :
         cuts[i][1] < cuts[i][2] => Tokens(lines, cuts[i][1], cuts[i][2]) <= Target
    /\ \A i \in 1..(Len(cuts) - 1) :
         100 * Tokens(lines, cuts[i + 1][1], cuts[i][2])
           <= OverlapPct * Tokens(lines, cuts[i][1], cuts[i][2])

\* What the chunk step leaves, whatever was corrected or arrived late before it.
CutsAreSound == CutsCoverTranscript /\ CutsKeepBudget
=============================================================================

------------------------------- MODULE Answers -------------------------------
(***************************************************************************)
(* Questions about meetings (qa.service.ts, retriever.ts,                  *)
(* context-builder.ts, answer-generator.ts, qa-history.ts): what an answer *)
(* may cite and what a citation still shows later, while transcripts are   *)
(* re-cut, meetings deleted and threads cleared between the awaits.        *)
(*                                                                         *)
(* How close a passage is to a question is the model's to say: a ranking   *)
(* is any order of the passages in scope.  Thread 0 is the global one.     *)
(***************************************************************************)
EXTENDS Integers, Sequences, FiniteSets, SequencesExt

CONSTANTS
  Talks,         \* meetings, numbered from 1 in the order of their dates
  Spots,         \* chunks of a meeting, each as long as its number
  MaxRows,       \* bound: chunk rows ever inserted
  ContextBudget, \* CONTEXT_TOKEN_BUDGET, in tokens
  Asks           \* bound: questions

ASSUME AnswersAssumption ==
  Talks \subseteq Nat \ {0} /\ MaxRows \in Nat /\ Spots \subseteq Nat /\ IsFiniteSet(Spots)

VARIABLES
  passages, \* meeting_chunks: [id, talk, place, text, ready]; ready with an embedding
  rowIds,   \* ids given so far
  texts,    \* texts[t][s]: how often the lines of chunk s were corrected
  gone,     \* deleted meetings
  asking,   \* asking[a]: [st, thread, found]: what was retrieved, in the order of the prompt
  threads   \* qa_messages: [thread, ask, cites], answers with their citations [id, talk, place, text]

answerVars == <<passages, rowIds, texts, gone, asking, threads>>

Threads == {0} \union Talks
AnswersTypeOK ==
  /\ rowIds \in 0..MaxRows /\ gone \subseteq Talks
  /\ \A p \in passages : p.id \in 1..rowIds /\ p.talk \in Talks /\ p.place \in Spots
  /\ \A a \in Asks :
       /\ asking[a].thread \in Threads
       /\ asking[a].st \in {"none", "embedding", "answering", "answered", "refused"}

AnswersInit ==
  /\ passages = {} /\ rowIds = 0 /\ texts = [t \in Talks |-> [s \in Spots |-> 0]] /\ gone = {} /\ threads = {}
  /\ asking = [a \in Asks |-> [st |-> "none", thread |-> 0, found |-> <<>>]]

MeetingThere(t) == t \notin gone
InScope(thread) == {p \in passages : p.ready /\ MeetingThere(p.talk) /\ thread \in {0, p.talk}}
------------------------------------------------------------------------------
(* What happens to the passages meanwhile.                                 *)

Fresh(t) ==
  {[id |-> rowIds + Cardinality({q \in Spots : q <= s}), talk |-> t, place |-> s,
    text |-> texts[t][s], ready |-> FALSE] : s \in Spots}
Stale(t) == {p \in passages : p.talk = t /\ p.text # texts[t][p.place]}

BadRechunked_InPlace(t) ==
  {IF p \in Stale(t) THEN [p EXCEPT !.text = texts[t][p.place], !.ready = FALSE] ELSE p : p \in passages}
  \union {f \in Fresh(t) : \A p \in passages : p.talk # t}

\* What has none of the new hashes is deleted, what has a new one inserted.
Rechunked(t) ==
  (passages \ Stale(t))
  \union {f \in Fresh(t) : \A p \in passages \ Stale(t) : p.talk # t \/ p.place # f.place}

Chunk(t) ==
  /\ MeetingThere(t) /\ rowIds + Cardinality(Spots) <= MaxRows
  /\ passages' = Rechunked(t) /\ passages' # passages
  /\ rowIds' = rowIds + Cardinality(Spots)
  /\ UNCHANGED <<texts, gone, asking, threads>>
Embed(t) ==
  /\ \E p \in passages : p.talk = t /\ ~p.ready
  /\ passages' = {IF p.talk = t THEN [p EXCEPT !.ready = TRUE] ELSE p : p \in passages}
  /\ UNCHANGED <<rowIds, texts, gone, asking, threads>>
CorrectText(t) ==
  /\ MeetingThere(t) /\ \E s \in Spots : texts[t][s] < 1 /\ texts' = [texts EXCEPT ![t][s] = @ + 1]
  /\ UNCHANGED <<passages, rowIds, gone, asking, threads>>
\* The cascade takes the meeting's chunks and its thread; the global thread keeps its answers.
DeleteTalk(t) ==
  /\ MeetingThere(t) /\ gone' = gone \union {t}
  /\ passages' = {p \in passages : p.talk # t}
  /\ threads' = {m \in threads : m.thread # t}
  /\ UNCHANGED <<rowIds, texts, asking>>
------------------------------------------------------------------------------
(* Asking.                                                                 *)

\* assertMeetingReady, then the thread is read and the question embedded.
AskQuestion(a, thread) ==
  /\ asking[a].st = "none"
  /\ asking' = [asking EXCEPT ![a] =
                  [st |-> IF thread # 0 /\ InScope(thread) = {} THEN "refused" ELSE "embedding",
                   thread |-> thread, found |-> <<>>]]
  /\ UNCHANGED <<passages, rowIds, texts, gone, threads>>

\* buildContext: best first, what still fits; one passage always does.
Fits(ranking, n, used) == n = 1 \/ used + ranking[n].place <= ContextBudget
Kept(ranking) ==
  LET used[n \in 0..Len(ranking)] ==
        IF n = 0 THEN 0
        ELSE used[n - 1] + (IF Fits(ranking, n, used[n - 1]) THEN ranking[n].place ELSE 0)
  IN {ranking[n] : n \in {k \in DOMAIN ranking : Fits(ranking, k, used[k - 1])}}
\* Presented in meeting and transcript order: the label is the position.
Precedes(p, q) == p.talk < q.talk \/ (p.talk = q.talk /\ p.place < q.place)
InOrder(found) == \A i, j \in DOMAIN found : i < j => Precedes(found[i], found[j])

Retrieve(a) ==
  /\ asking[a].st = "embedding"
  /\ \E ranking \in SetToSeqs(InScope(asking[a].thread)) :
       \E found \in SetToSeqs(Kept(ranking)) :
         /\ InOrder(found)
         /\ asking' = [asking EXCEPT ![a] = [st |-> "answering", thread |-> @.thread, found |-> found]]
  /\ UNCHANGED <<passages, rowIds, texts, gone, threads>>

\* parseAnswer: labels back to passages, unknown ones dropped; nothing close, nothing cited.
Cited(found, labels) == {found[l] : l \in labels \intersect DOMAIN found}

\* Question and answer are stored in one transaction; a deleted meeting has no thread any more.
\* After three unusable replies nothing is stored.
AnswerStored(a) ==
  /\ asking[a].st = "answering"
  /\ \E labels \in SUBSET (1..(Cardinality(Talks) * Cardinality(Spots))) :
       LET m == [thread |-> asking[a].thread, ask |-> a,
                 cites |-> {[id |-> p.id, talk |-> p.talk, place |-> p.place, text |-> p.text]
                             : p \in Cited(asking[a].found, labels)}]
       IN IF asking[a].thread \in gone
          THEN asking' = [asking EXCEPT ![a].st = "refused"] /\ UNCHANGED threads
          ELSE asking' = [asking EXCEPT ![a].st = "answered"] /\ threads' = threads \union {m}
  /\ UNCHANGED <<passages, rowIds, texts, gone>>
NoAnswer(a) ==
  /\ asking[a].st \in {"embedding", "answering"} /\ asking' = [asking EXCEPT ![a].st = "refused"]
  /\ UNCHANGED <<passages, rowIds, texts, gone, threads>>

ClearThread(thread) ==
  /\ \E m \in threads : m.thread = thread
  /\ threads' = {m \in threads : m.thread # thread}
  /\ UNCHANGED <<passages, rowIds, texts, gone, asking>>

AnswersNext ==
  \/ \E t \in Talks : Chunk(t) \/ Embed(t) \/ CorrectText(t) \/ DeleteTalk(t)
  \/ \E a \in Asks : \/ \E thread \in Threads : AskQuestion(a, thread)
                     \/ Retrieve(a) \/ AnswerStored(a) \/ NoAnswer(a)
  \/ \E thread \in Threads : ClearThread(thread)
AnswersSpec == AnswersInit /\ [][AnswersNext]_answerVars
------------------------------------------------------------------------------
\* readThread: a citation is available while its chunk is.
Available(c) == \E p \in passages : p.id = c.id /\ MeetingThere(p.talk)

(* A citation shown as available leads to the passage the model answered   *)
(* from, and to the meeting the question was about, whatever was corrected,*)
(* re-cut, asked again or deleted meanwhile: an old one is "marked         *)
(* unavailable instead of leading to the wrong place" (qa-history.ts:23).  *)
CitationsLead ==
  \A m \in threads : \A c \in m.cites :
    /\ m.thread \in {0, c.talk} /\ m.thread \notin gone
    /\ Available(c) => \E p \in passages :
         [id |-> p.id, talk |-> p.talk, place |-> p.place, text |-> p.text] = c
=============================================================================

----------------------------- MODULE LiveStream -----------------------------
(***************************************************************************)
(* One user's recognition stream over Gemini Live on the server            *)
(* (stt-live-session.ts, stt-live-leg.ts, stt-seam-filter.ts,              *)
(* stt-audio-ring-buffer.ts): sessions ("legs") that are rotated before    *)
(* Gemini ends them, reopened when they drop, replayed the last audio, and *)
(* whose first words are matched against what was already delivered.       *)
(*                                                                         *)
(* A frame of audio holds one word and words are numbered as spoken.  What *)
(* runs without an await in between is one action.                         *)
(***************************************************************************)
EXTENDS Integers, Sequences, FiniteSets, SequencesExt

CONSTANTS
  MaxWords,      \* bound: words spoken
  MaxSeams,      \* bound: rotations and recoveries
  RingWords,     \* words the ring buffer holds
  OverlapWords,  \* words replayed into the session that takes over
  SeamWords,     \* delivered words a seam is matched against
  FreshMatch,    \* MIN_FRESH_MATCH
  ShortestText   \* bound: words in the shortest text Gemini sends

Legs == 1..3  \* enough for the active leg, the one it replaces and one being opened

ASSUME LiveAssumption ==
  /\ {MaxWords, MaxSeams, RingWords, OverlapWords, SeamWords, ShortestText} \subseteq Nat
  /\ OverlapWords <= RingWords /\ RingWords <= SeamWords
  /\ FreshMatch \in 1..2 /\ FreshMatch <= ShortestText

VARIABLES
  legs,      \* legs[l].st: "none", "opening", "open", "dropped" (its close event is on its way) or "closed"
  active,    \* the leg audio goes to, 0 while one is reopened
  retiring,  \* the leg a rotation waits for, 0 otherwise
  working,   \* "none", "rotating", "flushing" or "recovering"
  livePhase, \* "starting", "running", "stopping", "flushing" (the last words) or "disposed"
  soon,      \* a recovery started less than RECOVER_MIN_GAP_MS ago
  said,      \* words pushed; the ring buffer holds the last of them
  seamsLeft,
  seam,      \* [out, expected, engaged]: texts delivered, and the armed filter (<<>> when it is not)
  oldLeg     \* [words, spoke]: what the leg closed last may still say, and whether a closed leg spoke

liveVars == <<legs, active, retiring, working, livePhase, soon, said, seamsLeft, seam, oldLeg>>

Leg(st, mute) == [st |-> st, heard |-> <<>>, pending |-> <<>>, held |-> <<>>, mute |-> mute]
NoLeg == Leg("none", FALSE)
Closed(g) == [g EXCEPT !.st = "closed"]
Alive(l) == legs[l].st \in {"open", "dropped"}
Opening(lg, mute) ==
  LET l == CHOOSE k \in Legs : lg[k].st = "none"
  IN [lg EXCEPT ![l] = Leg("opening", mute)]
Lesser(a, b) == IF a < b THEN a ELSE b

\* The newest n words still in RAM.
Replay(n) == [i \in 1..Lesser(n, said) |-> said - Lesser(n, said) + i]

LiveTypeOK ==
  /\ \A l \in Legs : /\ legs[l].st \in {"none", "opening", "open", "dropped", "closed"}
                     /\ legs[l].heard \in Seq(1..MaxWords) /\ legs[l].pending \in Seq(1..MaxWords)
  /\ {active, retiring} \subseteq {0} \union Legs /\ said \in 0..MaxWords /\ oldLeg.words \in Seq(1..MaxWords)
  /\ working \in {"none", "rotating", "flushing", "recovering"}
  /\ livePhase \in {"starting", "running", "stopping", "flushing", "disposed"}

LiveInit ==
  /\ legs = [l \in Legs |-> IF l = 1 THEN Leg("opening", FALSE) ELSE NoLeg]
  /\ active = 0 /\ retiring = 0 /\ working = "none" /\ livePhase = "starting" /\ soon = FALSE
  /\ said = 0 /\ seamsLeft = MaxSeams /\ seam = [out |-> <<>>, expected |-> <<>>, engaged |-> FALSE]
  /\ oldLeg = [words |-> <<>>, spoke |-> FALSE]

------------------------------------------------------------------------------
(* The seam filter.                                                        *)

\* How many words of text repeat the expected tail from position i on.
Aligned(s, text, i) ==
  LET n == Lesser(Len(s.expected) - i + 1, Len(text))
  IN IF /\ n >= (IF s.engaged THEN 1 ELSE FreshMatch)
        /\ SubSeq(text, 1, n) = SubSeq(s.expected, i, i + n - 1) THEN n ELSE 0
Places(s, text) ==
  {i \in DOMAIN s.expected : (s.engaged => i = 1) /\ Aligned(s, text, i) > 0}

FilterFinal(s, text) ==
  IF Places(s, text) = {} THEN [s EXCEPT !.expected = <<>>, !.out = @ \o text]
  ELSE LET i == CHOOSE p \in Places(s, text) : \A q \in Places(s, text) : p <= q
           n == Aligned(s, text, i)
       IN [out |-> s.out \o SubSeq(text, n + 1, Len(text)),
           expected |-> SubSeq(s.expected, i + n, Len(s.expected)), engaged |-> TRUE]

TailWords(s) == SubSeq(s.out, Len(s.out) - Lesser(SeamWords, Len(s.out)) + 1, Len(s.out))
BadBegin_NotArmed(s) == s

Begin(s) == [s EXCEPT !.expected = TailWords(s), !.engaged = FALSE]

\* A partial that never became a final is kept as one.
LegSettled(s, g) == IF g.pending = <<>> \/ livePhase = "disposed" THEN s ELSE FilterFinal(s, g.pending)
------------------------------------------------------------------------------
(* Sessions.                                                               *)

Dispose(lg) ==
  /\ legs' = [l \in Legs |-> IF lg[l].st = "opening" THEN lg[l] ELSE NoLeg]
  /\ livePhase' = "disposed" /\ working' = "none" /\ active' = 0 /\ retiring' = 0

\* recover: the dead leg is settled and reopened; a second drop too soon is fatal.
Recover(lg, dead, s) ==
  /\ seam' = LegSettled(s, lg[dead])
  /\ IF soon THEN Dispose(lg) /\ UNCHANGED soon
     ELSE /\ legs' = Opening([lg EXCEPT ![dead] = NoLeg], FALSE)
          /\ active' = 0 /\ retiring' = 0 /\ working' = "recovering" /\ soon' = TRUE
          /\ UNCHANGED livePhase

FirstOpened ==
  /\ livePhase = "starting" /\ legs[1].st = "opening"
  /\ \/ legs' = [legs EXCEPT ![1].st = "open"] /\ active' = 1 /\ livePhase' = "running"
     \/ legs' = [legs EXCEPT ![1] = NoLeg] /\ livePhase' = "disposed" /\ UNCHANGED active
  /\ UNCHANGED <<retiring, working, soon, said, seamsLeft, seam, oldLeg>>

\* push: the ring hears every frame, a socket that is gone does not.
PushAudio ==
  /\ livePhase = "running" /\ said < MaxWords
  /\ said' = said + 1
  /\ IF active # 0 /\ legs[active].st = "open"
     THEN legs' = [legs EXCEPT ![active].heard = Append(@, said + 1)]
     ELSE UNCHANGED legs
  /\ UNCHANGED <<active, retiring, working, livePhase, soon, seamsLeft, seam, oldLeg>>

\* Gemini sends a text: an interim of all it heard since the last final, or a final.  Of the
\* interims held back in a row only the last is kept: it replaces the others.
Interim(l) ==
  /\ legs[l].st = "open" /\ Len(legs[l].heard) >= ShortestText
  /\ LET g == legs[l]
         after == IF g.held # <<>> /\ Last(g.held)[1] = "partial" THEN Front(g.held) ELSE g.held
     IN legs' = [legs EXCEPT ![l] = IF g.mute THEN [g EXCEPT !.held = Append(after, <<"partial", g.heard>>)]
                                              ELSE [g EXCEPT !.pending = g.heard]]
  /\ legs' # legs
  /\ UNCHANGED <<active, retiring, working, livePhase, soon, said, seamsLeft, seam, oldLeg>>
LiveFinal(l) ==
  /\ legs[l].st = "open"
  /\ \E n \in ShortestText..Len(legs[l].heard) :
       LET text == SubSeq(legs[l].heard, 1, n)
           left == SubSeq(legs[l].heard, n + 1, Len(legs[l].heard))
       IN IF legs[l].mute
          THEN /\ legs' = [legs EXCEPT ![l].heard = left, ![l].held = Append(@, <<"final", text>>)]
               /\ UNCHANGED seam
          ELSE /\ legs' = [legs EXCEPT ![l].heard = left, ![l].pending = <<>>]
               /\ seam' = FilterFinal(seam, text)
  /\ UNCHANGED <<active, retiring, working, livePhase, soon, said, seamsLeft, oldLeg>>

\* The socket dies now; onClose runs later.
Drop(l) ==
  /\ legs[l].st = "open" /\ legs' = [legs EXCEPT ![l].st = "dropped"]
  /\ UNCHANGED <<active, retiring, working, livePhase, soon, said, seamsLeft, seam, oldLeg>>
BadOnClose_Swallowed(l) ==
  /\ legs[l].st = "dropped" /\ legs' = [legs EXCEPT ![l] = Closed(@)]
  /\ UNCHANGED <<active, retiring, working, livePhase, soon, said, seamsLeft, seam, oldLeg>>

OnClose(l) ==
  /\ legs[l].st = "dropped"
  /\ IF livePhase = "running" /\ l = active /\ working = "none"
     THEN seamsLeft > 0 /\ seamsLeft' = seamsLeft - 1 /\ Recover([legs EXCEPT ![l] = Closed(@)], l, seam)
     ELSE /\ legs' = [legs EXCEPT ![l] = Closed(@)]
          /\ UNCHANGED <<active, retiring, working, livePhase, soon, seamsLeft, seam>>
  /\ UNCHANGED <<said, oldLeg>>

\* The poll timer or goAway.
RotateLeg ==
  /\ livePhase = "running" /\ working = "none"
  /\ seamsLeft > 0 /\ seamsLeft' = seamsLeft - 1
  /\ legs' = Opening(legs, TRUE)
  /\ working' = "rotating"
  /\ UNCHANGED <<active, retiring, livePhase, soon, said, seam, oldLeg>>

\* What the new leg said while it was held back, delivered in order.
Delivered(to, e) ==
  IF livePhase = "disposed" THEN to
  ELSE IF e[1] = "partial" THEN [to EXCEPT !.pending = e[2]]
  ELSE [seam |-> FilterFinal(to.seam, e[2]), pending |-> <<>>]
Release(s, held) ==
  LET after[n \in 0..Len(held)] ==
        IF n = 0 THEN [seam |-> s, pending |-> <<>>] ELSE Delivered(after[n - 1], held[n])
  IN after[Len(held)]

\* The end of rotate: the old leg is closed, the new one may speak, and is reopened if it died meanwhile.
\* What the old leg has not made a final of may still arrive while its socket closes.
TakeOver(lg, old, new, s) ==
  LET rel == Release(Begin(s), lg[new].held)
      done == [lg EXCEPT ![old] = NoLeg,
                         ![new] = [@ EXCEPT !.mute = FALSE, !.held = <<>>, !.pending = rel.pending]]
  IN /\ oldLeg' = [oldLeg EXCEPT !.words = IF lg[old].st = "open" THEN lg[old].heard ELSE <<>>]
     /\ IF lg[new].st = "closed" THEN Recover(done, new, rel.seam)
        ELSE /\ legs' = done /\ seam' = rel.seam /\ active' = new /\ retiring' = 0 /\ working' = "none"
             /\ UNCHANGED <<livePhase, soon>>

RotateOpened(l) ==
  /\ working = "rotating" /\ legs[l].st = "opening"
  /\ LET lg == [legs EXCEPT ![l].st = "open", ![l].heard = Replay(OverlapWords)]
     IN IF legs[active].st = "closed" THEN TakeOver(lg, active, l, seam)
        ELSE /\ legs' = lg /\ active' = l /\ retiring' = active /\ working' = "flushing"
             /\ UNCHANGED <<livePhase, soon, seam, oldLeg>>
  /\ UNCHANGED <<said, seamsLeft>>

\* The old leg settled its last words, closed, or flushMs passed.
RotateFlushed ==
  /\ working = "flushing"
  /\ TakeOver(legs, retiring, active, LegSettled(seam, legs[retiring]))
  /\ UNCHANGED <<said, seamsLeft>>

\* onText asks nothing of the leg: a final of one that is closed is filtered and delivered as any other.
LateFinal ==
  /\ livePhase # "disposed"
  /\ \E n \in ShortestText..Len(oldLeg.words) :
       /\ seam' = FilterFinal(seam, SubSeq(oldLeg.words, 1, n))
       /\ oldLeg' = [words |-> SubSeq(oldLeg.words, n + 1, Len(oldLeg.words)), spoke |-> TRUE]
  /\ UNCHANGED <<legs, active, retiring, working, livePhase, soon, said, seamsLeft>>

RecoverOpened(l) ==
  /\ working = "recovering" /\ legs[l].st = "opening"
  /\ legs' = [legs EXCEPT ![l].st = "open", ![l].heard = Replay(RingWords)]
  /\ active' = l /\ working' = "none" /\ seam' = Begin(seam)
  /\ UNCHANGED <<retiring, livePhase, soon, seamsLeft, said, oldLeg>>

\* A rotation that cannot open keeps the old leg; anything else that cannot open ends the stream.
LegOpenFails(l) ==
  /\ livePhase # "starting" /\ working \in {"rotating", "recovering"} /\ legs[l].st = "opening"
  /\ LET lg == [legs EXCEPT ![l] = NoLeg]
     IN IF working = "rotating" /\ legs[active].st # "closed"
        THEN legs' = lg /\ working' = "none" /\ UNCHANGED <<active, retiring, livePhase>>
        ELSE Dispose(lg)
  /\ UNCHANGED <<soon, said, seamsLeft, seam, oldLeg>>

BadOpenedTooLate_LeftOpen(l) ==
  /\ livePhase = "disposed" /\ legs[l].st = "opening"
  /\ legs' = [legs EXCEPT ![l].st = "open"]
  /\ UNCHANGED <<active, retiring, working, livePhase, soon, said, seamsLeft, seam, oldLeg>>

\* A leg that opens, or fails to, after the stream was disposed is closed at once.
OpenedTooLate(l) ==
  /\ livePhase = "disposed" /\ legs[l].st = "opening"
  /\ legs' = [legs EXCEPT ![l] = NoLeg]
  /\ UNCHANGED <<active, retiring, working, livePhase, soon, said, seamsLeft, seam, oldLeg>>

Elapse ==
  /\ soon /\ soon' = FALSE
  /\ UNCHANGED <<legs, active, retiring, working, livePhase, said, seamsLeft, seam, oldLeg>>

\* stop: the work in progress first, then the last words of the active leg, then dispose.
Stop ==
  /\ livePhase = "running" /\ livePhase' = IF working = "none" THEN "flushing" ELSE "stopping"
  /\ UNCHANGED <<legs, active, retiring, working, soon, said, seamsLeft, seam, oldLeg>>
StopFlush ==
  /\ livePhase = "stopping" /\ working = "none"
  /\ IF active # 0 /\ legs[active].st # "closed"
     THEN livePhase' = "flushing" /\ UNCHANGED <<legs, active, retiring, working>>
     ELSE Dispose(legs)
  /\ UNCHANGED <<soon, said, seamsLeft, seam, oldLeg>>
StopDone ==
  /\ livePhase = "flushing" /\ seam' = LegSettled(seam, legs[active]) /\ Dispose(legs)
  /\ UNCHANGED <<soon, said, seamsLeft, oldLeg>>

\* SttStream.finish: the client is gone, was replaced, or was refused more.
Disposed ==
  /\ livePhase # "disposed" /\ Dispose(legs) /\ UNCHANGED <<soon, said, seamsLeft, seam, oldLeg>>

LiveNext ==
  \/ FirstOpened \/ PushAudio \/ RotateLeg \/ RotateFlushed \/ LateFinal \/ Elapse
  \/ Stop \/ StopFlush \/ StopDone \/ Disposed
  \/ \E l \in Legs : \/ Interim(l) \/ LiveFinal(l) \/ Drop(l) \/ OnClose(l) \/ RotateOpened(l)
                     \/ RecoverOpened(l) \/ LegOpenFails(l) \/ OpenedTooLate(l)

LiveSpec == LiveInit /\ [][LiveNext]_liveVars
------------------------------------------------------------------------------
(* A stream that runs has a session whose end it will hear of, or is       *)
(* waiting for one that is opening: no close event is swallowed by the     *)
(* work it arrived during and no work waits for nothing, so a stream is    *)
(* never silently deaf and stop always ends (stt-live-session.ts:58,       *)
(* 124-140, 169).                                                          *)
NeverDeaf ==
  /\ livePhase = "running" /\ working = "none" => active # 0 /\ Alive(active)
  /\ working \in {"rotating", "recovering"} => \E l \in Legs : legs[l].st = "opening"

(* Every open Live session is the active one or the one a rotation waits   *)
(* for, and none survives the stream, whatever was opening when it ended:  *)
(* sessions are billed by the second (stt-live-session.ts:74-97).          *)
NoStraySession == \A l \in Legs : Alive(l) => livePhase # "disposed" /\ l \in {active, retiring}

(* What the transcript is meant to be: as long as it is exact it goes on   *)
(* in the order spoken; the first finals of a new session are matched      *)
(* against what was already delivered (stt-live-session.ts:14-15), so that *)
(* what it says again goes back at most the one word a seam may take for a *)
(* coincidence (stt-seam-filter.ts:20, 36).  A late final breaks it: it    *)
(* uses up the filter that is armed for the words replayed.                *)
FirstFinalsMatched ==
  \A n \in 1..(Len(seam.out) - 1) :
    (\A i \in 1..n : seam.out[i] = i) => seam.out[n + 1] >= n

(* Across rotations, drops, replays and texts that were held back, that is *)
(* what the client gets, in every stream in which no session speaks after  *)
(* it was closed.                                                          *)
SpokenOrder == ~oldLeg.spoke => FirstFinalsMatched
=============================================================================

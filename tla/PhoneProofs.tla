---------------------------- MODULE PhoneProofs ----------------------------
(***************************************************************************)
(* Theorems about the phone while it records: the recognition loop         *)
(* (Recognition) and the recording session (RecordingControl).             *)
(***************************************************************************)
EXTENDS Recognition, RecordingControl, TLAPS

------------------------------------------------------------------------------
(* Recognition.                                                            *)

EngineEvents ==
  [type : {"start", "error", "end"}] \cup
  [type : {"gap"}, ms : Nat] \cup
  [type : {"partial", "final"}, n : Nat, up : Nat]

IsResult(e) == e.type \in {"partial", "final"}
Results == {i \in DOMAIN events : IsResult(events[i])}

RecogTypes ==
  /\ recogMode \in {"on_device", "server"}
  /\ control \in {"off", "listening", "draining", "silent"} /\ listens \in Nat
  /\ loop \in [running : BOOLEAN, ended : BOOLEAN, awaiting : BOOLEAN, died : BOOLEAN, diedAt : Nat]
  /\ timer \in {"none", "startTimeout", "errorWait", "backoff"}
  /\ engine \in {"off", "starting", "on", "stopping"}
  /\ utterance \in Nat /\ heard \in Nat /\ sessions \in Nat
  /\ downTime \in Nat /\ loop.diedAt <= downTime
  /\ events \in Seq(EngineEvents)
  /\ lastPartial \in [n : Nat, up : Nat] /\ pendingGap \in Nat
  /\ saved \in Seq([n : Nat, up : Nat, gap : BOOLEAN, listen : Nat])

\* The loop's flags and its timer; a `start` on its way is the first event, and on the phone one that
\* was asked for.
LoopInv ==
  /\ ~loop.running => loop.ended /\ timer = "none"
  /\ loop.running /\ loop.ended => timer = "backoff"
  /\ timer = "backoff" => loop.running /\ loop.ended
  /\ ~loop.ended /\ loop.awaiting => timer # "none"
  /\ control # "listening" => ~loop.running
  /\ engine = "starting" => loop.ended \/ loop.awaiting
  /\ \A i \in DOMAIN events : events[i].type = "start" =>
       /\ i = 1 /\ engine # "starting"
       /\ recogMode = "on_device" => loop.ended \/ loop.awaiting

\* A loop without a timer, or about to lose it to a `start`, has an engine or will hear of its end.
EndIsNear ==
  (loop.running /\ timer = "none") \/ ~NoStartOnItsWay =>
    engine # "off" \/ \E i \in DOMAIN events : events[i].type \in {"end", "error"}

ListeningInv == RecogTypes /\ LoopInv /\ EndIsNear

\* Results that will count: of a session the loop listens to, or is about to.
Heeded == Listened \/ ~NoStartOnItsWay

\* Results come in the order of speech and a final closes its utterance.
EventsInOrder ==
  /\ utterance <= heard
  /\ engine \in {"off", "starting"} => utterance = 0
  /\ \A i \in Results :
       /\ 0 < events[i].n /\ events[i].n <= heard
       /\ utterance # 0 => events[i].n <= utterance
       /\ utterance # 0 /\ events[i].type = "final" => events[i].n # utterance
  /\ \A i, j \in Results : i < j =>
       events[i].n <= events[j].n /\ (events[i].type = "final" => events[i].n # events[j].n)

\* Only a session the loop listens to leaves half a sentence, of the utterance that comes next.
HalfSaid ==
  /\ loop.ended \/ loop.awaiting => lastPartial = Silence
  /\ lastPartial # Silence =>
       /\ 0 < lastPartial.n /\ lastPartial.n <= heard
       /\ \A k \in DOMAIN saved : saved[k].n < lastPartial.n
       /\ \A i \in Results : lastPartial.n <= events[i].n
       /\ utterance # 0 => lastPartial.n <= utterance

\* What counts is not saved yet.
NewsOnly ==
  /\ \A k \in DOMAIN saved : saved[k].n <= heard
  /\ Heeded => \A k \in DOMAIN saved :
       /\ \A i \in Results : saved[k].n < events[i].n
       /\ utterance # 0 => saved[k].n < utterance

SpeechInv == EventsInOrder /\ HalfSaid /\ NewsOnly

OrderInv == ListeningInv /\ SavedOnce /\ (recogMode = "on_device" => SpeechInv)

\* How long recognition was down since the last segment's session is in pendingGap, or, after a
\* death, counted since then.
Counted ==
  (saved # <<>> /\ loop.running /\ saved[Len(saved)].listen = listens) =>
    LET accounted == saved[Len(saved)].up + pendingGap IN
    IF Listened THEN downTime <= accounted ELSE loop.died /\ loop.diedAt <= accounted

\* What is on its way or half said is the current session's.
DeathInv ==
  /\ \A k \in DOMAIN saved : saved[k].listen <= listens
  /\ \A i \in Results : events[i].up = downTime
  /\ lastPartial # Silence => lastPartial.up = downTime
  /\ Counted

MarksInv == OrderInv /\ DeathsAreMarked /\ (recogMode = "on_device" => DeathInv)

------------------------------------------------------------------------------
(* The loop keeps listening.                                               *)

LEMMA ListeningInit == RecognitionInit => ListeningInv
<1> SUFFICES ASSUME RecognitionInit PROVE ListeningInv
  OBVIOUS
<1>1. RecogTypes
  <2>1. loop \in [running : BOOLEAN, ended : BOOLEAN, awaiting : BOOLEAN, died : BOOLEAN, diedAt : Nat]
    BY DEF RecognitionInit
  <2>2. lastPartial \in [n : Nat, up : Nat]
    BY DEF RecognitionInit, Silence
  <2>3. events \in Seq(EngineEvents)
        /\ saved \in Seq([n : Nat, up : Nat, gap : BOOLEAN, listen : Nat])
    BY DEF RecognitionInit
  <2> QED BY <2>1, <2>2, <2>3 DEF RecognitionInit, RecogTypes
<1>2. LoopInv
  BY DEF RecognitionInit, LoopInv
<1>3. EndIsNear
  BY DEF RecognitionInit, EndIsNear, NoStartOnItsWay
<1> QED BY <1>1, <1>2, <1>3 DEF ListeningInv

HeldTypes ==
  /\ lastPartial \in [n : Nat, up : Nat] /\ pendingGap \in Nat
  /\ saved \in Seq([n : Nat, up : Nat, gap : BOOLEAN, listen : Nat])

LEMMA FinalTypes ==
  ASSUME RecogTypes, NEW what \in [n : Nat, up : Nat], Final(what)
  PROVE  HeldTypes'
<1>1. [n |-> what.n, up |-> what.up, gap |-> pendingGap >= GapMarkMin, listen |-> listens]
        \in [n : Nat, up : Nat, gap : BOOLEAN, listen : Nat]
  BY DEF RecogTypes
<1>2. saved' \in Seq([n : Nat, up : Nat, gap : BOOLEAN, listen : Nat])
  BY <1>1 DEF Final, Saved, RecogTypes
<1> QED BY <1>2 DEF Final, Silence, HeldTypes

LEMMA FlushTypes ==
  ASSUME RecogTypes, Flush
  PROVE  HeldTypes'
<1>1. CASE lastPartial # Silence
  BY <1>1, FinalTypes DEF Flush, RecogTypes
<1>2. CASE lastPartial = Silence
  BY <1>2 DEF Flush, heldVars, RecogTypes, HeldTypes
<1> QED BY <1>1, <1>2

\* What EndSession does to the loop: a loop that runs is given a timer.
LEMMA EndSessionKeeps ==
  ASSUME RecogTypes, LoopInv, EndSession
  PROVE  /\ loop' \in [running : BOOLEAN, ended : BOOLEAN, awaiting : BOOLEAN, died : BOOLEAN, diedAt : Nat]
         /\ timer' \in {"none", "startTimeout", "errorWait", "backoff"}
         /\ loop'.ended /\ loop'.running = loop.running /\ loop'.awaiting = loop.awaiting
         /\ loop'.diedAt <= downTime
         /\ timer' = IF loop.running THEN "backoff" ELSE "none"
         /\ HeldTypes'
<1>1. CASE loop.ended
  BY <1>1 DEF EndSession, heldVars, RecogTypes, LoopInv, HeldTypes
<1>2. CASE ~loop.ended
  <2>1. loop.running
    BY <1>2 DEF LoopInv, RecogTypes
  <2>2. HeldTypes'
    BY <1>2, <2>1, FlushTypes DEF EndSession
  <2>3. /\ loop' \in [running : BOOLEAN, ended : BOOLEAN, awaiting : BOOLEAN, died : BOOLEAN, diedAt : Nat]
        /\ loop'.ended /\ loop'.running /\ loop'.awaiting = loop.awaiting /\ loop'.diedAt <= downTime
    <3>1. PICK at : at = IF loop.died THEN loop.diedAt ELSE downTime
      OBVIOUS
    <3>2. loop \in [running : BOOLEAN, ended : BOOLEAN, awaiting : BOOLEAN, died : BOOLEAN, diedAt : Nat]
          /\ at \in Nat /\ at <= downTime
      BY <3>1 DEF RecogTypes
    <3>3. loop' = [loop EXCEPT !.ended = TRUE, !.died = TRUE, !.diedAt = at]
      BY <1>2, <2>1, <3>1 DEF EndSession
    <3> QED BY <2>1, <3>2, <3>3
  <2>4. timer' = "backoff"
    BY <1>2, <2>1 DEF EndSession
  <2> QED BY <2>1, <2>2, <2>3, <2>4
<1> QED BY <1>1, <1>2

\* A start() that throws leaves the engine alone and the loop about to try again.
LEMMA ThrownFields ==
  ASSUME LaunchThrows
  PROVE  /\ timer' = "backoff" /\ engine' = engine /\ downTime' = downTime
         /\ loop'.running /\ loop'.ended /\ loop'.awaiting /\ loop'.died
         /\ loop'.diedAt = IF loop.died THEN loop.diedAt ELSE downTime
BY DEF LaunchThrows, engineVars

LEMMA LaunchTypes ==
  ASSUME RecogTypes, Launch
  PROVE  /\ HeldTypes' /\ timer' \in {"none", "startTimeout", "errorWait", "backoff"}
         /\ loop' \in [running : BOOLEAN, ended : BOOLEAN, awaiting : BOOLEAN, died : BOOLEAN, diedAt : Nat]
         /\ loop'.diedAt <= downTime'
         /\ UNCHANGED <<utterance, heard, sessions, downTime>>
         /\ engine' \in {"off", "starting", "on", "stopping"}
<1>1. CASE LaunchSession /\ UNCHANGED heldVars
  BY <1>1 DEF LaunchSession, Started, heldVars, HeldTypes, RecogTypes
<1>2. CASE LaunchThrows
  BY <1>2, FlushTypes DEF LaunchThrows, engineVars, RecogTypes
<1> QED BY <1>1, <1>2 DEF Launch

LEMMA ListenKeeps == ListeningInv /\ Listen => ListeningInv'
<1> SUFFICES ASSUME ListeningInv, Listen PROVE ListeningInv'
  OBVIOUS
<1> USE DEF ListeningInv, Listen, Launch, LaunchSession, Started
<1>l. HeldTypes' /\ timer' \in {"none", "startTimeout", "errorWait", "backoff"} /\ loop'.diedAt <= downTime'
      /\ loop' \in [running : BOOLEAN, ended : BOOLEAN, awaiting : BOOLEAN, died : BOOLEAN, diedAt : Nat]
      /\ UNCHANGED <<utterance, heard, sessions, downTime>>
      /\ engine' \in {"off", "starting", "on", "stopping"}
  BY LaunchTypes
<1>1. RecogTypes'
  BY <1>l, SMTT(60) DEF RecogTypes, HeldTypes
<1>2. LoopInv'
  <2>1. CASE LaunchSession
    BY <2>1 DEF RecogTypes, LoopInv, NoStartOnItsWay
  <2>2. CASE LaunchThrows
    BY <2>2, ThrownFields DEF RecogTypes, LoopInv, NoStartOnItsWay
  <2> QED BY <2>1, <2>2
<1>3. EndIsNear'
  <2>1. CASE LaunchSession
    BY <2>1 DEF RecogTypes, EndIsNear, NoStartOnItsWay
  <2>2. CASE LaunchThrows
    BY <2>2, ThrownFields DEF RecogTypes, EndIsNear, NoStartOnItsWay
  <2> QED BY <2>1, <2>2
<1> QED BY <1>1, <1>2, <1>3

LEMMA DoSilenceKeeps == ListeningInv /\ DoSilence => ListeningInv'
<1> SUFFICES ASSUME ListeningInv, DoSilence PROVE ListeningInv'
  OBVIOUS
<1> USE DEF ListeningInv, DoSilence, StopLoop, Stopped
<1>1. RecogTypes'
  <2>1. CASE recogMode = "server" /\ engineRunning
    BY <2>1 DEF RecogTypes, heldVars
  <2>2. CASE ~(recogMode = "server" /\ engineRunning)
    BY <2>2, FlushTypes DEF RecogTypes, HeldTypes
  <2> QED BY <2>1, <2>2
<1>2. LoopInv'
  BY DEF RecogTypes, LoopInv
<1>3. EndIsNear'
  BY DEF RecogTypes, LoopInv, EndIsNear, NoStartOnItsWay
<1> QED BY <1>1, <1>2, <1>3

LEMMA DrainTimesOutKeeps == ListeningInv /\ DrainTimesOut => ListeningInv'
BY FlushTypes DEF HeldTypes, DrainTimesOut, engineVars, ListeningInv, RecogTypes, LoopInv, EndIsNear,
       NoStartOnItsWay

LEMMA TimerFiresKeeps == ListeningInv /\ TimerFires => ListeningInv'
<1> SUFFICES ASSUME ListeningInv, TimerFires PROVE ListeningInv'
  OBVIOUS
<1>1. CASE timer = "backoff"
  <2>1. Launch /\ UNCHANGED <<recogMode, control, listens, engineRunning, events>>
        /\ RecogTypes /\ LoopInv /\ EndIsNear /\ NoStartOnItsWay
    BY <1>1 DEF TimerFires, ListeningInv
  <2>2. RecogTypes'
    BY <2>1, LaunchTypes DEF RecogTypes, HeldTypes
  <2>3. LoopInv' /\ EndIsNear'
    <3>1. CASE LaunchSession
      BY <1>1, <2>1, <3>1 DEF LaunchSession, Started, RecogTypes, LoopInv, EndIsNear, NoStartOnItsWay
    <3>2. CASE LaunchThrows
      BY <1>1, <2>1, <3>2, ThrownFields DEF RecogTypes, LoopInv, EndIsNear, NoStartOnItsWay
    <3> QED BY <2>1, <3>1, <3>2 DEF Launch
  <2> QED BY <2>2, <2>3 DEF ListeningInv
<1>2. CASE timer # "backoff"
  BY <1>2, EndSessionKeeps DEF HeldTypes, TimerFires, engineVars, ListeningInv, RecogTypes, LoopInv,
              EndIsNear, NoStartOnItsWay
<1> QED BY <1>1, <1>2

\* What the engine does by itself: events are added behind those there are.
LEMMA EmitAdds ==
  ASSUME events \in Seq(EngineEvents), NEW more \in Seq(EngineEvents), Emit(more)
  PROVE  /\ events' \in Seq(EngineEvents)
         /\ Len(events') = Len(events) + Len(more)
         /\ \A i \in DOMAIN events : i \in DOMAIN events' /\ events'[i] = events[i]
         /\ \A i \in DOMAIN events' : i \notin DOMAIN events =>
              i > Len(events) /\ i - Len(events) \in DOMAIN more /\ events'[i] = more[i - Len(events)]
         /\ \A i \in DOMAIN more :
              i + Len(events) \in DOMAIN events' /\ events'[i + Len(events)] = more[i]
BY DEF Emit

\* A step of the engine by itself that adds no `start` and, if the engine goes, an event that says so.
LEMMA EngineKeeps ==
  ASSUME ListeningInv, EngineOnly, NEW more \in Seq(EngineEvents), Emit(more),
         \A i \in DOMAIN more : more[i].type # "start",
         utterance' \in Nat, heard' \in Nat, UNCHANGED <<sessions, downTime>>,
         \/ engine' = engine
         \/ engine' = "stopping"
         \/ engine' = "off" /\ \E i \in DOMAIN more : more[i].type \in {"end", "error"}
  PROVE  ListeningInv'
<1> USE DEF ListeningInv, EngineOnly
<1>0. events \in Seq(EngineEvents)
  BY DEF RecogTypes
<1>1. RecogTypes'
  BY <1>0, EmitAdds DEF RecogTypes, heldVars
<1>2. LoopInv'
  <2>1. \A i \in DOMAIN events' : events'[i].type = "start" => i \in DOMAIN events
    BY <1>0, EmitAdds
  <2>2. \A i \in DOMAIN events' : events'[i].type = "start" =>
          /\ i = 1 /\ engine' # "starting"
          /\ recogMode' = "on_device" => loop'.ended \/ loop'.awaiting
    BY <1>0, <2>1, EmitAdds DEF LoopInv
  <2> QED BY <2>2 DEF LoopInv, RecogTypes
<1>3. EndIsNear'
  <2>1. \A i \in DOMAIN events' : events'[i].type = "start" => i \in DOMAIN events
    BY <1>0, EmitAdds
  <2>2. (~NoStartOnItsWay)' => ~NoStartOnItsWay
    BY <1>0, <2>1, EmitAdds DEF NoStartOnItsWay
  <2>3. (\E i \in DOMAIN events : events[i].type \in {"end", "error"})
          => \E i \in DOMAIN events' : events'[i].type \in {"end", "error"}
    BY <1>0, EmitAdds
  <2>4. CASE engine' = engine
    BY <2>2, <2>3, <2>4 DEF EndIsNear
  <2>5. CASE \E i \in DOMAIN more : more[i].type \in {"end", "error"}
    BY <1>0, <2>5, EmitAdds DEF EndIsNear
  <2>6. CASE engine' = "stopping"
    BY <2>6 DEF EndIsNear
  <2> QED BY <2>4, <2>5, <2>6
<1> QED BY <1>1, <1>2, <1>3

LEMMA EngineUpKeeps == ListeningInv /\ (EngineUp \/ EngineUpAgain) => ListeningInv'
<1> SUFFICES ASSUME ListeningInv, EngineUp \/ EngineUpAgain PROVE ListeningInv'
  OBVIOUS
<1> USE DEF ListeningInv
<1>1. events' = <<[type |-> "start"]>>
  <2>1. CASE EngineUp
    BY <2>1 DEF EngineUp, Emit, RecogTypes
  <2>2. CASE EngineUpAgain
    <3>1. events = <<>> /\ Emit(<<[type |-> "start"]>>)
      BY <2>2 DEF EngineUpAgain, Idle
    <3> QED BY <3>1 DEF Emit
  <2> QED BY <2>1, <2>2
<1>2. RecogTypes'
  <2>1. [type |-> "start"] \in EngineEvents
    BY DEF EngineEvents
  <2>2. events' \in Seq(EngineEvents)
    BY <1>1, <2>1
  <2>3. downTime' \in Nat /\ downTime <= downTime' /\ loop' = loop
    BY RecognitionAssumption DEF EngineUp, EngineUpAgain, EngineOnly, engineVars, RecogTypes
  <2>4. loop'.diedAt <= downTime'
    BY <2>3 DEF RecogTypes
  <2>5. sessions' \in Nat /\ engine' \in {"off", "starting", "on", "stopping"}
        /\ UNCHANGED <<utterance, heard, recogMode, control, listens, timer, engineRunning, heldVars>>
    BY DEF EngineUp, EngineUpAgain, EngineOnly, engineVars, RecogTypes
  <2> QED BY <2>2, <2>3, <2>4, <2>5 DEF heldVars, RecogTypes
<1>3. DOMAIN events' = {1} /\ events'[1].type = "start"
  BY <1>1
<1>4. LoopInv'
  BY <1>3 DEF EngineUp, EngineUpAgain, EngineOnly, engineVars, LoopInv, RecogTypes
<1>5. EndIsNear'
  BY <1>3 DEF EngineUp, EngineUpAgain, engineVars, EndIsNear
<1> QED BY <1>2, <1>4, <1>5

LEMMA ConcatFacts ==
  ASSUME NEW S, NEW s \in Seq(S), NEW t \in Seq(S)
  PROVE  /\ s \o t \in Seq(S) /\ Len(s \o t) = Len(s) + Len(t)
         /\ \A i \in DOMAIN s : i \in DOMAIN (s \o t) /\ (s \o t)[i] = s[i]
         /\ \A i \in DOMAIN (s \o t) : i \notin DOMAIN s =>
              i > Len(s) /\ i - Len(s) \in DOMAIN t /\ (s \o t)[i] = t[i - Len(s)]
OBVIOUS

DyingEvents(last, late) ==
  [i \in DOMAIN last |-> [type |-> last[i]]] \o
    IF late THEN <<[type |-> "final", n |-> utterance, up |-> downTime]>> ELSE <<>>

\* A death is announced first; a last result may follow.
LEMMA DeathIsSaid ==
  ASSUME RecogTypes, NEW last \in Dying, NEW late \in BOOLEAN
  PROVE  LET more == DyingEvents(last, late) IN
         /\ more \in Seq(EngineEvents)
         /\ Len(more) > 0 /\ more[1].type \in {"end", "error"}
         /\ \A i \in DOMAIN more : more[i].type # "start"
         /\ \A i \in DOMAIN more : IsResult(more[i]) =>
              late /\ i = Len(more)
                   /\ more[i] = [type |-> "final", n |-> utterance, up |-> downTime]
<1> DEFINE said == [i \in DOMAIN last |-> [type |-> last[i]]]
           tail == IF late THEN <<[type |-> "final", n |-> utterance, up |-> downTime]>> ELSE <<>>
<1>1. last \in {<<"end">>, <<"error">>, <<"error", "end">>}
  BY DEF Dying
<1>2. Len(last) \in {1, 2} /\ DOMAIN last = 1 .. Len(last)
      /\ \A i \in DOMAIN last : last[i] \in {"end", "error"}
  BY <1>1
<1>3. \A i \in DOMAIN last : [type |-> last[i]] \in EngineEvents
  BY <1>2 DEF EngineEvents
<1>4. said \in Seq(EngineEvents) /\ Len(said) = Len(last) /\ \A i \in DOMAIN said : said[i].type = last[i]
  BY <1>2, <1>3
<1>5. [type |-> "final", n |-> utterance, up |-> downTime] \in EngineEvents
  BY DEF EngineEvents, RecogTypes
<1>6. tail \in Seq(EngineEvents) /\ Len(tail) = (IF late THEN 1 ELSE 0)
      /\ \A i \in DOMAIN tail : late /\ tail[i] = [type |-> "final", n |-> utterance, up |-> downTime]
  BY <1>5
<1>7. DyingEvents(last, late) = said \o tail
  BY DEF DyingEvents
<1> HIDE DEF said, tail
<1>8. /\ said \o tail \in Seq(EngineEvents) /\ Len(said \o tail) = Len(said) + Len(tail)
      /\ \A i \in DOMAIN said : i \in DOMAIN (said \o tail) /\ (said \o tail)[i] = said[i]
      /\ \A i \in DOMAIN (said \o tail) : i \notin DOMAIN said =>
           i > Len(said) /\ i - Len(said) \in DOMAIN tail /\ (said \o tail)[i] = tail[i - Len(said)]
  BY <1>4, <1>6, ConcatFacts
<1>9. \A i \in DOMAIN (said \o tail) :
        \/ i \in DOMAIN said /\ (said \o tail)[i].type \in {"end", "error"}
        \/ i = Len(said) + 1 /\ late /\ Len(tail) = 1
           /\ (said \o tail)[i] = [type |-> "final", n |-> utterance, up |-> downTime]
  BY <1>2, <1>4, <1>6, <1>8
<1>10. 1 \in DOMAIN said /\ said[1].type \in {"end", "error"} /\ Len(said \o tail) > 0
  BY <1>2, <1>4, <1>6, <1>8
<1>11. \A i \in DOMAIN (said \o tail) : (said \o tail)[i].type # "start"
  BY <1>9
<1>12. \A i \in DOMAIN (said \o tail) : IsResult((said \o tail)[i]) =>
         late /\ i = Len(said \o tail)
              /\ (said \o tail)[i] = [type |-> "final", n |-> utterance, up |-> downTime]
  BY <1>8, <1>9 DEF IsResult
<1> QED BY <1>7, <1>8, <1>10, <1>11, <1>12

LEMMA EventKeeps ==
  ASSUME ListeningInv, EngineOnly, NEW e \in EngineEvents, e.type # "start", Emit(<<e>>),
         utterance' \in Nat, heard' \in Nat, UNCHANGED <<sessions, downTime>>, engine' \in {engine, "stopping"}
  PROVE  ListeningInv'
<1> DEFINE more == <<e>>
<1>1. more \in Seq(EngineEvents) /\ \A i \in DOMAIN more : more[i].type # "start"
  OBVIOUS
<1>2. Emit(more)
  OBVIOUS
<1> HIDE DEF more
<1> QED BY <1>1, <1>2, EngineKeeps

LEMMA EngineAloneKeeps ==
  ASSUME ListeningInv,
         \/ EngineHears \/ EngineFinal \/ EngineLoses \/ EngineFails \/ EngineDies \/ EngineComplains
  PROVE  ListeningInv'
<1>0. RecogTypes
  BY DEF ListeningInv
<1>1. CASE EngineHears
  <2>1. PICK interim \in BOOLEAN :
          Emit(IF interim THEN <<[type |-> "partial", n |-> heard + 1, up |-> downTime]>>
                          ELSE <<>>)
    BY <1>1 DEF EngineHears
  <2>2. PICK e : e = [type |-> "partial", n |-> heard + 1, up |-> downTime]
    OBVIOUS
  <2>3. e \in EngineEvents /\ e.type # "start"
    BY <1>0, <2>2 DEF EngineEvents, RecogTypes
  <2>4. EngineOnly /\ utterance' \in Nat /\ heard' \in Nat /\ UNCHANGED <<sessions, downTime>> /\ engine' = engine
    BY <1>0, <1>1 DEF EngineHears, RecogTypes
  <2>5. CASE interim
    <3>1. Emit(<<e>>)
      BY <2>1, <2>2, <2>5
    <3> QED BY <2>3, <2>4, <3>1, EventKeeps
  <2>6. CASE ~interim
    <3> DEFINE none == <<>>
    <3>1. none \in Seq(EngineEvents) /\ Emit(none) /\ \A i \in DOMAIN none : none[i].type # "start"
      BY <2>1, <2>6
    <3> HIDE DEF none
    <3> QED BY <2>4, <3>1, EngineKeeps
  <2> QED BY <2>5, <2>6
<1>2. CASE EngineFinal
  <2>1. PICK e : e = [type |-> "final", n |-> utterance, up |-> downTime]
    OBVIOUS
  <2>2. e \in EngineEvents /\ e.type # "start" /\ Emit(<<e>>)
    BY <1>0, <1>2, <2>1 DEF EngineEvents, RecogTypes, EngineFinal
  <2>3. EngineOnly /\ utterance' \in Nat /\ heard' \in Nat /\ UNCHANGED <<sessions, downTime>> /\ engine' = engine
    BY <1>0, <1>2 DEF EngineFinal, RecogTypes
  <2> QED BY <2>2, <2>3, EventKeeps
<1>3. CASE EngineLoses
  <2>1. PICK ms \in DeadTimes : Emit(<<[type |-> "gap", ms |-> ms]>>)
    BY <1>3 DEF EngineLoses
  <2>e. PICK e : e = [type |-> "gap", ms |-> ms]
    OBVIOUS
  <2>2. e \in EngineEvents /\ e.type # "start" /\ Emit(<<e>>)
    BY <2>1, <2>e, RecognitionAssumption DEF EngineEvents
  <2>3. EngineOnly /\ utterance' \in Nat /\ heard' \in Nat /\ UNCHANGED <<sessions, downTime>> /\ engine' = engine
    BY <1>0, <1>3 DEF EngineLoses, RecogTypes
  <2> QED BY <2>2, <2>3, EventKeeps
<1>4. CASE EngineDies
  <2>1. PICK last \in Dying, late \in BOOLEAN : Emit(DyingEvents(last, late))
    BY <1>4 DEF EngineDies, DyingEvents
  <2> DEFINE more == DyingEvents(last, late)
  <2>2. more \in Seq(EngineEvents) /\ (\E i \in DOMAIN more : more[i].type \in {"end", "error"})
        /\ \A i \in DOMAIN more : more[i].type # "start"
    <3>1. more \in Seq(EngineEvents) /\ Len(more) > 0 /\ more[1].type \in {"end", "error"}
          /\ \A i \in DOMAIN more : more[i].type # "start"
      BY <1>0, DeathIsSaid
    <3> HIDE DEF more
    <3>2. 1 \in DOMAIN more
      BY <3>1
    <3> QED BY <3>1, <3>2
  <2>3. Emit(more)
    BY <2>1
  <2>4. EngineOnly /\ utterance' \in Nat /\ heard' \in Nat /\ UNCHANGED <<sessions, downTime>> /\ engine' = "off"
    BY <1>0, <1>4 DEF EngineDies, RecogTypes
  <2> HIDE DEF more
  <2> QED BY <2>2, <2>3, <2>4, EngineKeeps
<1>5. CASE EngineComplains
  <2>1. PICK e : e = [type |-> "error"]
    OBVIOUS
  <2>2. e \in EngineEvents /\ e.type # "start" /\ Emit(<<e>>)
    BY <1>5, <2>1 DEF EngineEvents, EngineComplains
  <2>3. EngineOnly /\ utterance' \in Nat /\ heard' \in Nat /\ UNCHANGED <<sessions, downTime>> /\ engine' = engine
    BY <1>0, <1>5 DEF EngineComplains, engineVars, RecogTypes
  <2> QED BY <2>2, <2>3, EventKeeps
<1>6. CASE EngineFails
  <2>1. PICK e : e = [type |-> "error"]
    OBVIOUS
  <2>2. e \in EngineEvents /\ e.type # "start" /\ Emit(<<e>>)
    BY <1>6, <2>1 DEF EngineEvents, EngineFails
  <2>3. EngineOnly /\ utterance' \in Nat /\ heard' \in Nat /\ UNCHANGED <<sessions, downTime>> /\ engine' = "stopping"
    BY <1>0, <1>6 DEF EngineFails, RecogTypes
  <2> QED BY <2>2, <2>3, EventKeeps
<1> QED BY <1>1, <1>2, <1>3, <1>4, <1>5, <1>6

\* What delivering the first event leaves on the way.
LEMMA DeliverTakes ==
  ASSUME events \in Seq(EngineEvents), events # <<>>, events' = Tail(events)
  PROVE  /\ 1 \in DOMAIN events /\ Head(events) = events[1] /\ Head(events) \in EngineEvents
         /\ events' \in Seq(EngineEvents)
         /\ \A i \in DOMAIN events' : i + 1 \in DOMAIN events /\ i + 1 # 1 /\ events'[i] = events[i + 1]
         /\ \A i \in DOMAIN events : i # 1 => i - 1 \in DOMAIN events' /\ events'[i - 1] = events[i]
<1>1. Len(events) \in Nat /\ Len(events) > 0 /\ DOMAIN events = 1 .. Len(events)
      /\ \A i \in DOMAIN events : events[i] \in EngineEvents
  OBVIOUS
<1>2. 1 \in DOMAIN events /\ Head(events) = events[1] /\ Head(events) \in EngineEvents
  BY <1>1
<1>3. /\ Tail(events) \in Seq(EngineEvents) /\ Len(Tail(events)) = Len(events) - 1
      /\ \A i \in 1 .. (Len(events) - 1) : Tail(events)[i] = events[i + 1]
  BY <1>1
<1>4. DOMAIN Tail(events) = 1 .. (Len(events) - 1)
  BY <1>1, <1>3
<1> QED BY <1>1, <1>2, <1>3, <1>4

\* Once the first event is gone no `start` is left, and another event's end still is.
LEMMA AfterDeliver ==
  ASSUME ListeningInv, events # <<>>, events' = Tail(events)
  PROVE  /\ \A i \in DOMAIN events' : events'[i].type # "start"
         /\ (\E i \in DOMAIN events : events[i].type \in {"end", "error"})
              /\ Head(events).type \notin {"end", "error"}
              => \E i \in DOMAIN events' : events'[i].type \in {"end", "error"}
<1>0. events \in Seq(EngineEvents)
  BY DEF ListeningInv, RecogTypes
<1>1. \A i \in DOMAIN events : events[i].type = "start" => i = 1
  BY DEF ListeningInv, LoopInv
<1>2. \A i \in DOMAIN events' : events'[i].type # "start"
  BY <1>0, <1>1, DeliverTakes
<1>3. ASSUME NEW i \in DOMAIN events, events[i].type \in {"end", "error"},
             Head(events).type \notin {"end", "error"}
      PROVE  \E j \in DOMAIN events' : events'[j].type \in {"end", "error"}
  BY <1>0, <1>3, DeliverTakes
<1> QED BY <1>2, <1>3

LEMMA DeliverKeeps == ListeningInv /\ Deliver => ListeningInv'
<1> SUFFICES ASSUME ListeningInv, Deliver PROVE ListeningInv'
  OBVIOUS
<1> DEFINE e == Head(events)
<1>0. RecogTypes /\ LoopInv /\ EndIsNear /\ events # <<>> /\ events' = Tail(events)
  BY DEF ListeningInv, Deliver
<1>1. /\ events' \in Seq(EngineEvents) /\ e \in EngineEvents /\ e = events[1] /\ 1 \in DOMAIN events
  BY <1>0, DeliverTakes DEF RecogTypes
<1>2. /\ \A i \in DOMAIN events' : events'[i].type # "start"
      /\ (\E i \in DOMAIN events : events[i].type \in {"end", "error"}) /\ e.type \notin {"end", "error"}
           => \E i \in DOMAIN events' : events'[i].type \in {"end", "error"}
  BY <1>0, AfterDeliver
<1>3. UNCHANGED <<recogMode, listens, engineVars>>
  BY DEF Deliver
<1>4. NoStartOnItsWay'
  BY <1>2 DEF NoStartOnItsWay
<1>5. e.type = "start" => ~NoStartOnItsWay
  BY <1>1 DEF NoStartOnItsWay
<1>6. OnStart(e) \/ OnResult(e) \/ OnGap(e) \/ OnError(e) \/ OnEnd(e)
  BY DEF Deliver
<1> HIDE DEF e
<1>7. CASE OnStart(e)
  <2>0. HeldTypes'
    <3>1. pendingGap' \in Nat
      BY <1>0, <1>7 DEF OnStart, HandleStart, RecogTypes
    <3> QED BY <1>0, <1>7, <3>1 DEF OnStart, HeldTypes, RecogTypes
  <2>1. RecogTypes'
    BY <1>0, <1>1, <1>3, <1>7, <2>0, ZenonT(60) DEF OnStart, HandleStart, RecogTypes, HeldTypes, engineVars
  <2>2. LoopInv'
    <3>1. engine # "starting"
      BY <1>0, <1>1, <1>7 DEF OnStart, LoopInv
    <3> QED BY <1>0, <1>2, <1>3, <1>7, <3>1 DEF OnStart, HandleStart, RecogTypes, LoopInv, engineVars
  <2>3. EndIsNear'
    BY <1>0, <1>2, <1>3, <1>4, <1>5, <1>7
       DEF OnStart, HandleStart, RecogTypes, LoopInv, EndIsNear, engineVars
  <2> QED BY <2>1, <2>2, <2>3 DEF ListeningInv
<1>8. CASE OnResult(e)
  <2>1. e.type \in {"partial", "final"} /\ UNCHANGED <<control, loop, timer, engineRunning>>
    BY <1>8 DEF OnResult
  <2>2. [n |-> e.n, up |-> e.up] \in [n : Nat, up : Nat]
    BY <1>1, <2>1 DEF EngineEvents
  <2>3. HeldTypes'
    <3>1. CASE UNCHANGED heldVars
      BY <1>0, <3>1 DEF heldVars, HeldTypes, RecogTypes
    <3>2. CASE Final([n |-> e.n, up |-> e.up])
      BY <1>0, <2>2, <3>2, FinalTypes
    <3>3. CASE lastPartial' = [n |-> e.n, up |-> e.up] /\ UNCHANGED <<pendingGap, saved>>
      BY <1>0, <2>2, <3>3 DEF HeldTypes, RecogTypes
    <3> QED BY <1>8, <3>1, <3>2, <3>3 DEF OnResult
  <2>4. RecogTypes'
    BY <1>0, <1>1, <1>3, <2>1, <2>3 DEF RecogTypes, engineVars, HeldTypes
  <2>5. LoopInv'
    BY <1>0, <1>2, <1>3, <2>1 DEF LoopInv, engineVars
  <2>6. EndIsNear'
    BY <1>0, <1>2, <1>3, <1>4, <2>1 DEF EndIsNear, engineVars
  <2> QED BY <2>4, <2>5, <2>6 DEF ListeningInv
<1>9. CASE OnGap(e)
  <2>1. RecogTypes'
    <3>1. e.ms \in Nat
      BY <1>1, <1>9 DEF OnGap, EngineEvents
    <3>2. pendingGap' \in Nat
      BY <1>0, <1>9, <3>1 DEF OnGap, RecogTypes
    <3> QED BY <1>0, <1>1, <1>3, <1>9, <3>2 DEF OnGap, RecogTypes, engineVars
  <2>2. LoopInv'
    BY <1>0, <1>2, <1>3, <1>9 DEF OnGap, LoopInv, engineVars
  <2>3. EndIsNear'
    BY <1>0, <1>2, <1>3, <1>4, <1>9 DEF OnGap, EndIsNear, engineVars
  <2> QED BY <2>1, <2>2, <2>3 DEF ListeningInv
<1>10. CASE OnError(e)
  <2>1. RecogTypes'
    BY <1>0, <1>1, <1>3, <1>10 DEF OnError, HandleError, RecogTypes, engineVars, heldVars
  <2>2. LoopInv'
    BY <1>0, <1>2, <1>3, <1>10 DEF OnError, HandleError, LoopInv, engineVars
  <2>3. EndIsNear'
    BY <1>0, <1>2, <1>3, <1>4, <1>10 DEF OnError, HandleError, LoopInv, EndIsNear, engineVars
  <2> QED BY <2>1, <2>2, <2>3 DEF ListeningInv
<1>11. CASE OnEnd(e)
  <2>1. CASE control = "draining"
    <3>1. RecogTypes'
      BY <1>0, <1>1, <1>3, <1>11, <2>1, FlushTypes DEF OnEnd, RecogTypes, engineVars, HeldTypes
    <3>2. LoopInv'
      BY <1>0, <1>2, <1>3, <1>11, <2>1 DEF OnEnd, LoopInv, engineVars
    <3>3. EndIsNear'
      BY <1>0, <1>3, <1>4, <1>11, <2>1 DEF OnEnd, LoopInv, EndIsNear, engineVars
    <3> QED BY <3>1, <3>2, <3>3 DEF ListeningInv
  <2>2. CASE control # "draining"
    <3>1. EndSession /\ UNCHANGED control
      BY <1>11, <2>2 DEF OnEnd
    <3>2. RecogTypes'
      BY <1>0, <1>1, <1>3, <3>1, EndSessionKeeps DEF RecogTypes, engineVars, HeldTypes
    <3>3. LoopInv'
      BY <1>0, <1>2, <1>3, <2>2, <3>1, EndSessionKeeps DEF LoopInv, engineVars
    <3>4. EndIsNear'
      BY <1>0, <1>3, <1>4, <3>1, EndSessionKeeps DEF LoopInv, EndIsNear, engineVars
    <3> QED BY <3>2, <3>3, <3>4 DEF ListeningInv
  <2> QED BY <2>1, <2>2
<1> QED BY <1>6, <1>7, <1>8, <1>9, <1>10, <1>11

LEMMA ListeningStep == ListeningInv /\ [RecognitionNext]_recogVars => ListeningInv'
<1> SUFFICES ASSUME ListeningInv, [RecognitionNext]_recogVars PROVE ListeningInv'
  OBVIOUS
<1>1. CASE UNCHANGED recogVars
  BY <1>1 DEF recogVars, ListeningInv, RecogTypes, LoopInv, EndIsNear, NoStartOnItsWay
<1>2. CASE RecognitionNext
  BY <1>2, ListenKeeps, DoSilenceKeeps, DrainTimesOutKeeps, TimerFiresKeeps, EngineUpKeeps,
     EngineAloneKeeps, DeliverKeeps DEF RecognitionNext
<1> QED BY <1>1, <1>2

(* The loop of recognition never waits for nothing.                        *)
THEOREM KeepsListeningCorrect == RecognitionSpec => []KeepsListening
<1>1. ListeningInv => KeepsListening
  BY DEF ListeningInv, RecogTypes, EndIsNear, KeepsListening
<1> QED BY <1>1, ListeningInit, ListeningStep, PTL DEF RecognitionSpec

------------------------------------------------------------------------------
(* What is saved.                                                          *)

SegmentRecords == [n : Nat, up : Nat, gap : BOOLEAN, listen : Nat]

LEMMA SegmentFields ==
  ASSUME NEW s \in Seq(SegmentRecords)
  PROVE  Len(s) \in Nat /\ DOMAIN s = 1 .. Len(s) /\
         \A k \in DOMAIN s : /\ k \in Nat /\ k >= 1 /\ k <= Len(s) /\ s[k].n \in Nat
                             /\ s[k].up \in Nat /\ s[k].listen \in Nat
<1>1. Len(s) \in Nat /\ DOMAIN s = 1 .. Len(s) /\ \A k \in DOMAIN s : s[k] \in SegmentRecords
  OBVIOUS
<1>2. \A r \in SegmentRecords : r.n \in Nat /\ r.up \in Nat /\ r.listen \in Nat
  BY DEF SegmentRecords
<1> QED BY <1>1, <1>2

LEMMA AppendFacts ==
  ASSUME NEW S, NEW s \in Seq(S), NEW x \in S
  PROVE  /\ Append(s, x) \in Seq(S) /\ Len(Append(s, x)) = Len(s) + 1
         /\ \A k \in DOMAIN s : k \in DOMAIN Append(s, x) /\ Append(s, x)[k] = s[k]
         /\ Len(s) + 1 \in DOMAIN Append(s, x) /\ Append(s, x)[Len(s) + 1] = x
         /\ \A k \in DOMAIN Append(s, x) : k \in DOMAIN s \/ k = Len(s) + 1
OBVIOUS

Segment(what) == [n |-> what.n, up |-> what.up, gap |-> pendingGap >= GapMarkMin, listen |-> listens]

LEMMA FinalAppends ==
  ASSUME RecogTypes, NEW what \in [n : Nat, up : Nat], Final(what)
  PROVE  /\ lastPartial' = Silence /\ pendingGap' = 0
         /\ Segment(what) \in [n : Nat, up : Nat, gap : BOOLEAN, listen : Nat]
         /\ Len(saved') = Len(saved) + 1
         /\ \A k \in DOMAIN saved : k \in DOMAIN saved' /\ saved'[k] = saved[k]
         /\ Len(saved) + 1 \in DOMAIN saved' /\ saved'[Len(saved) + 1] = Segment(what)
         /\ \A k \in DOMAIN saved' : k \in DOMAIN saved \/ k = Len(saved) + 1
<1>1. Segment(what) \in [n : Nat, up : Nat, gap : BOOLEAN, listen : Nat]
  BY DEF Segment, RecogTypes
<1>2. saved' = Append(saved, Segment(what))
  BY DEF Final, Saved, Segment
<1>3. PICK S : S = [n : Nat, up : Nat, gap : BOOLEAN, listen : Nat]
  OBVIOUS
<1>4. saved \in Seq(S)
  BY <1>3 DEF RecogTypes
<1>5. PICK x \in S : x = Segment(what)
  BY <1>1, <1>3
<1>6. /\ Len(Append(saved, x)) = Len(saved) + 1
      /\ \A k \in DOMAIN saved : k \in DOMAIN Append(saved, x) /\ Append(saved, x)[k] = saved[k]
      /\ Len(saved) + 1 \in DOMAIN Append(saved, x) /\ Append(saved, x)[Len(saved) + 1] = x
      /\ \A k \in DOMAIN Append(saved, x) : k \in DOMAIN saved \/ k = Len(saved) + 1
  BY <1>4, AppendFacts
<1>7. lastPartial' = Silence /\ pendingGap' = 0
  BY DEF Final
<1> QED BY <1>1, <1>2, <1>5, <1>6, <1>7

\* A segment that is later than all saved keeps them in order.
LEMMA FinalInOrder ==
  ASSUME RecogTypes, recogMode = "on_device", recogMode' = recogMode, SavedOnce,
         NEW what \in [n : Nat, up : Nat], Final(what),
         \A k \in DOMAIN saved : saved[k].n < what.n
  PROVE  SavedOnce' /\ \A k \in DOMAIN saved' : saved'[k].n <= what.n
<1>0. \A k \in DOMAIN saved : k \in Nat /\ k <= Len(saved) /\ saved[k].n \in Nat
  BY SegmentFields DEF RecogTypes, SegmentRecords
<1>a. Segment(what).n = what.n
  BY DEF Segment
<1>1. \A k \in DOMAIN saved' : (k \in DOMAIN saved /\ saved'[k] = saved[k])
                               \/ (k = Len(saved) + 1 /\ saved'[k].n = what.n)
  BY <1>a, FinalAppends
<1>2. \A k \in DOMAIN saved' : saved'[k].n <= what.n
  BY <1>0, <1>1
<1>3. \A i, j \in DOMAIN saved' : i < j => saved'[i].n < saved'[j].n
  <2> SUFFICES ASSUME NEW i \in DOMAIN saved', NEW j \in DOMAIN saved', i < j
               PROVE  saved'[i].n < saved'[j].n
    OBVIOUS
  <2>0. Len(saved) \in Nat
    BY DEF RecogTypes
  <2>1. i \in DOMAIN saved /\ saved'[i] = saved[i]
    BY <1>0, <1>1, <2>0
  <2>2. CASE j \in DOMAIN saved /\ saved'[j] = saved[j]
    BY <2>1, <2>2 DEF SavedOnce
  <2>3. CASE j = Len(saved) + 1 /\ saved'[j].n = what.n
    BY <2>1, <2>3
  <2> QED BY <1>1, <2>2, <2>3
<1> QED BY <1>2, <1>3 DEF SavedOnce

\* Nothing of the listening is left half said, and nothing is saved twice, when a session is over.
LEMMA FlushInOrder ==
  ASSUME RecogTypes, SpeechInv, recogMode = "on_device", recogMode' = recogMode, SavedOnce, Flush
  PROVE  /\ SavedOnce' /\ lastPartial' = Silence
         /\ lastPartial = Silence => saved' = saved
         /\ \A k \in DOMAIN saved' : saved'[k].n <= heard
<1>1. CASE lastPartial = Silence
  BY <1>1 DEF Flush, heldVars, SavedOnce, SpeechInv, NewsOnly
<1>2. CASE lastPartial # Silence
  <2>1. Final(lastPartial) /\ lastPartial \in [n : Nat, up : Nat]
    BY <1>2 DEF Flush, RecogTypes
  <2>2. (\A k \in DOMAIN saved : saved[k].n < lastPartial.n) /\ lastPartial.n <= heard
    BY <1>2 DEF SpeechInv, HalfSaid
  <2>3. SavedOnce' /\ \A k \in DOMAIN saved' : saved'[k].n <= lastPartial.n
    BY <2>1, <2>2, FinalInOrder
  <2>4. HeldTypes'
    BY FlushTypes
  <2>5. \A k \in DOMAIN saved' : saved'[k].n \in Nat
    BY <2>4, SegmentFields DEF HeldTypes, SegmentRecords
  <2> QED BY <1>2, <2>1, <2>2, <2>3, <2>5 DEF Final, RecogTypes
<1> QED BY <1>1, <1>2

LEMMA OrderInit == RecognitionInit => OrderInv
<1> SUFFICES ASSUME RecognitionInit PROVE OrderInv
  OBVIOUS
<1>1. SavedOnce
  BY DEF RecognitionInit, SavedOnce
<1>2. SpeechInv
  BY DEF RecognitionInit, SpeechInv, EventsInOrder, HalfSaid, NewsOnly, Results
<1> QED BY <1>1, <1>2, ListeningInit DEF OrderInv

\* The facts the steps start from.
Speaking == ListeningInv /\ SavedOnce /\ SpeechInv /\ recogMode = "on_device" /\ recogMode' = recogMode

\* A session is launched: nothing is half said and nothing on its way counts.
LEMMA LaunchInOrder ==
  ASSUME Speaking, Launch, NoStartOnItsWay, lastPartial = Silence, UNCHANGED events
  PROVE  SpeechInv' /\ SavedOnce'
<1> USE DEF Speaking
<1>0. UNCHANGED <<heldVars, utterance, heard>> /\ loop'.awaiting /\ engine' \in {engine, Started}
  <2>1. CASE LaunchSession /\ UNCHANGED heldVars
    BY <2>1 DEF LaunchSession, ListeningInv, RecogTypes
  <2>2. CASE LaunchThrows
    BY <2>2, ThrownFields DEF LaunchThrows, Flush, engineVars
  <2> QED BY <2>1, <2>2 DEF Launch
<1>1. EventsInOrder'
  BY <1>0 DEF Started, SpeechInv, EventsInOrder, Results
<1>2. HalfSaid'
  BY <1>0 DEF heldVars, HalfSaid
<1>4. ~Heeded'
  BY <1>0 DEF Heeded, Listened, NoStartOnItsWay
<1>5. NewsOnly'
  BY <1>0, <1>4 DEF SpeechInv, NewsOnly, heldVars
<1>6. SavedOnce'
  BY <1>0 DEF SavedOnce, heldVars
<1> QED BY <1>1, <1>2, <1>5, <1>6 DEF SpeechInv

\* A session is over: what it had half said is saved.
LEMMA OverInOrder ==
  ASSUME Speaking, Flush, loop'.ended, UNCHANGED <<utterance, heard>>, EventsInOrder',
         events' = events \/ NoStartOnItsWay'
  PROVE  SpeechInv' /\ SavedOnce'
<1> USE DEF Speaking
<1>1. /\ SavedOnce' /\ lastPartial' = Silence
      /\ lastPartial = Silence => saved' = saved
      /\ \A k \in DOMAIN saved' : saved'[k].n <= heard
  BY FlushInOrder DEF ListeningInv
<1>2. HalfSaid'
  BY <1>1 DEF HalfSaid, Silence
<1>3. NewsOnly'
  <2>1. CASE NoStartOnItsWay'
    <3>1. ~Heeded'
      BY <2>1 DEF Heeded, Listened
    <3> QED BY <1>1, <3>1 DEF NewsOnly
  <2>2. CASE events' = events /\ ~NoStartOnItsWay
    <3>1. lastPartial = Silence
      BY <2>2 DEF NoStartOnItsWay, ListeningInv, LoopInv, SpeechInv, HalfSaid
    <3>2. Heeded /\ saved' = saved
      BY <1>1, <2>2, <3>1 DEF Heeded
    <3>3. \A k \in DOMAIN saved' : /\ \A i \in Results' : saved'[k].n < events'[i].n
                                   /\ utterance' # 0 => saved'[k].n < utterance'
      BY <2>2, <3>2 DEF SpeechInv, NewsOnly, Results
    <3> QED BY <1>1, <3>3 DEF NewsOnly
  <2>3. CASE events' = events /\ NoStartOnItsWay
    BY <2>1, <2>3 DEF NoStartOnItsWay
  <2> QED BY <2>1, <2>2, <2>3
<1> QED BY <1>1, <1>2, <1>3 DEF SpeechInv

\* EndSession flushes, or has nothing left to flush.
LEMMA EndSessionFlushes ==
  ASSUME Speaking, EndSession
  PROVE  Flush /\ loop'.ended
<1>1. CASE loop.ended
  BY <1>1 DEF Speaking, EndSession, Flush, SpeechInv, HalfSaid
<1>2. CASE ~loop.ended
  <2>1. loop.running
    BY <1>2 DEF Speaking, ListeningInv, LoopInv
  <2> QED BY <1>2, <2>1 DEF EndSession, Speaking, ListeningInv, RecogTypes
<1> QED BY <1>1, <1>2

LEMMA ControlInOrder ==
  ASSUME Speaking, Listen \/ DoSilence \/ DrainTimesOut \/ TimerFires
  PROVE  SpeechInv' /\ SavedOnce'
<1> USE DEF Speaking
<1>1. CASE Listen
  <2>1. lastPartial = Silence
    BY <1>1 DEF Listen, ListeningInv, LoopInv, SpeechInv, HalfSaid
  <2> QED BY <1>1, <2>1, LaunchInOrder DEF Listen
<1>2. CASE DoSilence
  <2>1. Flush /\ loop'.ended /\ UNCHANGED <<events, utterance, heard>>
    BY <1>2 DEF DoSilence, StopLoop, ListeningInv, RecogTypes
  <2>2. EventsInOrder'
    BY <1>2, <2>1 DEF DoSilence, StopLoop, Stopped, SpeechInv, EventsInOrder, Results
  <2> QED BY <2>1, <2>2, OverInOrder
<1>3. CASE DrainTimesOut
  <2>1. Flush /\ loop'.ended /\ UNCHANGED <<events, utterance, heard, engine>>
    BY <1>3 DEF DrainTimesOut, engineVars, ListeningInv, LoopInv
  <2>2. EventsInOrder'
    BY <2>1 DEF SpeechInv, EventsInOrder, Results
  <2> QED BY <2>1, <2>2, OverInOrder
<1>4. CASE TimerFires
  <2>1. CASE timer = "backoff"
    <3>1. lastPartial = Silence
      BY <2>1 DEF ListeningInv, LoopInv, SpeechInv, HalfSaid
    <3> QED BY <1>4, <2>1, <3>1, LaunchInOrder DEF TimerFires
  <2>2. CASE timer # "backoff"
    <3>1. EndSession /\ UNCHANGED <<events, utterance, heard, engine>>
      BY <1>4, <2>2 DEF TimerFires, engineVars
    <3>2. EventsInOrder'
      BY <3>1 DEF SpeechInv, EventsInOrder, Results
    <3> QED BY <3>1, <3>2, EndSessionFlushes, OverInOrder
  <2> QED BY <2>1, <2>2
<1> QED BY <1>1, <1>2, <1>3, <1>4

LEMMA EventFields ==
  ASSUME NEW s \in Seq(EngineEvents)
  PROVE  Len(s) \in Nat /\ DOMAIN s = 1 .. Len(s) /\
         \A i \in DOMAIN s : IsResult(s[i]) => s[i].n \in Nat /\ s[i].up \in Nat
<1>1. Len(s) \in Nat /\ DOMAIN s = 1 .. Len(s) /\ \A i \in DOMAIN s : s[i] \in EngineEvents
  OBVIOUS
<1>2. \A e \in EngineEvents : IsResult(e) => e.n \in Nat /\ e.up \in Nat
  BY DEF EngineEvents, IsResult
<1> QED BY <1>1, <1>2

LEMMA EngineUpInOrder ==
  ASSUME Speaking, EngineUp
  PROVE  SpeechInv' /\ SavedOnce'
<1> USE DEF Speaking
<1>1. events' = <<[type |-> "start"]>>
  BY DEF EngineUp, Emit, ListeningInv, RecogTypes
<1>2. Results' = {}
  BY <1>1 DEF Results, IsResult
<1>3. utterance' = 0 /\ heard' = heard /\ UNCHANGED <<loop, heldVars>>
  BY DEF EngineUp, EngineOnly, SpeechInv, EventsInOrder
<1>4. EventsInOrder'
  BY <1>2, <1>3 DEF EventsInOrder, ListeningInv, RecogTypes
<1>5. HalfSaid'
  BY <1>2, <1>3 DEF heldVars, SpeechInv, HalfSaid
<1>6. NewsOnly'
  BY <1>2, <1>3 DEF heldVars, SpeechInv, NewsOnly
<1>7. SavedOnce'
  BY <1>3 DEF heldVars, SavedOnce
<1> QED BY <1>4, <1>5, <1>6, <1>7 DEF SpeechInv

\* At most one result is added: of an utterance that begins, or the last of the current one.
OneResult(more) ==
  /\ more \in Seq(EngineEvents) /\ Emit(more)
  /\ \A i \in DOMAIN more : more[i].type # "start"
  /\ \A i, j \in DOMAIN more : IsResult(more[i]) /\ IsResult(more[j]) => i = j
  /\ \A i \in DOMAIN more : IsResult(more[i]) => more[i].up = downTime
  /\ \/ /\ utterance = 0 /\ heard' = heard + 1 /\ utterance' = heard + 1
        /\ \A i \in DOMAIN more : IsResult(more[i]) => more[i].n = heard + 1 /\ more[i].type = "partial"
     \/ /\ heard' = heard /\ utterance' = 0
        /\ \A i \in DOMAIN more : IsResult(more[i]) => more[i].n = utterance /\ utterance # 0
     \/ /\ heard' = heard /\ utterance' = utterance
        /\ \A i \in DOMAIN more : ~IsResult(more[i])

LEMMA EngineInOrder ==
  ASSUME Speaking, EngineOnly, NEW more, OneResult(more),
         engine' \in {"off", "starting"} => utterance' = 0
  PROVE  SpeechInv' /\ SavedOnce'
<1> USE DEF Speaking
<1>0. /\ events \in Seq(EngineEvents) /\ more \in Seq(EngineEvents) /\ utterance \in Nat /\ heard \in Nat
      /\ UNCHANGED <<loop, lastPartial, saved>>
  BY DEF ListeningInv, RecogTypes, OneResult, EngineOnly, heldVars
<1>1. /\ Len(events) \in Nat /\ DOMAIN events = 1 .. Len(events)
      /\ \A i \in Results : events[i].n \in Nat
      /\ \A i \in DOMAIN more : IsResult(more[i]) => more[i].n \in Nat
  BY <1>0, EventFields DEF Results
<1>2. /\ \A i \in DOMAIN events : i \in DOMAIN events' /\ events'[i] = events[i]
      /\ \A i \in DOMAIN events' : i \notin DOMAIN events =>
           i > Len(events) /\ i - Len(events) \in DOMAIN more /\ events'[i] = more[i - Len(events)]
      /\ \A i \in DOMAIN events' : i \in Nat
  <2>1. Emit(more)
    BY DEF OneResult
  <2>2. events' \in Seq(EngineEvents)
    BY <1>0, <2>1, EmitAdds
  <2> QED BY <1>0, <2>1, <2>2, EmitAdds, EventFields
<1>3. \A i \in Results' : \/ i \in Results /\ events'[i] = events[i]
                          \/ /\ i > Len(events) /\ i - Len(events) \in DOMAIN more
                             /\ IsResult(more[i - Len(events)]) /\ events'[i] = more[i - Len(events)]
  BY <1>2 DEF Results
<1>4. \A i, j \in Results' : i < j => i \in Results /\ events'[i] = events[i]
  <2> SUFFICES ASSUME NEW i \in Results', NEW j \in Results', i < j, i > Len(events),
                      i - Len(events) \in DOMAIN more, IsResult(more[i - Len(events)])
               PROVE FALSE
    BY <1>3
  <2>1. j > Len(events) /\ j - Len(events) \in DOMAIN more /\ IsResult(more[j - Len(events)])
    BY <1>1, <1>2, <1>3 DEF Results
  <2>2. i - Len(events) = j - Len(events)
    BY <2>1 DEF OneResult
  <2>3. i \in Nat /\ j \in Nat
    BY <1>2 DEF Results
  <2> QED BY <1>1, <2>2, <2>3
<1>5. \A i \in Results' : IF i \in Results /\ events'[i] = events[i] THEN TRUE
        ELSE \/ heard' = heard + 1 /\ utterance = 0 /\ utterance' = heard + 1 /\ events'[i].n = heard + 1
                /\ events'[i].type = "partial"
             \/ heard' = heard /\ utterance' = 0 /\ utterance # 0 /\ events'[i].n = utterance
  BY <1>3 DEF OneResult
<1>6. EventsInOrder'
  <2>1. utterance' <= heard' /\ heard <= heard' /\ utterance' \in Nat /\ heard' \in Nat
    BY <1>0 DEF OneResult, SpeechInv, EventsInOrder
  <2>2. \A i \in Results' :
       /\ 0 < events'[i].n /\ events'[i].n <= heard'
       /\ utterance' # 0 => events'[i].n <= utterance'
       /\ utterance' # 0 /\ events'[i].type = "final" => events'[i].n # utterance'
    <3> SUFFICES ASSUME NEW i \in Results'
                 PROVE /\ 0 < events'[i].n /\ events'[i].n <= heard'
                       /\ utterance' # 0 => events'[i].n <= utterance'
                       /\ utterance' # 0 /\ events'[i].type = "final" => events'[i].n # utterance'
      OBVIOUS
    <3>1. CASE i \in Results /\ events'[i] = events[i]
      BY <1>0, <1>1, <2>1, <3>1 DEF SpeechInv, EventsInOrder, OneResult
    <3>2. CASE ~(i \in Results /\ events'[i] = events[i])
      BY <1>0, <1>5, <2>1, <3>2 DEF SpeechInv, EventsInOrder
    <3> QED BY <3>1, <3>2
  <2>3. \A i, j \in Results' : i < j =>
       events'[i].n <= events'[j].n /\ (events'[i].type = "final" => events'[i].n # events'[j].n)
    <3> SUFFICES ASSUME NEW i \in Results', NEW j \in Results', i < j
                 PROVE events'[i].n <= events'[j].n
                       /\ (events'[i].type = "final" => events'[i].n # events'[j].n)
      OBVIOUS
    <3>1. i \in Results /\ events'[i] = events[i]
      BY <1>4
    <3>2. CASE j \in Results /\ events'[j] = events[j]
      BY <3>1, <3>2 DEF SpeechInv, EventsInOrder
    <3>3. CASE ~(j \in Results /\ events'[j] = events[j])
      BY <1>0, <1>1, <1>5, <3>1, <3>3 DEF SpeechInv, EventsInOrder
    <3> QED BY <3>2, <3>3
  <2> QED BY <2>1, <2>2, <2>3 DEF EventsInOrder
<1>7. HalfSaid'
  <2>1. ASSUME lastPartial # Silence
        PROVE  /\ 0 < lastPartial.n /\ lastPartial.n <= heard'
               /\ \A i \in Results' : lastPartial.n <= events'[i].n
               /\ utterance' # 0 => lastPartial.n <= utterance'
    <3>1. lastPartial.n \in Nat
      BY <1>0 DEF ListeningInv, RecogTypes
    <3>2. /\ 0 < lastPartial.n /\ lastPartial.n <= heard
          /\ \A i \in Results : lastPartial.n <= events[i].n
          /\ utterance # 0 => lastPartial.n <= utterance
      BY <2>1 DEF SpeechInv, HalfSaid
    <3>3. lastPartial.n <= heard' /\ (utterance' # 0 => lastPartial.n <= utterance')
      BY <1>0, <3>1, <3>2 DEF OneResult
    <3>4. \A i \in Results' : lastPartial.n <= events'[i].n
      BY <1>0, <1>1, <1>5, <3>1, <3>2
    <3> QED BY <3>2, <3>3, <3>4
  <2> QED BY <1>0, <2>1 DEF SpeechInv, HalfSaid, Silence
<1>8. NewsOnly'
  <2>1. \A k \in DOMAIN saved : saved[k].n \in Nat
    BY SegmentFields DEF ListeningInv, RecogTypes, SegmentRecords
  <2>2. \A k \in DOMAIN saved' : saved'[k].n <= heard'
    BY <1>0, <2>1 DEF OneResult, SpeechInv, NewsOnly
  <2>3. Heeded' => Heeded
    BY <1>0, <1>2 DEF Heeded, Listened, NoStartOnItsWay, OneResult
  <2>4. ASSUME Heeded, NEW k \in DOMAIN saved
        PROVE  /\ \A i \in Results' : saved[k].n < events'[i].n
               /\ utterance' # 0 => saved[k].n < utterance'
    <3>1. /\ \A i \in Results : saved[k].n < events[i].n
          /\ utterance # 0 => saved[k].n < utterance
          /\ saved[k].n <= heard
      BY <2>4 DEF SpeechInv, NewsOnly
    <3>2. \A i \in Results' : saved[k].n < events'[i].n
      BY <1>0, <1>5, <2>1, <3>1
    <3>3. utterance' # 0 => saved[k].n < utterance'
      BY <1>0, <2>1, <3>1 DEF OneResult
    <3> QED BY <3>2, <3>3
  <2> QED BY <1>0, <2>2, <2>3, <2>4 DEF NewsOnly
<1>9. SavedOnce'
  BY <1>0 DEF SavedOnce
<1> QED BY <1>6, <1>7, <1>8, <1>9 DEF SpeechInv

LEMMA OneEventResult ==
  ASSUME NEW e \in EngineEvents
  PROVE  LET more == <<e>> IN
         /\ more \in Seq(EngineEvents) /\ DOMAIN more = {1} /\ more[1] = e
OBVIOUS

LEMMA EngineAloneAdds ==
  ASSUME Speaking,
         \/ EngineHears \/ EngineFinal \/ EngineLoses \/ EngineFails \/ EngineDies \/ EngineComplains
  PROVE  \E more : /\ OneResult(more) /\ EngineOnly /\ UNCHANGED <<sessions, downTime>>
                   /\ engine' \in {"off", "starting"} => utterance' = 0
<1>0. RecogTypes /\ recogMode = "on_device" /\ EventsInOrder
  BY DEF Speaking, ListeningInv, SpeechInv
<1>1. CASE EngineHears
  <2>1. PICK interim \in BOOLEAN :
          Emit(IF interim THEN <<[type |-> "partial", n |-> heard + 1, up |-> downTime]>>
                          ELSE <<>>)
    BY <1>1 DEF EngineHears
  <2>2. PICK e : e = [type |-> "partial", n |-> heard + 1, up |-> downTime]
    OBVIOUS
  <2>3. e \in EngineEvents /\ e.type = "partial" /\ e.n = heard + 1 /\ e.up = downTime
    BY <1>0, <2>2 DEF EngineEvents, RecogTypes
  <2>4. PICK more : more = IF interim THEN <<e>> ELSE <<>>
    OBVIOUS
  <2>5. OneResult(more)
    <3>1. CASE interim
      BY <1>1, <2>1, <2>2, <2>3, <2>4, <3>1 DEF OneResult, EngineHears
    <3>2. CASE ~interim
      BY <1>1, <2>1, <2>4, <3>2 DEF OneResult, EngineHears
    <3> QED BY <3>1, <3>2
  <2>6. EngineOnly /\ engine' = "on"
    BY <1>1 DEF EngineHears
  <2>7. UNCHANGED <<sessions, downTime>>
    BY <1>1 DEF EngineHears
  <2> QED BY <2>5, <2>6, <2>7
<1>2. CASE EngineFinal
  <2>1. PICK e : e = [type |-> "final", n |-> utterance, up |-> downTime]
    OBVIOUS
  <2>2. e \in EngineEvents /\ e.type = "final" /\ e.n = utterance /\ e.up = downTime /\ Emit(<<e>>)
    BY <1>0, <1>2, <2>1 DEF EngineEvents, RecogTypes, EngineFinal
  <2>3. PICK more : more = <<e>>
    OBVIOUS
  <2>4. OneResult(more)
    BY <1>2, <2>2, <2>3 DEF OneResult, EngineFinal
  <2> QED BY <1>2, <2>4 DEF EngineFinal
<1>3. CASE EngineLoses \/ EngineFails
  BY <1>0, <1>3 DEF EngineLoses, EngineFails
<1>4. CASE EngineDies
  <2>1. PICK last \in Dying, late \in BOOLEAN :
          (late => utterance # 0) /\ Emit(DyingEvents(last, late))
    BY <1>4 DEF EngineDies, DyingEvents
  <2>2. PICK more : more = DyingEvents(last, late)
    OBVIOUS
  <2>3. /\ more \in Seq(EngineEvents)
        /\ \A i \in DOMAIN more : more[i].type # "start"
        /\ \A i \in DOMAIN more : IsResult(more[i]) =>
             late /\ i = Len(more) /\ more[i] = [type |-> "final", n |-> utterance, up |-> downTime]
    BY <1>0, <2>2, DeathIsSaid
  <2>4. \A i \in DOMAIN more : IsResult(more[i]) => more[i].n = utterance /\ utterance # 0 /\ more[i].up = downTime
    BY <2>1, <2>3
  <2>5. heard' = heard /\ utterance' = 0 /\ EngineOnly /\ UNCHANGED <<sessions, downTime>>
    BY <1>4 DEF EngineDies
  <2>6. OneResult(more)
    BY <2>1, <2>2, <2>3, <2>4, <2>5 DEF OneResult
  <2> QED BY <2>5, <2>6
<1>5. CASE EngineComplains
  <2>1. PICK e : e = [type |-> "error"]
    OBVIOUS
  <2>2. e \in EngineEvents /\ e.type = "error" /\ Emit(<<e>>)
    BY <1>5, <2>1 DEF EngineEvents, EngineComplains
  <2>3. PICK more : more = <<e>>
    OBVIOUS
  <2>4. OneResult(more)
    BY <1>5, <2>2, <2>3 DEF OneResult, IsResult, EngineComplains, engineVars
  <2>5. EngineOnly /\ engine' = "on" /\ UNCHANGED <<sessions, downTime>>
    BY <1>5 DEF EngineComplains, engineVars
  <2> QED BY <2>4, <2>5
<1> QED BY <1>1, <1>2, <1>3, <1>4, <1>5

LEMMA EngineAloneInOrder ==
  ASSUME Speaking,
         \/ EngineHears \/ EngineFinal \/ EngineLoses \/ EngineFails \/ EngineDies \/ EngineComplains
  PROVE  SpeechInv' /\ SavedOnce'
BY EngineAloneAdds, EngineInOrder

\* What is left on its way after a delivery is as it was, one place further on.
LEMMA DeliveredInOrder ==
  ASSUME Speaking, events # <<>>, events' = Tail(events), UNCHANGED engineVars
  PROVE  /\ EventsInOrder'
         /\ \A i \in Results' : i + 1 \in Results /\ events'[i] = events[i + 1] /\ i + 1 > 1
         /\ events[1] = Head(events) /\ 1 \in DOMAIN events
         /\ IsResult(Head(events)) => 1 \in Results
<1>0. events \in Seq(EngineEvents)
  BY DEF Speaking, ListeningInv, RecogTypes
<1>1. /\ \A i \in DOMAIN events' : i + 1 \in DOMAIN events /\ events'[i] = events[i + 1]
      /\ Head(events) = events[1] /\ 1 \in DOMAIN events /\ events' \in Seq(EngineEvents)
  BY <1>0, DeliverTakes DEF Speaking
<1>2. \A i \in DOMAIN events' : i \in Nat /\ i + 1 > 1
  BY <1>1, EventFields
<1>3. \A i \in Results' : i + 1 \in Results /\ events'[i] = events[i + 1] /\ i + 1 > 1
  BY <1>1, <1>2 DEF Results
<1>4. \A i, j \in Results' : i < j => i + 1 < j + 1
  BY <1>2 DEF Results
<1>5. EventsInOrder'
  BY <1>3, <1>4 DEF Speaking, SpeechInv, EventsInOrder, engineVars
<1> QED BY <1>1, <1>3, <1>5 DEF Results

\* A delivery that neither saves nor hears anything.
LEMMA CarriedOn ==
  ASSUME Speaking, events # <<>>, events' = Tail(events), UNCHANGED engineVars,
         UNCHANGED <<saved, lastPartial>>,
         loop'.ended \/ loop'.awaiting => loop.ended \/ loop.awaiting,
         Heeded' => Heeded
  PROVE  SpeechInv' /\ SavedOnce'
<1>1. EventsInOrder' /\ \A i \in Results' : i + 1 \in Results /\ events'[i] = events[i + 1]
  BY DeliveredInOrder
<1>2. HalfSaid'
  BY <1>1 DEF Speaking, SpeechInv, HalfSaid, engineVars, Silence
<1>3. NewsOnly'
  BY <1>1 DEF Speaking, SpeechInv, NewsOnly, engineVars
<1>4. SavedOnce'
  BY DEF Speaking, SavedOnce
<1> QED BY <1>1, <1>2, <1>3, <1>4 DEF SpeechInv

LEMMA DeliverInOrder ==
  ASSUME Speaking, Deliver
  PROVE  SpeechInv' /\ SavedOnce'
<1> DEFINE e == Head(events)
<1>0. events # <<>> /\ events' = Tail(events) /\ UNCHANGED engineVars /\ RecogTypes /\ LoopInv
      /\ recogMode = "on_device" /\ recogMode' = recogMode /\ SavedOnce
  BY DEF Deliver, Speaking, ListeningInv
<1>1. OnStart(e) \/ OnResult(e) \/ OnGap(e) \/ OnError(e) \/ OnEnd(e)
  BY DEF Deliver
<1>2. /\ EventsInOrder'
      /\ \A i \in Results' : i + 1 \in Results /\ events'[i] = events[i + 1] /\ i + 1 > 1
      /\ events[1] = e /\ 1 \in DOMAIN events /\ (IsResult(e) => 1 \in Results)
  BY <1>0, DeliveredInOrder
<1>3. NoStartOnItsWay'
  BY <1>0, AfterDeliver DEF NoStartOnItsWay, Speaking
<1>4. Heeded' <=> Listened'
  BY <1>3 DEF Heeded
<1>5. e \in EngineEvents
  BY <1>0, DeliverTakes DEF RecogTypes
<1> HIDE DEF e
<1>6. CASE OnStart(e)
  <2>1. ~NoStartOnItsWay /\ (loop.ended \/ loop.awaiting)
    BY <1>0, <1>2, <1>6 DEF OnStart, NoStartOnItsWay, LoopInv
  <2>2. UNCHANGED <<saved, lastPartial>> /\ Heeded
    BY <1>6, <2>1 DEF OnStart, Heeded
  <2> QED BY <1>0, <2>1, <2>2, CarriedOn
<1>7. CASE OnResult(e) /\ ~Listened
  <2>1. UNCHANGED <<saved, lastPartial, loop>> /\ ~Listened'
    BY <1>0, <1>7 DEF OnResult, heldVars, Listened
  <2> QED BY <1>0, <1>4, <2>1, CarriedOn
<1>8. CASE OnResult(e) /\ Listened /\ e.type = "final"
  <2> DEFINE what == [n |-> e.n, up |-> e.up]
  <2>1. Final(what) /\ what.n = e.n /\ UNCHANGED loop /\ IsResult(e)
    BY <1>0, <1>8 DEF OnResult, IsResult
  <2>2. what \in [n : Nat, up : Nat]
    BY <1>5, <1>8 DEF EngineEvents
  <2> HIDE DEF what
  <2>3. 1 \in Results /\ e.n <= heard /\ \A k \in DOMAIN saved : saved[k].n < e.n
    BY <1>2, <1>8, <2>1 DEF Speaking, SpeechInv, NewsOnly, Heeded, EventsInOrder
  <2>4. SavedOnce' /\ (\A k \in DOMAIN saved' : saved'[k].n <= e.n) /\ lastPartial' = Silence
    BY <1>0, <2>1, <2>2, <2>3, FinalInOrder, FinalAppends
  <2>5. \A k \in DOMAIN saved' : saved'[k].n \in Nat
    <3>1. HeldTypes'
      BY <1>0, <2>1, <2>2, FinalTypes
    <3> QED BY <3>1, SegmentFields DEF HeldTypes, SegmentRecords
  <2>6. \A i \in Results' : e.n < events'[i].n /\ events'[i].n \in Nat
    <3> SUFFICES ASSUME NEW i \in Results' PROVE e.n < events'[i].n /\ events'[i].n \in Nat
      OBVIOUS
    <3>1. i + 1 \in Results /\ events'[i] = events[i + 1] /\ 1 < i + 1
      <4>1. i + 1 \in Results /\ events'[i] = events[i + 1] /\ i + 1 > 1
        BY <1>2
      <4> QED BY <4>1
    <3>2. events[1].n <= events[i + 1].n /\ events[1].n # events[i + 1].n
      BY <1>2, <1>8, <2>3, <3>1 DEF Speaking, SpeechInv, EventsInOrder
    <3>3. events[1].n \in Nat /\ events[i + 1].n \in Nat
      BY <1>0, <2>3, <3>1, EventFields DEF RecogTypes, Results
    <3> QED BY <1>2, <3>1, <3>2, <3>3
  <2>7. utterance # 0 => e.n < utterance
    <3>1. e.n \in Nat /\ utterance \in Nat
      BY <1>0, <2>2, <2>1 DEF RecogTypes
    <3> QED BY <1>2, <1>8, <2>3, <3>1 DEF Speaking, SpeechInv, EventsInOrder
  <2>8. HalfSaid'
    BY <2>4 DEF HalfSaid, Silence
  <2>9. NewsOnly'
    <3>1. e.n \in Nat /\ utterance \in Nat /\ heard \in Nat
      BY <1>0, <2>2, <2>1 DEF RecogTypes
    <3>2. \A k \in DOMAIN saved' : /\ saved'[k].n <= heard
                                   /\ \A i \in Results' : saved'[k].n < events'[i].n
                                   /\ utterance # 0 => saved'[k].n < utterance
      BY <2>3, <2>4, <2>5, <2>6, <2>7, <3>1
    <3> QED BY <1>0, <3>2 DEF NewsOnly, engineVars
  <2> QED BY <1>2, <2>4, <2>8, <2>9 DEF SpeechInv
<1>9. CASE OnResult(e) /\ Listened /\ e.type # "final"
  <2> DEFINE what == [n |-> e.n, up |-> e.up]
  <2>1. lastPartial' = what /\ what.n = e.n /\ UNCHANGED <<loop, saved>> /\ IsResult(e)
    BY <1>0, <1>9 DEF OnResult, IsResult
  <2> HIDE DEF what
  <2>2. /\ 1 \in Results /\ 0 < e.n /\ e.n <= heard /\ (utterance # 0 => e.n <= utterance)
        /\ \A k \in DOMAIN saved : saved[k].n < e.n
    BY <1>2, <1>9, <2>1 DEF Speaking, SpeechInv, NewsOnly, Heeded, EventsInOrder
  <2>3. \A i \in Results' : e.n <= events'[i].n
    <3> SUFFICES ASSUME NEW i \in Results' PROVE e.n <= events'[i].n
      OBVIOUS
    <3>1. i + 1 \in Results /\ events'[i] = events[i + 1] /\ 1 < i + 1
      <4>1. i + 1 \in Results /\ events'[i] = events[i + 1] /\ i + 1 > 1
        BY <1>2
      <4> QED BY <4>1
    <3> QED BY <1>2, <2>2, <3>1 DEF Speaking, SpeechInv, EventsInOrder
  <2>4. HalfSaid'
    BY <1>0, <1>9, <2>1, <2>2, <2>3 DEF HalfSaid, engineVars, Listened
  <2>5. NewsOnly'
    BY <1>0, <1>2, <1>9, <2>1 DEF Speaking, SpeechInv, NewsOnly, Heeded, Listened, engineVars
  <2>6. SavedOnce'
    BY <1>0, <2>1 DEF SavedOnce
  <2> QED BY <1>2, <2>4, <2>5, <2>6 DEF SpeechInv
<1>10. CASE OnGap(e) \/ OnError(e)
  <2>1. UNCHANGED <<saved, lastPartial, loop>>
    BY <1>10 DEF OnGap, OnError, heldVars
  <2>2. Heeded' => Heeded
    BY <1>4, <2>1 DEF Heeded, Listened
  <2> QED BY <1>0, <2>1, <2>2, CarriedOn
<1>11. CASE OnEnd(e)
  <2>1. Flush /\ loop'.ended
    <3>1. CASE control = "draining"
      BY <1>0, <1>11, <3>1 DEF OnEnd, LoopInv
    <3>2. CASE control # "draining"
      BY <1>11, <3>2, EndSessionFlushes DEF OnEnd
    <3> QED BY <3>1, <3>2
  <2> QED BY <1>0, <1>2, <1>3, <2>1, OverInOrder DEF engineVars
<1> QED BY <1>1, <1>6, <1>7, <1>8, <1>9, <1>10, <1>11

LEMMA OrderStep == OrderInv /\ [RecognitionNext]_recogVars => OrderInv'
<1> SUFFICES ASSUME OrderInv, [RecognitionNext]_recogVars PROVE OrderInv'
  OBVIOUS
<1>1. ListeningInv'
  BY ListeningStep DEF OrderInv
<1>2. recogMode' = recogMode
  BY DEF RecognitionNext, Listen, DoSilence, DrainTimesOut, TimerFires, EngineUp, EngineUpAgain,
         EngineHears, EngineFinal, EngineLoses, EngineFails, EngineDies, EngineComplains, EngineOnly,
         Deliver, recogVars
<1>3. CASE recogMode # "on_device"
  BY <1>1, <1>2, <1>3 DEF OrderInv, SavedOnce
<1>4. CASE recogMode = "on_device"
  <2>1. Speaking
    BY <1>2, <1>4 DEF OrderInv, Speaking
  <2>2. CASE UNCHANGED recogVars
    BY <1>1, <1>2, <1>4, <2>1, <2>2
       DEF Speaking, recogVars, OrderInv, SavedOnce, SpeechInv, EventsInOrder, HalfSaid, NewsOnly, Results,
           Heeded, Listened, NoStartOnItsWay
  <2>3. CASE RecognitionNext
    BY <1>1, <1>4, <2>1, <2>3, ControlInOrder, EngineUpInOrder, EngineAloneInOrder, DeliverInOrder
       DEF RecognitionNext, EngineUpAgain, OrderInv
  <2> QED BY <2>2, <2>3
<1> QED BY <1>3, <1>4

(* With recognition on the phone no utterance is saved twice, nor out of   *)
(* the order of speech.                                                    *)
THEOREM SavedOnceCorrect == RecognitionSpec => []SavedOnce
<1>1. OrderInv => SavedOnce
  BY DEF OrderInv
<1> QED BY <1>1, OrderInit, OrderStep, PTL DEF RecognitionSpec

------------------------------------------------------------------------------
(* The gap after a death.                                                  *)

Marking == Speaking /\ DeathsAreMarked /\ DeathInv

LEMMA FinalMarks ==
  ASSUME Marking, Listened, NEW what \in [n : Nat, up : Nat], what.up = downTime, Final(what),
         listens' = listens, recogMode' = recogMode
  PROVE  /\ DeathsAreMarked' /\ \A k \in DOMAIN saved' : saved'[k].listen <= listens
         /\ saved' # <<>> /\ saved'[Len(saved')].up = downTime /\ pendingGap' = 0
<1> DEFINE L == Len(saved)
<1>0. RecogTypes /\ recogMode = "on_device" /\ loop.running /\ listens \in Nat
  BY DEF Marking, Speaking, ListeningInv, LoopInv, Listened, RecogTypes
<1>1. L \in Nat /\ DOMAIN saved = 1 .. L
  BY <1>0, SegmentFields DEF RecogTypes, SegmentRecords
<1>2. /\ Len(saved') = L + 1
      /\ \A k \in DOMAIN saved : saved'[k] = saved[k]
      /\ saved'[L + 1] = Segment(what)
      /\ \A k \in DOMAIN saved' : k \in DOMAIN saved \/ k = L + 1
  BY <1>0, FinalAppends
<1> HIDE DEF L
<1>3. Segment(what).up = downTime /\ Segment(what).gap = (pendingGap >= GapMarkMin) /\ Segment(what).listen = listens
  BY DEF Segment
<1>4. \A i \in 1 .. Len(saved') - 1 :
        saved'[i + 1].up >= saved'[i].up + GapMarkMin /\ saved'[i].listen = saved'[i + 1].listen
          => saved'[i + 1].gap
  <2> SUFFICES ASSUME NEW i \in 1 .. L, saved'[i + 1].up >= saved'[i].up + GapMarkMin,
                      saved'[i].listen = saved'[i + 1].listen
               PROVE  saved'[i + 1].gap
    BY <1>1, <1>2
  <2>1. CASE i = L
    <3>1. saved'[i] = saved[L] /\ saved # <<>> /\ saved'[i + 1] = Segment(what)
      BY <1>1, <1>2, <2>1
    <3>2. saved[L].listen = listens /\ downTime >= saved[L].up + GapMarkMin
      BY <1>3, <3>1
    <3>3. downTime <= saved[L].up + pendingGap
      BY <1>0, <3>1, <3>2 DEF Marking, DeathInv, Counted, L
    <3>4. saved[L].up \in Nat /\ pendingGap \in Nat /\ downTime \in Nat
      BY <1>0, <1>1, <2>1, SegmentFields DEF RecogTypes, SegmentRecords
    <3>5. pendingGap >= GapMarkMin
      BY <3>2, <3>3, <3>4, RecognitionAssumption
    <3> QED BY <1>3, <3>1, <3>5
  <2>2. CASE i # L
    <3>1. i \in 1 .. L - 1 /\ i \in DOMAIN saved /\ i + 1 \in DOMAIN saved
      BY <1>1, <2>2
    <3>2. saved'[i] = saved[i] /\ saved'[i + 1] = saved[i + 1]
      BY <1>2, <3>1
    <3> QED BY <1>0, <3>1, <3>2 DEF Marking, DeathsAreMarked, L
  <2> QED BY <2>1, <2>2
<1>5. DeathsAreMarked'
  BY <1>4 DEF DeathsAreMarked
<1>6. \A k \in DOMAIN saved' : saved'[k].listen <= listens
  BY <1>0, <1>2, <1>3 DEF Marking, DeathInv
<1>7. saved' # <<>> /\ pendingGap' = 0
  BY <1>0, <1>1, <1>2, FinalAppends
<1> QED BY <1>2, <1>3, <1>5, <1>6, <1>7

LEMMA FlushMarks ==
  ASSUME Marking, Flush, listens' = listens, recogMode' = recogMode
  PROVE  /\ DeathsAreMarked' /\ \A k \in DOMAIN saved' : saved'[k].listen <= listens
         /\ lastPartial' = Silence
         /\ \/ UNCHANGED <<saved, pendingGap>>
            \/ saved' # <<>> /\ saved'[Len(saved')].up = downTime /\ pendingGap' = 0
<1>1. CASE lastPartial = Silence
  BY <1>1 DEF Flush, heldVars, Marking, DeathsAreMarked, DeathInv
<1>2. CASE lastPartial # Silence
  <2>1. Listened /\ lastPartial.up = downTime
    BY <1>2 DEF Marking, DeathInv, Speaking, SpeechInv, HalfSaid, Listened
  <2>2. lastPartial \in [n : Nat, up : Nat] /\ Final(lastPartial)
    BY <1>2 DEF Flush, Marking, Speaking, ListeningInv, RecogTypes
  <2> QED BY <2>1, <2>2, FinalMarks DEF Final
<1> QED BY <1>1, <1>2

\* A death, or the death of a session that never came up, is counted from its first moment.
LEMMA OverCounts ==
  ASSUME Marking, EndSession, Flush, ~loop.ended, UNCHANGED <<recogMode, listens, downTime>>
  PROVE  Counted'
<1> DEFINE up(s) == s[Len(s)].up
<1>0. RecogTypes /\ loop.running /\ Counted
  BY DEF Marking, Speaking, ListeningInv, LoopInv, DeathInv, RecogTypes
<1>1. loop'.ended /\ loop'.died /\ loop'.diedAt \in Nat /\ loop'.diedAt <= downTime
      /\ (loop.died => loop'.diedAt = loop.diedAt)
  <2>1. loop' = [loop EXCEPT !.ended = TRUE, !.died = loop.died \/ loop.running,
                            !.diedAt = IF loop.died THEN loop.diedAt ELSE downTime]
    BY DEF EndSession
  <2>2. loop'.ended /\ loop'.died = (loop.died \/ loop.running)
        /\ loop'.diedAt = IF loop.died THEN loop.diedAt ELSE downTime
    BY <1>0, <2>1 DEF RecogTypes
  <2> QED BY <1>0, <2>2 DEF RecogTypes
<1>2. CASE UNCHANGED <<saved, pendingGap>>
  <2>1. ASSUME saved # <<>>, saved[Len(saved)].listen = listens
        PROVE  loop'.diedAt <= saved[Len(saved)].up + pendingGap
    <3>1. saved[Len(saved)].up \in Nat /\ pendingGap \in Nat /\ downTime \in Nat
      BY <1>0, <2>1, SegmentFields DEF RecogTypes, SegmentRecords
    <3>2. CASE Listened
      BY <1>0, <1>1, <2>1, <3>1, <3>2 DEF Counted
    <3>3. CASE ~Listened
      BY <1>0, <1>1, <2>1, <3>1, <3>3 DEF Counted
    <3> QED BY <3>2, <3>3
  <2> QED BY <1>1, <1>2, <2>1 DEF Counted, Listened
<1>3. CASE saved' # <<>> /\ saved'[Len(saved')].up = downTime /\ pendingGap' = 0
  <2>1. loop'.diedAt <= saved'[Len(saved')].up + pendingGap'
    BY <1>0, <1>1, <1>3 DEF RecogTypes
  <2> QED BY <1>1, <2>1 DEF Counted, Listened
<1> QED BY <1>2, <1>3, FlushMarks

\* A step that saves nothing and leaves the sessions alone.
LEMMA MarksCarried ==
  ASSUME Marking, UNCHANGED <<recogMode, listens, downTime, saved, loop>>,
         \A i \in Results' : events'[i].up = downTime,
         lastPartial' # Silence => lastPartial'.up = downTime,
         pendingGap' \in Nat, pendingGap <= pendingGap'
  PROVE  DeathsAreMarked' /\ DeathInv'
<1>1. RecogTypes
  BY DEF Marking, Speaking, ListeningInv
<1>2. saved # <<>> => saved[Len(saved)].up \in Nat
  BY <1>1, SegmentFields DEF RecogTypes, SegmentRecords
<1>3. Counted'
  <2>1. pendingGap \in Nat /\ downTime \in Nat /\ loop.diedAt \in Nat
    BY <1>1 DEF RecogTypes
  <2>2. ASSUME saved # <<>>, loop.running, saved[Len(saved)].listen = listens
        PROVE  IF Listened THEN downTime <= saved[Len(saved)].up + pendingGap'
               ELSE loop.died /\ loop.diedAt <= saved[Len(saved)].up + pendingGap'
    <3>1. IF Listened THEN downTime <= saved[Len(saved)].up + pendingGap
          ELSE loop.died /\ loop.diedAt <= saved[Len(saved)].up + pendingGap
      BY <2>2 DEF Marking, DeathInv, Counted
    <3>2. PICK up \in Nat : up = saved[Len(saved)].up
      BY <1>2, <2>2
    <3>3. \A t \in Nat : t <= up + pendingGap => t <= up + pendingGap'
      BY <2>1, <3>2
    <3> QED BY <2>1, <3>1, <3>2, <3>3
  <2> QED BY <2>2 DEF Counted, Listened
<1> QED BY <1>3 DEF Marking, DeathsAreMarked, DeathInv

LEMMA ControlMarks ==
  ASSUME Marking, Listen \/ DoSilence \/ DrainTimesOut \/ TimerFires
  PROVE  DeathsAreMarked' /\ DeathInv'
<1>0. RecogTypes /\ LoopInv /\ recogMode = "on_device" /\ recogMode' = recogMode /\ Speaking
  BY DEF Marking, Speaking, ListeningInv
<1>1. CASE Listen
  <2>0. lastPartial = Silence
    BY <1>0, <1>1 DEF Listen, LoopInv, Speaking, SpeechInv, HalfSaid
  <2>1. UNCHANGED <<events, downTime, saved, lastPartial>> /\ listens' = listens + 1 /\ listens \in Nat
    BY <1>0, <1>1, <2>0 DEF Listen, Launch, LaunchSession, LaunchThrows, Flush, heldVars, engineVars, RecogTypes
  <2>2. \A k \in DOMAIN saved : saved[k].listen <= listens /\ saved[k].listen \in Nat
    BY <1>0, SegmentFields DEF RecogTypes, SegmentRecords, Marking, DeathInv
  <2>3. saved # <<>> => Len(saved) \in DOMAIN saved
    BY <1>0, SegmentFields DEF RecogTypes, SegmentRecords
  <2>4. DeathsAreMarked'
    BY <1>0, <2>1 DEF Marking, DeathsAreMarked
  <2>5. \A k \in DOMAIN saved : saved[k].listen <= listens' /\ saved[k].listen # listens'
    BY <2>1, <2>2
  <2>6. DeathInv'
    BY <2>1, <2>3, <2>5 DEF Marking, DeathInv, Counted, Results
  <2> QED BY <2>4, <2>6
<1>2. CASE DoSilence
  <2>1. Flush /\ ~loop'.running /\ UNCHANGED <<events, downTime, listens>>
    BY <1>0, <1>2 DEF DoSilence, StopLoop, RecogTypes
  <2> QED BY <1>0, <2>1, FlushMarks DEF Marking, DeathInv, Counted, Results
<1>3. CASE DrainTimesOut
  <2>1. Flush /\ ~loop'.running /\ UNCHANGED <<events, downTime, listens>>
    BY <1>0, <1>3 DEF DrainTimesOut, engineVars, LoopInv
  <2> QED BY <1>0, <2>1, FlushMarks DEF Marking, DeathInv, Counted, Results
<1>4. CASE TimerFires
  <2>1. CASE timer = "backoff"
    <3>0. loop.running /\ loop.ended /\ lastPartial = Silence
      BY <1>0, <2>1 DEF LoopInv, Speaking, SpeechInv, HalfSaid
    <3>1. UNCHANGED <<events, downTime, listens, saved, lastPartial, pendingGap>>
      BY <1>4, <2>1, <3>0 DEF TimerFires, Launch, LaunchSession, LaunchThrows, Flush, heldVars, engineVars
    <3>2. loop'.awaiting /\ (loop.died => loop'.died /\ loop'.diedAt = loop.diedAt)
      <4>1. CASE LaunchSession
        BY <1>0, <4>1 DEF LaunchSession, RecogTypes
      <4>2. CASE LaunchThrows
        BY <4>2, ThrownFields
      <4> QED BY <1>4, <2>1, <4>1, <4>2 DEF TimerFires, Launch
    <3>3. DeathsAreMarked'
      BY <1>0, <3>1 DEF Marking, DeathsAreMarked
    <3>4. DeathInv'
      BY <3>0, <3>1, <3>2 DEF Marking, DeathInv, Counted, Results, Listened
    <3> QED BY <3>3, <3>4
  <2>2. CASE timer # "backoff"
    <3>1. EndSession /\ UNCHANGED <<events, downTime, listens>>
      BY <1>4, <2>2 DEF TimerFires, engineVars
    <3>2. ~loop.ended /\ loop.running
      BY <1>0, <1>4, <2>2 DEF TimerFires, LoopInv, RecogTypes
    <3>4. Flush
      BY <1>0, <3>1, EndSessionFlushes
    <3>3. Counted'
      BY <1>0, <3>1, <3>2, <3>4, OverCounts
    <3>5. DeathsAreMarked' /\ (\A k \in DOMAIN saved' : saved'[k].listen <= listens) /\ lastPartial' = Silence
      BY <1>0, <3>1, <3>4, FlushMarks
    <3> QED BY <3>1, <3>3, <3>5 DEF Marking, DeathInv, Results
  <2> QED BY <2>1, <2>2
<1> QED BY <1>1, <1>2, <1>3, <1>4

LEMMA EngineMarks ==
  ASSUME Marking, \/ EngineUp \/ EngineHears \/ EngineFinal \/ EngineLoses \/ EngineFails
                  \/ EngineDies \/ EngineComplains
  PROVE  DeathsAreMarked' /\ DeathInv'
<1>0. RecogTypes /\ LoopInv /\ recogMode' = recogMode /\ Speaking
  BY DEF Marking, Speaking, ListeningInv
<1>1. CASE EngineUp
  <2>1. events' = <<[type |-> "start"]>>
    BY <1>0, <1>1 DEF EngineUp, Emit, RecogTypes
  <2>2. Results' = {}
    BY <2>1 DEF Results, IsResult
  <2>3. UNCHANGED <<loop, listens, saved, lastPartial, pendingGap>>
    BY <1>1 DEF EngineUp, EngineOnly, heldVars
  <2>4. ~Listened /\ lastPartial = Silence
    BY <1>0, <1>1 DEF EngineUp, LoopInv, Listened, Speaking, SpeechInv, HalfSaid
  <2>5. DeathsAreMarked'
    BY <1>0, <2>3 DEF Marking, DeathsAreMarked
  <2>6. DeathInv'
    BY <2>2, <2>3, <2>4 DEF Marking, DeathInv, Counted, Listened, Silence
  <2> QED BY <2>5, <2>6
<1>2. CASE \/ EngineHears \/ EngineFinal \/ EngineLoses \/ EngineFails
           \/ EngineDies \/ EngineComplains
  <2>1. PICK more : OneResult(more) /\ EngineOnly /\ UNCHANGED <<sessions, downTime>>
    BY <1>0, <1>2, EngineAloneAdds
  <2>2. UNCHANGED <<loop, listens, saved, lastPartial, pendingGap>>
    BY <2>1 DEF EngineOnly, heldVars
  <2>3. \A i \in DOMAIN events' : \/ i \in DOMAIN events /\ events'[i] = events[i]
                                  \/ i - Len(events) \in DOMAIN more /\ events'[i] = more[i - Len(events)]
    BY <1>0, <2>1, EmitAdds DEF OneResult, RecogTypes
  <2>4. \A i \in Results' : events'[i].up = downTime
    BY <2>1, <2>3 DEF Results, OneResult, Marking, DeathInv
  <2>5. pendingGap' \in Nat /\ pendingGap <= pendingGap'
    BY <1>0, <2>2 DEF RecogTypes
  <2> QED BY <1>0, <2>1, <2>2, <2>4, <2>5, MarksCarried DEF Marking, DeathInv
<1> QED BY <1>1, <1>2

LEMMA DeliverMarks ==
  ASSUME Marking, Deliver
  PROVE  DeathsAreMarked' /\ DeathInv'
<1> DEFINE e == Head(events)
<1>0. events # <<>> /\ events' = Tail(events) /\ UNCHANGED engineVars /\ RecogTypes /\ LoopInv
      /\ recogMode = "on_device" /\ recogMode' = recogMode /\ listens' = listens /\ Speaking
  BY DEF Deliver, Marking, Speaking, ListeningInv
<1>1. OnStart(e) \/ OnResult(e) \/ OnGap(e) \/ OnError(e) \/ OnEnd(e)
  BY DEF Deliver
<1>2. /\ \A i \in Results' : i + 1 \in Results /\ events'[i] = events[i + 1]
      /\ events[1] = e /\ 1 \in DOMAIN events /\ (IsResult(e) => 1 \in Results)
  BY <1>0, DeliveredInOrder
<1>3. (\A i \in Results' : events'[i].up = downTime) /\ UNCHANGED <<sessions, downTime>>
  BY <1>0, <1>2 DEF Marking, DeathInv, engineVars
<1>5. e \in EngineEvents
  BY <1>0, DeliverTakes DEF RecogTypes
<1> HIDE DEF e
<1>6. CASE OnStart(e)
  <2>1. UNCHANGED <<saved, lastPartial>>
    BY <1>6 DEF OnStart
  <2>2. CASE loop.ended \/ ~loop.awaiting
    <3>1. UNCHANGED <<loop, pendingGap>> /\ pendingGap \in Nat
      BY <1>0, <1>6, <2>2 DEF OnStart, HandleStart, RecogTypes
    <3>2. pendingGap' \in Nat /\ pendingGap <= pendingGap'
      BY <3>1
    <3> QED BY <1>0, <1>3, <2>1, <3>1, <3>2, MarksCarried DEF Marking, DeathInv
  <2>3. CASE ~loop.ended /\ loop.awaiting
    <3>1. loop'.running = loop.running /\ ~loop'.ended /\ ~loop'.awaiting /\ ~Listened
          /\ (loop.died => pendingGap' = pendingGap + (downTime - loop.diedAt))
      BY <1>0, <1>6, <2>3 DEF OnStart, HandleStart, RecogTypes, Listened
    <3>2. DeathsAreMarked'
      BY <1>0, <2>1 DEF Marking, DeathsAreMarked
    <3>3. saved # <<>> => saved[Len(saved)].up \in Nat
      BY <1>0, SegmentFields DEF RecogTypes, SegmentRecords
    <3>4. pendingGap \in Nat /\ downTime \in Nat /\ loop.diedAt \in Nat
      BY <1>0 DEF RecogTypes
    <3>5. Counted'
      BY <1>0, <1>3, <2>1, <3>1, <3>3, <3>4 DEF Marking, DeathInv, Counted, Listened
    <3> QED BY <1>0, <1>3, <2>1, <3>2, <3>5 DEF Marking, DeathInv
  <2> QED BY <2>2, <2>3
<1>7. CASE OnResult(e) /\ ~Listened
  <2>1. UNCHANGED <<saved, lastPartial, loop, pendingGap>>
    BY <1>0, <1>7 DEF OnResult, heldVars
  <2>2. pendingGap' \in Nat /\ pendingGap <= pendingGap'
    BY <1>0, <2>1 DEF RecogTypes
  <2> QED BY <1>0, <1>3, <2>1, <2>2, MarksCarried DEF Marking, DeathInv
<1>8. CASE OnResult(e) /\ Listened /\ e.type = "final"
  <2> DEFINE what == [n |-> e.n, up |-> e.up]
  <2>1. Final(what) /\ what.up = e.up /\ UNCHANGED loop /\ IsResult(e)
    BY <1>0, <1>8 DEF OnResult, IsResult
  <2>2. what \in [n : Nat, up : Nat]
    BY <1>5, <1>8 DEF EngineEvents
  <2> HIDE DEF what
  <2>3. what.up = downTime
    BY <1>2, <2>1 DEF Marking, DeathInv
  <2>4. /\ DeathsAreMarked' /\ \A k \in DOMAIN saved' : saved'[k].listen <= listens
        /\ saved'[Len(saved')].up = downTime /\ pendingGap' = 0
    BY <1>0, <1>8, <2>1, <2>2, <2>3, FinalMarks
  <2>5. Listened' /\ lastPartial' = Silence
    BY <1>8, <2>1 DEF Listened, Final
  <2>6. Counted'
    BY <1>0, <1>3, <2>4, <2>5 DEF Counted, RecogTypes
  <2> QED BY <1>0, <1>3, <2>4, <2>5, <2>6 DEF DeathInv
<1>9. CASE OnResult(e) /\ Listened /\ e.type # "final"
  <2> DEFINE what == [n |-> e.n, up |-> e.up]
  <2>1. lastPartial' = what /\ what.up = e.up /\ UNCHANGED <<loop, saved, pendingGap>> /\ IsResult(e)
    BY <1>0, <1>9 DEF OnResult, IsResult
  <2> HIDE DEF what
  <2>2. lastPartial'.up = downTime
    BY <1>2, <2>1 DEF Marking, DeathInv
  <2>3. pendingGap' \in Nat /\ pendingGap <= pendingGap'
    BY <1>0, <2>1 DEF RecogTypes
  <2> QED BY <1>0, <1>3, <2>1, <2>2, <2>3, MarksCarried
<1>10. CASE OnGap(e) \/ OnError(e)
  <2>1. UNCHANGED <<saved, lastPartial, loop>>
    BY <1>10 DEF OnGap, OnError, heldVars
  <2>2. e.type = "gap" => e.ms \in Nat
    BY <1>5 DEF EngineEvents
  <2>3. pendingGap' \in Nat /\ pendingGap <= pendingGap'
    BY <1>0, <1>10, <2>2 DEF OnGap, OnError, heldVars, RecogTypes
  <2> QED BY <1>0, <1>3, <2>1, <2>3, MarksCarried DEF Marking, DeathInv
<1>11. CASE OnEnd(e)
  <2>1. CASE control = "draining"
    <3>1. Flush /\ ~loop'.running
      BY <1>0, <1>11, <2>1 DEF OnEnd, LoopInv
    <3> QED BY <1>0, <1>3, <3>1, FlushMarks DEF Marking, DeathInv, Counted
  <2>2. CASE control # "draining" /\ loop.ended
    <3>1. UNCHANGED <<loop, saved, lastPartial, pendingGap>>
      BY <1>11, <2>2 DEF OnEnd, EndSession, heldVars
    <3>2. pendingGap' \in Nat /\ pendingGap <= pendingGap'
      BY <1>0, <3>1 DEF RecogTypes
    <3> QED BY <1>0, <1>3, <3>1, <3>2, MarksCarried DEF Marking, DeathInv
  <2>3. CASE control # "draining" /\ ~loop.ended
    <3>1. EndSession /\ Flush
      BY <1>0, <1>11, <2>3, EndSessionFlushes DEF OnEnd
    <3>2. Counted'
      BY <1>0, <1>3, <2>3, <3>1, OverCounts
    <3>3. DeathsAreMarked' /\ (\A k \in DOMAIN saved' : saved'[k].listen <= listens) /\ lastPartial' = Silence
      BY <1>0, <3>1, FlushMarks
    <3> QED BY <1>0, <1>3, <3>2, <3>3 DEF DeathInv
  <2> QED BY <2>1, <2>2, <2>3
<1> QED BY <1>1, <1>6, <1>7, <1>8, <1>9, <1>10, <1>11

LEMMA MarksInit == RecognitionInit => MarksInv
<1> SUFFICES ASSUME RecognitionInit PROVE MarksInv
  OBVIOUS
<1>1. DeathsAreMarked
  BY DEF RecognitionInit, DeathsAreMarked
<1>2. DeathInv
  BY DEF RecognitionInit, DeathInv, Counted, Results
<1> QED BY <1>1, <1>2, OrderInit DEF MarksInv

LEMMA MarksStep == MarksInv /\ [RecognitionNext]_recogVars => MarksInv'
<1> SUFFICES ASSUME MarksInv, [RecognitionNext]_recogVars PROVE MarksInv'
  OBVIOUS
<1>1. OrderInv'
  BY OrderStep DEF MarksInv
<1>2. recogMode' = recogMode
  BY DEF RecognitionNext, Listen, DoSilence, DrainTimesOut, TimerFires, EngineUp, EngineUpAgain,
         EngineHears, EngineFinal, EngineLoses, EngineFails, EngineDies, EngineComplains, EngineOnly,
         Deliver, recogVars
<1>3. CASE recogMode # "on_device"
  BY <1>1, <1>2, <1>3 DEF MarksInv, DeathsAreMarked
<1>4. CASE recogMode = "on_device"
  <2>1. Marking
    BY <1>2, <1>4 DEF MarksInv, OrderInv, Marking, Speaking
  <2>2. CASE UNCHANGED recogVars
    BY <1>1, <1>2, <2>1, <2>2 DEF Marking, recogVars, MarksInv, DeathsAreMarked, DeathInv, Counted,
           Results, Listened
  <2>3. CASE RecognitionNext
    BY <1>1, <1>4, <2>1, <2>3, ControlMarks, EngineMarks, DeliverMarks
       DEF RecognitionNext, EngineUpAgain, MarksInv
  <2> QED BY <2>2, <2>3
<1> QED BY <1>3, <1>4

(* With recognition on the phone, time without recognition between two     *)
(* segments is not silent once it adds up to GAP_MARK_MIN_MS, over however *)
(* many deaths: the second segment says that something was missed.         *)
THEOREM DeathsAreMarkedCorrect == RecognitionSpec => []DeathsAreMarked
<1>1. MarksInv => DeathsAreMarked
  BY DEF MarksInv
<1> QED BY <1>1, MarksInit, MarksStep, PTL DEF RecognitionSpec

------------------------------------------------------------------------------
(* RecordingControl.                                                       *)

Utterances == [m : Nat, n : Nat]
Turns == [what : {"none", "pause", "resume", "end"}, by : {"none", "user", "call"},
          at : {"none", "silence", "settle", "op", "listen"},
          from : {"idle", "recording", "paused", "ending"}, m : Nat]
Asked == [what : {"pause", "resume", "end"}, by : {"user", "call"}]

ControlTypes ==
  /\ phase \in {"idle", "recording", "paused", "ending"}
  /\ started \in 0 .. MaxMeetings /\ meeting \in 0 .. MaxMeetings
  /\ turn \in Turns /\ toDo \in Seq(Asked)
  /\ unsaved \in Seq(Utterances) /\ utterances \in Nat /\ chain \subseteq Utterances
  /\ ops \in [MtgNumbers -> Seq({"pause", "resume", "end"})] /\ local \subseteq MtgNumbers
  /\ lines \in [MtgNumbers -> Seq(Nat)]
  /\ pausedBy \in {"none", "call"} /\ pauser \in {"none", "user", "call"}
  /\ listening \in BOOLEAN /\ wired \in BOOLEAN /\ callActive \in BOOLEAN

\* The transition under way belongs to the meeting that is on, and found the phase it may find.
TurnInv ==
  /\ turn.what = "none" <=> turn.at = "none"
  /\ turn.what = "none" => turn = NoTurn
  /\ turn.what = "resume" => turn.at \in {"op", "listen"}
  /\ turn.what = "pause" => turn.at \in {"silence", "op"}
  /\ turn.what = "end" => turn.at \in {"silence", "settle", "op"}
  /\ turn.what # "none" => turn.m = started /\ turn.by # "none"
  /\ phase # "idle" \/ turn.what # "none" => started > 0
  /\ meeting = started
  /\ turn.what = "pause" => phase \in {"idle", "recording"}
  /\ turn.what = "resume" => phase = "idle" \/ phase = IF turn.at = "op" THEN "paused" ELSE "recording"
  /\ turn.what = "end" =>
       /\ turn.from \in {"recording", "paused"}
       /\ phase = "idle" \/ phase = IF turn.at = "silence" THEN turn.from ELSE "ending"
  /\ phase = "idle" /\ started \in local => turn.what = "none" /\ toDo = <<>>

\* Where the meeting is once an end that is under way fails.
Standing == IF turn.what = "end" THEN turn.from ELSE phase

Waits(what) == {i \in DOMAIN toDo : toDo[i].what = what}

\* What waits was asked for in phases that follow one another.
QueueInv ==
  /\ Standing = "paused" => \A i \in Waits("resume"), j \in Waits("pause") : j < i
  /\ Standing = "recording" => \A i \in Waits("pause"), j \in Waits("resume") : j < i
  /\ turn.what = "pause" => Waits("resume") = {}
  /\ turn.what = "resume" /\ turn.at = "op" => Waits("pause") = {}

\* A call's resume, waiting or under way, undoes a call's pause.
PauserInv ==
  /\ phase # "paused" => pausedBy = "none"
  /\ phase = "paused" /\ pausedBy = "call" => pauser = "call"
  /\ Standing = "paused" => \A i \in Waits("resume") : toDo[i].by = "call" => pauser = "call"
  /\ turn.what = "resume" /\ turn.at = "op" /\ turn.by = "call" => pauser = "call"

OwnPauseInv == ControlTypes /\ TurnInv /\ QueueInv /\ PauserInv

LEMMA OwnPauseInit == ControlInit => OwnPauseInv
<1> SUFFICES ASSUME ControlInit PROVE OwnPauseInv
  OBVIOUS
<1> USE ControlAssumption
<1>1. ControlTypes
  <2>1. turn \in Turns
    BY DEF ControlInit, NoTurn, Turns
  <2>2. ops \in [MtgNumbers -> Seq({"pause", "resume", "end"})] /\ lines \in [MtgNumbers -> Seq(Nat)]
    BY DEF ControlInit
  <2>3. toDo \in Seq(Asked) /\ unsaved \in Seq(Utterances) /\ chain \subseteq Utterances
        /\ local \subseteq MtgNumbers
    BY DEF ControlInit
  <2>4. started \in 0 .. MaxMeetings /\ meeting \in 0 .. MaxMeetings /\ utterances \in Nat
    BY DEF ControlInit
  <2>5. listening \in BOOLEAN /\ wired \in BOOLEAN /\ callActive \in BOOLEAN
    BY DEF ControlInit
  <2>6. phase = "idle" /\ pausedBy = "none" /\ pauser = "none"
    BY DEF ControlInit
  <2> QED BY <2>5, <2>6, <2>1, <2>2, <2>3, <2>4 DEF ControlTypes
<1>2. TurnInv
  BY DEF ControlInit, TurnInv, NoTurn
<1>3. QueueInv /\ PauserInv
  BY DEF ControlInit, QueueInv, PauserInv, NoTurn, Standing, Waits
<1> QED BY <1>1, <1>2, <1>3 DEF OwnPauseInv

------------------------------------------------------------------------------
(* What waits for its turn.                                                *)

LEMMA WhoWaits ==
  ASSUME ControlTypes
  PROVE  /\ Len(toDo) \in Nat /\ DOMAIN toDo = 1 .. Len(toDo)
         /\ \A i \in DOMAIN toDo : toDo[i] \in Asked /\ toDo[i].what \in {"pause", "resume", "end"}
                                  /\ toDo[i].by \in {"user", "call"}
<1>1. toDo \in Seq(Asked)
  BY DEF ControlTypes
<1>2. \A a \in Asked : a.what \in {"pause", "resume", "end"} /\ a.by \in {"user", "call"}
  BY DEF Asked
<1> QED BY <1>1, <1>2

\* What is asked for waits behind what waits.
LEMMA AskWaits ==
  ASSUME ControlTypes, NEW what \in {"pause", "resume", "end"}, NEW by \in {"user", "call"}, AskFor(what, by)
  PROVE  /\ toDo' \in Seq(Asked)
         /\ \A i \in DOMAIN toDo' : \/ i \in DOMAIN toDo /\ toDo'[i] = toDo[i] /\ i < Len(toDo) + 1
                                    \/ i = Len(toDo) + 1 /\ toDo'[i].what = what /\ toDo'[i].by = by
<1>1. PICK a : a = [what |-> what, by |-> by]
  OBVIOUS
<1>2. a \in Asked /\ a.what = what /\ a.by = by
  BY <1>1 DEF Asked
<1>3. toDo' = Append(toDo, a) /\ toDo \in Seq(Asked)
  BY <1>1 DEF AskFor, ControlTypes
<1>4. /\ toDo' \in Seq(Asked)
      /\ \A k \in DOMAIN toDo : toDo'[k] = toDo[k]
      /\ toDo'[Len(toDo) + 1] = a
      /\ \A k \in DOMAIN toDo' : k \in DOMAIN toDo \/ k = Len(toDo) + 1
  BY <1>2, <1>3, AppendFacts
<1>5. \A i \in DOMAIN toDo : i < Len(toDo) + 1
  BY WhoWaits
<1>6. ASSUME NEW i \in DOMAIN toDo'
      PROVE  \/ i \in DOMAIN toDo /\ toDo'[i] = toDo[i] /\ i < Len(toDo) + 1
             \/ i = Len(toDo) + 1 /\ toDo'[i].what = what /\ toDo'[i].by = by
  <2>1. CASE i \in DOMAIN toDo
    BY <1>4, <1>5, <2>1
  <2>2. CASE i = Len(toDo) + 1
    BY <1>2, <1>4, <2>2
  <2> QED BY <1>4, <2>1, <2>2
<1> QED BY <1>4, <1>6

LEMMA TakeWaits ==
  ASSUME ControlTypes, toDo # <<>>, toDo' = Tail(toDo)
  PROVE  /\ toDo' \in Seq(Asked)
         /\ 1 \in DOMAIN toDo /\ Head(toDo) = toDo[1]
         /\ \A i \in DOMAIN toDo' : i \in Nat /\ i + 1 \in DOMAIN toDo /\ toDo'[i] = toDo[i + 1] /\ i + 1 > 1
<1>0. toDo \in Seq(Asked)
  BY DEF ControlTypes
<1>1. Len(toDo) \in Nat /\ Len(toDo) > 0 /\ DOMAIN toDo = 1 .. Len(toDo) /\ Head(toDo) = toDo[1]
  BY <1>0
<1>2. /\ Tail(toDo) \in Seq(Asked) /\ Len(Tail(toDo)) = Len(toDo) - 1
      /\ \A i \in 1 .. (Len(toDo) - 1) : Tail(toDo)[i] = toDo[i + 1]
  BY <1>0, <1>1
<1>3. DOMAIN Tail(toDo) = 1 .. (Len(toDo) - 1)
  BY <1>1, <1>2
<1> QED BY <1>1, <1>2, <1>3

\* A call or a tap adds what the phase allows.
LEMMA AskKeepsQueue ==
  ASSUME OwnPauseInv, NEW what \in {"pause", "resume", "end"}, NEW by \in {"user", "call"}, AskFor(what, by),
         what = "pause" => Standing # "paused", what = "resume" => Standing # "recording",
         what = "pause" => ~(turn.what = "resume" /\ turn.at = "op"),
         what = "resume" => turn.what # "pause",
         what = "resume" /\ by = "call" => pauser = "call",
         UNCHANGED <<turn, phase, pauser, pausedBy>>
  PROVE  QueueInv' /\ PauserInv'
<1>1. /\ Standing' = Standing /\ OwnPauseInv /\ ControlTypes
      /\ \A w \in {"pause", "resume"} : \A i \in Waits(w)' :
            \/ i \in Waits(w) /\ toDo'[i] = toDo[i] /\ i < Len(toDo) + 1
            \/ i = Len(toDo) + 1 /\ w = what /\ toDo'[i].by = by
  <2>1. ControlTypes
    BY DEF OwnPauseInv
  <2>2. \A i \in DOMAIN toDo' : \/ i \in DOMAIN toDo /\ toDo'[i] = toDo[i] /\ i < Len(toDo) + 1
                                \/ i = Len(toDo) + 1 /\ toDo'[i].what = what /\ toDo'[i].by = by
    BY <2>1, AskWaits
  <2> QED BY <2>1, <2>2 DEF Standing, Waits
<1>2. QueueInv'
  BY <1>1 DEF OwnPauseInv, QueueInv
<1>3. PauserInv'
  BY <1>1 DEF OwnPauseInv, PauserInv
<1> QED BY <1>2, <1>3

------------------------------------------------------------------------------
(* Only a call's own pause is undone.                                      *)

LEMMA TurnFields ==
  ASSUME NEW t \in Turns
  PROVE  /\ t.what \in {"none", "pause", "resume", "end"} /\ t.by \in {"none", "user", "call"}
         /\ t.at \in {"none", "silence", "settle", "op", "listen"}
         /\ t.from \in {"idle", "recording", "paused", "ending"} /\ t.m \in Nat
         /\ \A at \in {"none", "silence", "settle", "op", "listen"} :
              /\ [t EXCEPT !.at = at] \in Turns /\ [t EXCEPT !.at = at].at = at
              /\ [t EXCEPT !.at = at].what = t.what /\ [t EXCEPT !.at = at].by = t.by
              /\ [t EXCEPT !.at = at].from = t.from /\ [t EXCEPT !.at = at].m = t.m
BY DEF Turns

LEMMA NoTurnFields ==
  NoTurn \in Turns /\ NoTurn.what = "none" /\ NoTurn.at = "none"
BY DEF NoTurn, Turns

\* Nothing but what is heard, saved or translated changes.
LEMMA HeardKeeps ==
  ASSUME OwnPauseInv, Utter \/ SaveSegment \/ TranslationSettles
  PROVE  OwnPauseInv'
<1> USE ControlAssumption DEF OwnPauseInv
<1>1. CASE Utter
  <2>1. PICK u : u = [m |-> started, n |-> utterances + 1]
    OBVIOUS
  <2>2. u \in Utterances
    BY <2>1 DEF Utterances, ControlTypes
  <2>3. unsaved' \in Seq(Utterances)
    BY <1>1, <2>1, <2>2 DEF Utter, ControlTypes
  <2>4. ControlTypes'
    BY <1>1, <2>3 DEF Utter, ControlTypes, diskVars, phoneCallVars
  <2> QED
    BY <1>1, <2>4 DEF Utter, TurnInv, QueueInv, PauserInv, Standing, Waits, diskVars, phoneCallVars
<1>2. CASE SaveSegment
  <2>1. Head(unsaved) \in Utterances /\ Tail(unsaved) \in Seq(Utterances)
    BY <1>2 DEF SaveSegment, ControlTypes
  <2>2. PICK u : u = Head(unsaved)
    OBVIOUS
  <2>3. u.n \in Nat /\ u \in Utterances
    BY <2>1, <2>2 DEF Utterances
  <2>4. lines' = [lines EXCEPT ![u.m] = Append(@, u.n)]
    BY <1>2, <2>2 DEF SaveSegment
  <2>5. lines' \in [MtgNumbers -> Seq(Nat)]
    <3>1. u.m \in MtgNumbers
      BY <1>2, <2>2 DEF SaveSegment, ControlTypes
    <3>2. lines \in [MtgNumbers -> Seq(Nat)] /\ lines[u.m] \in Seq(Nat)
      BY <3>1 DEF ControlTypes
    <3>3. Append(lines[u.m], u.n) \in Seq(Nat)
      BY <2>3, <3>2
    <3> QED BY <2>4, <3>2, <3>3
  <2>6. chain' \subseteq Utterances
    BY <1>2, <2>1 DEF SaveSegment, ControlTypes
  <2>7. ControlTypes'
    BY <1>2, <2>1, <2>5, <2>6 DEF SaveSegment, ControlTypes, phoneCallVars
  <2> QED
    BY <1>2, <2>7 DEF SaveSegment, TurnInv, QueueInv, PauserInv, Standing, Waits, phoneCallVars
<1>3. CASE TranslationSettles
  <2>1. ControlTypes'
    BY <1>3 DEF TranslationSettles, ControlTypes, diskVars, phoneCallVars, recognitionVars
  <2> QED
    BY <1>3, <2>1 DEF TranslationSettles, TurnInv, QueueInv, PauserInv, Standing, Waits, diskVars, phoneCallVars,
                      recognitionVars
<1> QED BY <1>1, <1>2, <1>3

LEMMA StartKeeps == OwnPauseInv /\ StartRecordingMeeting => OwnPauseInv'
<1> SUFFICES ASSUME OwnPauseInv, StartRecordingMeeting PROVE OwnPauseInv'
  OBVIOUS
<1> USE ControlAssumption DEF OwnPauseInv, StartRecordingMeeting
<1>1. ControlTypes'
  <2>1. started + 1 \in MtgNumbers /\ started + 1 \in 0 .. MaxMeetings
    BY DEF ControlTypes, MtgNumbers
  <2>2. turn' \in Turns /\ toDo' \in Seq(Asked)
    BY DEF ControlTypes
  <2>3. local' \subseteq MtgNumbers
    BY <2>1 DEF ControlTypes
  <2> HIDE DEF OwnPauseInv
  <2>4. ControlTypes
    BY DEF OwnPauseInv
  <2> QED BY <2>1, <2>2, <2>3, <2>4 DEF ControlTypes
<1>2. TurnInv'
  BY NoTurnFields DEF ControlTypes, TurnInv
<1>3. QueueInv' /\ PauserInv'
  BY NoTurnFields DEF QueueInv, PauserInv, Standing, Waits
<1> QED BY <1>1, <1>2, <1>3

\* The shape of a step that only asks.
LEMMA AskKeeps ==
  ASSUME OwnPauseInv, NEW what \in {"pause", "resume", "end"}, NEW by \in {"user", "call"}, AskFor(what, by),
         phase \in {"recording", "paused"},
         what = "pause" => phase = "recording", what = "resume" => phase = "paused",
         what = "resume" /\ by = "call" => pauser = "call",
         callActive' \in BOOLEAN,
         UNCHANGED <<phase, meeting, started, recognitionVars, turn, chain, diskVars, pausedBy, pauser>>
  PROVE  OwnPauseInv'
<1> USE DEF OwnPauseInv
<1>1. toDo' \in Seq(Asked)
  BY AskWaits
<1>2. ControlTypes'
  BY <1>1 DEF ControlTypes, recognitionVars, diskVars
<1>3. TurnInv'
  BY DEF TurnInv, diskVars
<1>4. /\ what = "pause" => Standing # "paused"
      /\ what = "resume" => Standing # "recording"
      /\ what = "pause" => ~(turn.what = "resume" /\ turn.at = "op")
      /\ what = "resume" => turn.what # "pause"
  BY DEF TurnInv, Standing
<1>5. QueueInv' /\ PauserInv'
  BY <1>4, AskKeepsQueue
<1> QED BY <1>2, <1>3, <1>5

LEMMA TapsAndCallsKeep ==
  ASSUME OwnPauseInv, Tap \/ CallStarts \/ CallEnds
  PROVE  OwnPauseInv'
<1>0. ControlTypes /\ TurnInv /\ QueueInv /\ PauserInv
  BY DEF OwnPauseInv
<1>1. CASE Tap
  <2>1. UNCHANGED <<phase, meeting, started, recognitionVars, turn, chain, diskVars, pausedBy, pauser>>
        /\ callActive' \in BOOLEAN
    BY <1>0, <1>1 DEF Tap, phoneCallVars, ControlTypes
  <2>2. PICK what \in {"pause", "resume", "end"} :
          /\ AskFor(what, "user") /\ phase \in {"recording", "paused"}
          /\ what = "pause" => phase = "recording"
          /\ what = "resume" => phase = "paused"
    BY <1>1 DEF Tap
  <2> QED BY <2>1, <2>2, AskKeeps
<1>2. CASE CallStarts
  <2>1. UNCHANGED <<phase, meeting, started, recognitionVars, turn, chain, diskVars, pausedBy, pauser>>
        /\ callActive' \in BOOLEAN
    BY <1>0, <1>2 DEF CallStarts, ControlTypes
  <2>2. CASE phase = "recording"
    BY <1>2, <2>1, <2>2, AskKeeps DEF CallStarts
  <2>3. CASE phase # "recording"
    BY <1>0, <1>2, <2>1, <2>3 DEF CallStarts, OwnPauseInv, ControlTypes, TurnInv, QueueInv, PauserInv, Standing,
                                  Waits, recognitionVars, diskVars
  <2> QED BY <2>2, <2>3
<1>3. CASE CallEnds
  <2>1. UNCHANGED <<phase, meeting, started, recognitionVars, turn, chain, diskVars, pausedBy, pauser>>
        /\ callActive' \in BOOLEAN
    BY <1>0, <1>3 DEF CallEnds, ControlTypes
  <2>2. CASE UndoesPause
    BY <1>0, <1>3, <2>1, <2>2, AskKeeps DEF CallEnds, UndoesPause, PauserInv
  <2>3. CASE ~UndoesPause
    BY <1>0, <1>3, <2>1, <2>3 DEF CallEnds, OwnPauseInv, ControlTypes, TurnInv, QueueInv, PauserInv, Standing,
                                  Waits, recognitionVars, diskVars
  <2> QED BY <2>2, <2>3
<1> QED BY <1>1, <1>2, <1>3

\* The microphone is off, and what was half said is handed over.
LEMMA SilencedTypes ==
  ASSUME ControlTypes, Silenced
  PROVE  unsaved' \in Seq(Utterances) /\ utterances' \in Nat /\ listening' = FALSE
<1> USE ControlAssumption
<1>1. PICK u : u = [m |-> started, n |-> utterances + 1]
  OBVIOUS
<1>2. u \in Utterances
  BY <1>1 DEF Utterances, ControlTypes
<1>3. /\ listening' = FALSE
      /\ \/ UNCHANGED <<unsaved, utterances>>
         \/ utterances' = utterances + 1 /\ unsaved' = Append(unsaved, u)
  BY <1>1 DEF Silenced
<1>4. unsaved \in Seq(Utterances) /\ utterances \in Nat
  BY DEF ControlTypes
<1>5. Append(unsaved, u) \in Seq(Utterances)
  BY <1>2, <1>4
<1> QED BY <1>3, <1>4, <1>5

LEMMA TakeTurnKeeps == OwnPauseInv /\ TakeTurn => OwnPauseInv'
<1> SUFFICES ASSUME OwnPauseInv, TakeTurn PROVE OwnPauseInv'
  OBVIOUS
<1>1. ControlTypes /\ TurnInv /\ QueueInv /\ PauserInv /\ turn = NoTurn /\ toDo # <<>> /\ toDo' = Tail(toDo)
  BY DEF OwnPauseInv, TakeTurn
<1>2. /\ toDo' \in Seq(Asked) /\ 1 \in DOMAIN toDo /\ Head(toDo) = toDo[1]
      /\ \A i \in DOMAIN toDo' : i \in Nat /\ i + 1 \in DOMAIN toDo /\ toDo'[i] = toDo[i + 1] /\ i + 1 > 1
  BY <1>1, TakeWaits
<1>3. PICK what, by : what = Head(toDo).what /\ by = Head(toDo).by
  OBVIOUS
<1>4. what \in {"pause", "resume", "end"} /\ by \in {"user", "call"}
  BY <1>1, <1>2, <1>3, WhoWaits
<1>5. /\ \A w \in {"pause", "resume"} : \A i \in Waits(w)' : i \in Nat /\ i + 1 \in Waits(w) /\ toDo'[i] = toDo[i + 1]
      /\ what \in {"pause", "resume"} => 1 \in Waits(what) /\ toDo[1].by = by
      /\ \A w \in {"pause", "resume"} : \A i \in Waits(w) : i \in Nat /\ i >= 1
  <2>1. DOMAIN toDo = 1 .. Len(toDo) /\ Len(toDo) \in Nat
    BY <1>1, WhoWaits
  <2> QED BY <1>2, <1>3, <2>1 DEF Waits
<1>6. UNCHANGED <<phase, meeting, started, wired, chain, diskVars, phoneCallVars>>
  BY DEF TakeTurn
<1>7. CASE ~Allowed(what)
  <2>1. UNCHANGED <<turn, listening, unsaved, utterances>>
    BY <1>3, <1>7 DEF TakeTurn
  <2>2. ControlTypes'
    BY <1>1, <1>2, <1>6, <2>1 DEF ControlTypes, diskVars, phoneCallVars
  <2>3. TurnInv'
    BY <1>1, <1>6, <2>1 DEF TurnInv, diskVars
  <2>4. Standing' = Standing
    BY <1>6, <2>1 DEF Standing
  <2>5. QueueInv'
    BY <1>1, <1>5, <2>1, <2>4 DEF QueueInv
  <2>6. PauserInv'
    BY <1>1, <1>5, <1>6, <2>1, <2>4 DEF PauserInv, phoneCallVars
  <2> QED BY <2>2, <2>3, <2>5, <2>6 DEF OwnPauseInv
<1>8. CASE Allowed(what)
  <2>1. PICK at : at = IF what = "resume" THEN "op" ELSE "silence"
    OBVIOUS
  <2>2. turn' = [what |-> what, by |-> by, at |-> at, from |-> phase, m |-> meeting]
    BY <1>3, <1>8, <2>1 DEF TakeTurn
  <2>3. turn'.what = what /\ turn'.by = by /\ turn'.at = at /\ turn'.from = phase /\ turn'.m = meeting
    BY <2>2
  <2>4. turn' \in Turns
    BY <1>1, <1>4, <2>1, <2>2, ControlAssumption DEF Turns, ControlTypes
  <2>5. unsaved' \in Seq(Utterances) /\ utterances' \in Nat /\ listening' \in BOOLEAN
    <3>1. IF what = "resume" THEN UNCHANGED <<listening, unsaved, utterances>> ELSE Silenced
      BY <1>3, <1>8 DEF TakeTurn
    <3> QED BY <1>1, <3>1, SilencedTypes DEF ControlTypes
  <2>6. ControlTypes'
    BY <1>1, <1>2, <1>6, <2>4, <2>5 DEF ControlTypes, diskVars, phoneCallVars
  <2>7. /\ what = "pause" => phase = "recording"
        /\ what = "resume" => phase = "paused"
        /\ what = "end" => phase \in {"recording", "paused"}
    BY <1>4, <1>8 DEF Allowed
  <2>8. TurnInv'
    BY <1>1, <1>4, <1>6, <2>1, <2>3, <2>7 DEF TurnInv, diskVars
  <2>9. Standing' = phase /\ Standing = phase
    BY <1>1, <1>6, <2>3, NoTurnFields DEF Standing
  <2>10. QueueInv'
    <3>1. what = "pause" => Waits("resume") = {}
      BY <1>1, <1>5, <2>7, <2>9 DEF QueueInv
    <3>2. what = "resume" => Waits("pause") = {}
      BY <1>1, <1>5, <2>7, <2>9 DEF QueueInv
    <3> QED BY <1>1, <1>5, <2>3, <2>9, <3>1, <3>2 DEF QueueInv
  <2>11. PauserInv'
    BY <1>1, <1>5, <1>6, <2>3, <2>7, <2>9 DEF PauserInv, phoneCallVars
  <2> QED BY <2>6, <2>8, <2>10, <2>11 DEF OwnPauseInv
<1> QED BY <1>7, <1>8

\* A step that moves the turn along and leaves the queue as it is.
LEMMA SilenceDoneKeeps == OwnPauseInv /\ SilenceDone => OwnPauseInv'
<1> SUFFICES ASSUME OwnPauseInv, SilenceDone PROVE OwnPauseInv'
  OBVIOUS
<1>1. ControlTypes /\ TurnInv /\ QueueInv /\ PauserInv /\ turn \in Turns
  BY DEF OwnPauseInv, ControlTypes
<1>2. PICK at \in {"settle", "op"} : turn' = [turn EXCEPT !.at = at] /\ at = IF turn.what = "end" THEN "settle" ELSE "op"
  BY DEF SilenceDone
<1>3. turn' \in Turns /\ turn'.what = turn.what /\ turn'.by = turn.by /\ turn'.at = at /\ turn'.from = turn.from
      /\ turn'.m = turn.m
  <2>0. turn \in Turns
    BY <1>1
  <2>1. CASE at = "settle"
    <3>1. turn' = [turn EXCEPT !.at = "settle"]
      BY <1>2, <2>1
    <3>2. turn' \in Turns /\ turn'.what = turn.what /\ turn'.by = turn.by /\ turn'.at = "settle"
          /\ turn'.from = turn.from /\ turn'.m = turn.m
      BY <2>0, <3>1 DEF Turns
    <3> QED BY <2>1, <3>2
  <2>2. CASE at = "op"
    <3>1. turn' = [turn EXCEPT !.at = "op"]
      BY <1>2, <2>2
    <3>2. turn' \in Turns /\ turn'.what = turn.what /\ turn'.by = turn.by /\ turn'.at = "op"
          /\ turn'.from = turn.from /\ turn'.m = turn.m
      BY <2>0, <3>1 DEF Turns
    <3> QED BY <2>2, <3>2
  <2> QED BY <1>2, <2>1, <2>2
<1>4. turn.what \in {"pause", "end"} /\ turn.at = "silence"
  BY <1>1, TurnFields DEF TurnInv, SilenceDone
<1>5. phase' = (IF turn.what = "end" THEN "ending" ELSE phase) /\ pausedBy' = (IF turn.what = "end" THEN "none" ELSE pausedBy)
      /\ wired' \in BOOLEAN /\ UNCHANGED <<meeting, started, listening, unsaved, utterances, toDo, chain, diskVars, pauser,
                                           callActive>>
  BY <1>1 DEF SilenceDone, ControlTypes
<1>6. ControlTypes'
  BY <1>1, <1>3, <1>5 DEF ControlTypes, diskVars
<1>7. TurnInv'
  BY <1>1, <1>2, <1>3, <1>4, <1>5 DEF TurnInv, diskVars
<1>8. Standing' = Standing /\ (\A w : Waits(w)' = Waits(w))
  BY <1>3, <1>4, <1>5 DEF Standing, Waits
<1>9. QueueInv'
  BY <1>1, <1>2, <1>3, <1>4, <1>8 DEF QueueInv
<1>10. PauserInv'
  BY <1>1, <1>3, <1>4, <1>5, <1>8 DEF PauserInv
<1> QED BY <1>6, <1>7, <1>9, <1>10 DEF OwnPauseInv

LEMMA TurnMovesKeep ==
  ASSUME OwnPauseInv, SilenceFails \/ TranslationsSettled \/ ResumeListens \/ EndRecorded \/ OpFails
  PROVE  OwnPauseInv'
<1>0. ControlTypes /\ TurnInv /\ QueueInv /\ PauserInv /\ turn \in Turns
  BY DEF OwnPauseInv, ControlTypes
<1>1. turn.what \in {"none", "pause", "resume", "end"}
  BY <1>0, TurnFields
<1>2. CASE TranslationsSettled
  <2>1. turn' \in Turns /\ turn'.what = turn.what /\ turn'.by = turn.by /\ turn'.at = "op" /\ turn'.from = turn.from
        /\ turn'.m = turn.m /\ turn.what = "end" /\ turn.at = "settle"
    BY <1>0, <1>1, <1>2, TurnFields DEF TranslationsSettled, TurnInv
  <2>2. UNCHANGED <<phase, meeting, started, recognitionVars, toDo, chain, diskVars, phoneCallVars>>
    BY <1>2 DEF TranslationsSettled
  <2>3. ControlTypes'
    BY <1>0, <2>1, <2>2 DEF ControlTypes, diskVars, phoneCallVars, recognitionVars
  <2>4. TurnInv'
    BY <1>0, <2>1, <2>2 DEF TurnInv, diskVars
  <2>5. Standing' = Standing /\ (\A w : Waits(w)' = Waits(w))
    BY <2>1, <2>2 DEF Standing, Waits
  <2> QED BY <1>0, <2>1, <2>2, <2>3, <2>4, <2>5 DEF OwnPauseInv, QueueInv, PauserInv, phoneCallVars
<1>3. CASE SilenceFails \/ ResumeListens \/ EndRecorded \/ OpFails
  <2>1. turn' = NoTurn /\ turn'.what = "none" /\ turn'.at = "none" /\ turn' \in Turns
    BY <1>3, NoTurnFields DEF SilenceFails, ResumeListens, EndRecorded, OpFails
  <2>2. /\ UNCHANGED <<meeting, started, wired, unsaved, utterances, toDo, chain, lines, local, pauser, callActive,
                       callCount>>
        /\ pausedBy' \in {pausedBy, "none"}
    BY <1>3 DEF SilenceFails, ResumeListens, EndRecorded, OpFails, diskVars, recognitionVars, phoneCallVars
  <2>3. listening' \in BOOLEAN
    BY <1>0, <1>3 DEF SilenceFails, ResumeListens, EndRecorded, OpFails, recognitionVars, ControlTypes
  <2>4. ops' \in [MtgNumbers -> Seq({"pause", "resume", "end"})]
    <3>1. CASE EndRecorded
      <4>1. turn.m \in MtgNumbers /\ turn.what \in {"pause", "resume", "end"}
        BY <1>0, <1>1, <3>1, ControlAssumption DEF EndRecorded, TurnInv, ControlTypes, MtgNumbers
      <4>2. Append(ops[turn.m], turn.what) \in Seq({"pause", "resume", "end"})
        BY <1>0, <4>1 DEF ControlTypes
      <4> QED BY <1>0, <3>1, <4>1, <4>2 DEF EndRecorded, Recorded, ControlTypes
    <3>2. CASE SilenceFails \/ ResumeListens \/ OpFails
      BY <1>0, <3>2 DEF SilenceFails, ResumeListens, OpFails, diskVars, ControlTypes
    <3> QED BY <1>3, <3>1, <3>2
  <2>5. \/ phase' = phase /\ (turn.what = "end" => phase = "idle" \/ phase = "ending" \/ phase = turn.from)
        \/ turn.what = "end" /\ phase' = turn.from /\ phase' \in {"recording", "paused"} /\ phase \in {"idle", "ending"}
    BY <1>0, <1>3 DEF SilenceFails, ResumeListens, EndRecorded, OpFails, TurnInv
  <2>6. ControlTypes'
    <3>1. phase' \in {"idle", "recording", "paused", "ending"}
      BY <1>0, <2>5 DEF ControlTypes
    <3> QED BY <1>0, <2>1, <2>2, <2>3, <2>4, <3>1 DEF ControlTypes, phoneCallVars
  <2>7. TurnInv'
    BY <1>0, <1>3, <2>1, <2>2, <2>5 DEF TurnInv, SilenceFails, ResumeListens, EndRecorded, OpFails
  <2>8. Standing' = phase' /\ (\A w : Waits(w)' = Waits(w)) /\ (Standing' \in {"paused", "recording"} => Standing' = Standing)
    BY <2>1, <2>2, <2>5 DEF Standing, Waits
  <2>9. QueueInv'
    BY <1>0, <2>1, <2>8 DEF QueueInv
  <2>10. PauserInv'
    BY <1>0, <2>1, <2>2, <2>5, <2>8 DEF PauserInv, phoneCallVars
  <2> QED BY <2>6, <2>7, <2>9, <2>10 DEF OwnPauseInv
<1> QED BY <1>2, <1>3

\* The operation of the turn is appended to those of its meeting.
LEMMA RecordedTypes ==
  ASSUME ControlTypes, TurnInv, Recorded, turn.what # "none"
  PROVE  /\ ops' \in [MtgNumbers -> Seq({"pause", "resume", "end"})]
         /\ started \in MtgNumbers /\ turn.m = started
<1>1. turn.m \in MtgNumbers /\ turn.what \in {"pause", "resume", "end"} /\ turn.m = started
  <2>1. turn \in Turns /\ started \in 0 .. MaxMeetings
    BY DEF ControlTypes
  <2>2. turn.what \in {"pause", "resume", "end"}
    BY <2>1, TurnFields
  <2>3. started > 0 /\ turn.m = started
    BY DEF TurnInv
  <2> QED BY <2>1, <2>2, <2>3, ControlAssumption DEF MtgNumbers
<1>2. Append(ops[turn.m], turn.what) \in Seq({"pause", "resume", "end"})
  BY <1>1 DEF ControlTypes
<1> QED BY <1>1, <1>2 DEF Recorded, ControlTypes

LEMMA PauseRecordedKeeps == OwnPauseInv /\ PauseRecorded => OwnPauseInv'
<1> SUFFICES ASSUME OwnPauseInv, PauseRecorded PROVE OwnPauseInv'
  OBVIOUS
<1>1. /\ ControlTypes /\ TurnInv /\ QueueInv /\ PauserInv /\ turn \in Turns
      /\ turn.what = "pause" /\ turn.at = "op" /\ Recorded /\ turn' = NoTurn /\ phase' = "paused" /\ pauser' = turn.by
      /\ pausedBy' = (IF turn.by = "call" THEN "call" ELSE pausedBy)
      /\ UNCHANGED <<meeting, started, recognitionVars, chain, lines, local, callActive>>
  BY DEF OwnPauseInv, PauseRecorded, ControlTypes
<1>2. turn.by \in {"user", "call"} /\ turn'.what = "none" /\ turn'.at = "none" /\ turn' \in Turns
      /\ phase \in {"idle", "recording"} /\ pausedBy = "none"
  BY <1>1, TurnFields, NoTurnFields DEF TurnInv, PauserInv
<1>3. ops' \in [MtgNumbers -> Seq({"pause", "resume", "end"})] /\ started \in MtgNumbers
  BY <1>1, RecordedTypes
<1>4. \/ UNCHANGED toDo
      \/ turn.by = "call" /\ AskFor("resume", "call")
  BY DEF PauseRecorded
<1>5. toDo' \in Seq(Asked)
  BY <1>1, <1>4, AskWaits DEF ControlTypes
<1>6. ControlTypes'
  BY <1>1, <1>2, <1>3, <1>5 DEF ControlTypes, recognitionVars
<1>7. TurnInv'
  BY <1>1, <1>2, <1>3 DEF TurnInv, MtgNumbers
<1>8. Standing' = "paused" /\ Waits("resume") = {}
  BY <1>1, <1>2 DEF Standing, QueueInv
<1>9. \A i \in Waits("resume")', j \in Waits("pause")' : j < i /\ turn.by = "call"
  <2>1. CASE UNCHANGED toDo
    BY <1>8, <2>1 DEF Waits
  <2>2. CASE turn.by = "call" /\ AskFor("resume", "call")
    <3>1. \A i \in DOMAIN toDo' : \/ i \in DOMAIN toDo /\ toDo'[i] = toDo[i] /\ i < Len(toDo) + 1
                                  \/ i = Len(toDo) + 1 /\ toDo'[i].what = "resume" /\ toDo'[i].by = "call"
      BY <1>1, <2>2, AskWaits
    <3> QED BY <1>8, <2>2, <3>1 DEF Waits
  <2> QED BY <1>4, <2>1, <2>2
<1>10. Waits("resume")' # {} => turn.by = "call"
  BY <1>4, <1>8 DEF Waits
<1>11. QueueInv'
  BY <1>2, <1>8, <1>9 DEF QueueInv
<1>12. PauserInv'
  BY <1>1, <1>2, <1>8, <1>10 DEF PauserInv
<1> QED BY <1>6, <1>7, <1>11, <1>12 DEF OwnPauseInv

LEMMA ResumeRecordedKeeps == OwnPauseInv /\ ResumeRecorded => OwnPauseInv'
<1> SUFFICES ASSUME OwnPauseInv, ResumeRecorded PROVE OwnPauseInv'
  OBVIOUS
<1>1. /\ ControlTypes /\ TurnInv /\ QueueInv /\ PauserInv /\ turn \in Turns
      /\ turn.what = "resume" /\ turn.at = "op" /\ Recorded /\ phase' = "recording" /\ pausedBy' = "none"
      /\ UNCHANGED <<meeting, started, recognitionVars, toDo, chain, lines, local, pauser, callActive>>
  BY DEF OwnPauseInv, ResumeRecorded, ControlTypes
<1>2. turn' \in Turns /\ turn'.what = "resume" /\ turn'.at = "listen" /\ turn'.by = turn.by /\ turn'.m = turn.m
  BY <1>1, TurnFields DEF ResumeRecorded
<1>3. ops' \in [MtgNumbers -> Seq({"pause", "resume", "end"})] /\ started \in MtgNumbers
  BY <1>1, RecordedTypes
<1>4. ControlTypes'
  BY <1>1, <1>2, <1>3 DEF ControlTypes, recognitionVars
<1>5. TurnInv'
  BY <1>1, <1>2 DEF TurnInv
<1>6. Standing' = "recording" /\ Waits("pause")' = {}
  BY <1>1, <1>2 DEF Standing, QueueInv, Waits
<1> QED BY <1>1, <1>2, <1>4, <1>5, <1>6 DEF OwnPauseInv, QueueInv, PauserInv

LEMMA FinishAndKillKeep ==
  ASSUME OwnPauseInv, Finish \/ Kill
  PROVE  OwnPauseInv'
<1>0. ControlTypes /\ TurnInv /\ QueueInv /\ PauserInv
  BY DEF OwnPauseInv
<1>1. CASE Finish
  <2>1. ControlTypes'
    BY <1>0, <1>1 DEF Finish, ControlTypes, recognitionVars
  <2>2. TurnInv'
    BY <1>0, <1>1 DEF Finish, TurnInv
  <2>3. (Standing' \in {"paused", "recording"} => Standing' = Standing) /\ (\A w : Waits(w)' = Waits(w))
    BY <1>1 DEF Finish, Standing, Waits
  <2> QED BY <1>0, <1>1, <2>1, <2>2, <2>3 DEF Finish, OwnPauseInv, QueueInv, PauserInv
<1>2. CASE Kill
  <2>1. turn' = NoTurn /\ turn' \in Turns /\ turn'.what = "none" /\ turn'.at = "none" /\ toDo' = <<>>
    BY <1>2, NoTurnFields DEF Kill
  <2>2. toDo' \in Seq(Asked) /\ unsaved' \in Seq(Utterances) /\ chain' \subseteq Utterances
    BY <1>2 DEF Kill
  <2>3. ControlTypes'
    BY <1>0, <1>2, <2>1, <2>2 DEF Kill, ControlTypes, diskVars
  <2>4. TurnInv'
    BY <1>0, <1>2, <2>1 DEF Kill, TurnInv
  <2>5. Standing' = "idle"
    BY <1>2, <2>1 DEF Kill, Standing
  <2> QED BY <1>2, <2>1, <2>3, <2>4, <2>5 DEF Kill, OwnPauseInv, QueueInv, PauserInv
<1> QED BY <1>1, <1>2

LEMMA ResumeUnfinishedKeeps == OwnPauseInv /\ ResumeUnfinished => OwnPauseInv'
<1> SUFFICES ASSUME OwnPauseInv, ResumeUnfinished PROVE OwnPauseInv'
  OBVIOUS
<1>1. /\ ControlTypes /\ TurnInv /\ PauserInv /\ phase = "idle" /\ turn = NoTurn /\ started \in local
      /\ meeting' = started /\ pauser' = "user"
      /\ UNCHANGED <<started, unsaved, utterances, turn, diskVars, pausedBy, callActive>>
  BY DEF OwnPauseInv, ResumeUnfinished
<1>2. /\ toDo = <<>> /\ pausedBy = "none" /\ started \in MtgNumbers /\ started \in 0 .. MaxMeetings /\ started > 0
      /\ turn.what = "none" /\ turn.at = "none"
  BY <1>1, NoTurnFields, ControlAssumption DEF TurnInv, PauserInv, ControlTypes, MtgNumbers
<1>3. \/ phase' \in {"ending", "recording"} /\ UNCHANGED toDo
      \/ phase' = "paused" /\ AskFor("resume", "user")
  BY DEF ResumeUnfinished
<1>4. wired' \in BOOLEAN /\ listening' \in BOOLEAN
  BY <1>1 DEF ResumeUnfinished, ControlTypes
<1>5. chain' \subseteq Utterances
  <2>1. lines[started] \in Seq(Nat)
    BY <1>1, <1>2 DEF ControlTypes
  <2>2. \A i \in DOMAIN lines[started] : lines[started][i] \in Nat
    BY <2>1
  <2>3. started \in Nat
    BY <1>2, ControlAssumption
  <2>4. {[m |-> started, n |-> lines[started][i]] : i \in DOMAIN lines[started]} \subseteq Utterances
    BY <2>2, <2>3 DEF Utterances
  <2>5. \/ UNCHANGED chain
        \/ \E some \in SUBSET {[m |-> started, n |-> lines[started][i]] : i \in DOMAIN lines[started]} : chain' = some
    BY DEF ResumeUnfinished
  <2> QED BY <1>1, <2>4, <2>5 DEF ControlTypes
<1>6. /\ toDo' \in Seq(Asked)
      /\ \A i \in DOMAIN toDo' : toDo'[i].what = "resume" /\ toDo'[i].by = "user" /\ phase' = "paused"
  <2>1. CASE UNCHANGED toDo
    BY <1>1, <1>2, <2>1 DEF ControlTypes
  <2>2. CASE phase' = "paused" /\ AskFor("resume", "user")
    <3>1. DOMAIN toDo = {}
      BY <1>2
    <3> QED BY <1>1, <2>2, <3>1, AskWaits
  <2> QED BY <1>3, <2>1, <2>2
<1>7. ControlTypes'
  BY <1>1, <1>2, <1>3, <1>4, <1>5, <1>6 DEF ControlTypes, diskVars
<1>8. TurnInv'
  BY <1>1, <1>2, <1>3 DEF TurnInv
<1>9. Standing' = phase' /\ Waits("pause")' = {} /\ \A i \in Waits("resume")' : toDo'[i].by # "call"
  BY <1>1, <1>2, <1>6 DEF Standing, Waits
<1>10. QueueInv' /\ PauserInv'
  BY <1>1, <1>2, <1>3, <1>9 DEF QueueInv, PauserInv
<1> QED BY <1>7, <1>8, <1>10 DEF OwnPauseInv

LEMMA OwnPauseStep == OwnPauseInv /\ [ControlNext]_controlVars => OwnPauseInv'
<1> SUFFICES ASSUME OwnPauseInv, [ControlNext]_controlVars PROVE OwnPauseInv'
  OBVIOUS
<1>1. CASE UNCHANGED controlVars
  BY <1>1 DEF controlVars, OwnPauseInv, ControlTypes, TurnInv, QueueInv, PauserInv, Standing, Waits
<1>2. CASE ControlNext
  BY <1>2, HeardKeeps, StartKeeps, TapsAndCallsKeep, TakeTurnKeeps, SilenceDoneKeeps, TurnMovesKeep, PauseRecordedKeeps,
     ResumeRecordedKeeps, FinishAndKillKeep, ResumeUnfinishedKeeps DEF ControlNext
<1> QED BY <1>1, <1>2

\* A call resumes only a pause that a call made, whatever taps, calls and deaths of the app come
\* together (call-interruption.ts).
THEOREM OnlyOwnPauseUndoneCorrect == ControlSpec => OnlyOwnPauseUndone
<1>1. ControlInit => OwnPauseInv
  BY OwnPauseInit
<1>2. OwnPauseInv => (ResumeRecorded /\ turn.by = "call" => pauser = "call")
  BY DEF OwnPauseInv, PauserInv, ResumeRecorded
<1>3. OwnPauseInv /\ [ControlNext]_controlVars => OwnPauseInv'
  BY OwnPauseStep
<1> QED BY <1>1, <1>2, <1>3, PTL DEF ControlSpec, OnlyOwnPauseUndone

------------------------------------------------------------------------------
(* What is recorded of a meeting can be sent as it is.                     *)

OpNames == {"pause", "resume", "end"}

Due(k) == IF k % 2 = 1 THEN "pause" ELSE "resume"

Alternates(s) == \A i \in DOMAIN s : s[i] \in {Due(i), "end"} /\ (s[i] = "end" => i = Len(s))

Ended(s) == \E i \in DOMAIN s : s[i] = "end"

\* Nothing of a meeting is on its way.
Quiet(m) == (\A j \in DOMAIN unsaved : unsaved[j].m # m) /\ (\A line \in chain : line.m # m)

OpsInv ==
  \A m \in MtgNumbers :
    /\ Alternates(ops[m])
    /\ Ended(ops[m]) => Quiet(m)
    /\ m > started => ops[m] = <<>>

\* Pauses and resumes come in turns because of where the meeting stands, or will stand.
OddUnderWay == Standing = "paused" \/ (turn.what = "resume" /\ turn.at = "op")
EvenUnderWay == Standing = "recording" \/ turn.what = "pause"

HereInv ==
  started \in MtgNumbers =>
    /\ Ended(ops[started]) => phase \in {"idle", "ending"} /\ turn.what = "none" /\ listening = FALSE
    /\ OddUnderWay => Len(ops[started]) % 2 = 1
    /\ EvenUnderWay => Len(ops[started]) % 2 = 0

\* An end waits until nothing is on its way any more.
EndingInv ==
  /\ turn.what \in {"pause", "end"} => listening = FALSE
  /\ turn.what = "end" /\ turn.at \in {"settle", "op"} => unsaved = <<>>
  /\ turn.what = "end" /\ turn.at = "op" => chain = {}

CompleteInv == OwnPauseInv /\ OpsInv /\ HereInv /\ EndingInv

LEMMA CompleteInit == ControlInit => CompleteInv
<1> SUFFICES ASSUME ControlInit PROVE CompleteInv
  OBVIOUS
<1>1. \A m \in MtgNumbers : ops[m] = <<>>
  BY DEF ControlInit
<1>2. OpsInv
  BY <1>1 DEF OpsInv, Alternates, Ended
<1>3. started \notin MtgNumbers
  BY ControlAssumption DEF ControlInit, MtgNumbers
<1> QED BY <1>2, <1>3, OwnPauseInit, NoTurnFields DEF CompleteInv, HereInv, EndingInv, ControlInit

LEMMA OpsOf ==
  ASSUME ControlTypes, NEW m \in MtgNumbers
  PROVE  ops[m] \in Seq(OpNames) /\ Len(ops[m]) \in Nat /\ DOMAIN ops[m] = 1 .. Len(ops[m])
<1>1. ops[m] \in Seq(OpNames)
  BY DEF ControlTypes, OpNames
<1> QED BY <1>1

LEMMA AppendOp ==
  ASSUME NEW s \in Seq(OpNames), Alternates(s), ~Ended(s),
         NEW op \in OpNames, op \in {Due(Len(s) + 1), "end"}
  PROVE  /\ Alternates(Append(s, op)) /\ Len(Append(s, op)) = Len(s) + 1
         /\ Ended(Append(s, op)) => op = "end"
<1>1. /\ Len(Append(s, op)) = Len(s) + 1 /\ Len(s) \in Nat
      /\ DOMAIN s = 1 .. Len(s) /\ DOMAIN Append(s, op) = 1 .. (Len(s) + 1)
      /\ \A i \in 1 .. Len(s) : Append(s, op)[i] = s[i]
      /\ Append(s, op)[Len(s) + 1] = op
  OBVIOUS
<1>2. \A i \in 1 .. (Len(s) + 1) : i \in 1 .. Len(s) \/ i = Len(s) + 1
  BY <1>1
<1> QED BY <1>1, <1>2 DEF Alternates, Ended

\* What is on its way after a step was on its way before, or belongs to meeting x.
Moves(x) ==
  /\ \A j \in DOMAIN unsaved' : (\E k \in DOMAIN unsaved : unsaved'[j] = unsaved[k]) \/ unsaved'[j].m = x
  /\ \A line \in chain' : line \in chain \/ (\E k \in DOMAIN unsaved : line = unsaved[k]) \/ line.m = x

LEMMA FewerMove ==
  ASSUME unsaved' = unsaved \/ unsaved' = <<>>, chain' \subseteq chain
  PROVE  Moves(0)
<1>1. DOMAIN <<>> = {}
  OBVIOUS
<1> QED BY <1>1 DEF Moves

LEMMA HandedOverMoves ==
  ASSUME ControlTypes, NEW u \in Utterances, unsaved' = Append(unsaved, u), UNCHANGED chain
  PROVE  Moves(u.m)
<1>1. unsaved \in Seq(Utterances)
  BY DEF ControlTypes
<1>2. /\ \A k \in DOMAIN unsaved : unsaved'[k] = unsaved[k]
      /\ unsaved'[Len(unsaved) + 1] = u
      /\ \A k \in DOMAIN unsaved' : k \in DOMAIN unsaved \/ k = Len(unsaved) + 1
  BY <1>1, AppendFacts
<1> QED BY <1>2 DEF Moves

LEMMA QuietStays ==
  ASSUME NEW x, Moves(x), NEW m, m # x, Quiet(m)
  PROVE  Quiet(m)'
BY DEF Moves, Quiet

LEMMA OpsStay ==
  ASSUME OpsInv, UNCHANGED <<ops, started>>, NEW x, Moves(x), x \in MtgNumbers => ~Ended(ops[x])
  PROVE  OpsInv'
<1> SUFFICES ASSUME NEW m \in MtgNumbers
             PROVE  Alternates(ops'[m]) /\ (Ended(ops'[m]) => Quiet(m)') /\ (m > started' => ops'[m] = <<>>)
  BY DEF OpsInv
<1>1. Alternates(ops[m]) /\ (Ended(ops[m]) => Quiet(m)) /\ (m > started => ops[m] = <<>>)
  BY DEF OpsInv
<1>2. ops' = ops /\ started' = started
  OBVIOUS
<1>3. Ended(ops[m]) => Quiet(m)'
  BY <1>1, QuietStays
<1> QED BY <1>1, <1>2, <1>3

LEMMA NoMeetingZero == 0 \notin MtgNumbers
BY ControlAssumption DEF MtgNumbers

LEMMA HereStays ==
  ASSUME HereInv, UNCHANGED <<ops, started>>, OddUnderWay' => OddUnderWay, EvenUnderWay' => EvenUnderWay,
         started \in MtgNumbers /\ Ended(ops[started]) =>
           phase' \in {"idle", "ending"} /\ turn'.what = "none" /\ listening' = FALSE
  PROVE  HereInv'
<1>1. ops' = ops /\ started' = started
  OBVIOUS
<1>2. started \in MtgNumbers =>
        /\ OddUnderWay => Len(ops[started]) % 2 = 1
        /\ EvenUnderWay => Len(ops[started]) % 2 = 0
  BY DEF HereInv
<1>3. started \in MtgNumbers =>
        /\ Ended(ops[started]) => phase' \in {"idle", "ending"} /\ turn'.what = "none" /\ listening' = FALSE
        /\ OddUnderWay' => Len(ops[started]) % 2 = 1
        /\ EvenUnderWay' => Len(ops[started]) % 2 = 0
  BY <1>2
<1> QED BY <1>1, <1>3 DEF HereInv

\* A step that records nothing and hands nothing over.
LEMMA StaysComplete ==
  ASSUME CompleteInv, UNCHANGED <<ops, started>>, unsaved' = unsaved \/ unsaved' = <<>>, chain' \subseteq chain,
         OddUnderWay' => OddUnderWay, EvenUnderWay' => EvenUnderWay,
         phase \in {"idle", "ending"} /\ turn.what = "none" /\ listening = FALSE =>
           phase' \in {"idle", "ending"} /\ turn'.what = "none" /\ listening' = FALSE
  PROVE  OpsInv' /\ HereInv'
<1>1. OpsInv'
  BY FewerMove, OpsStay, NoMeetingZero DEF CompleteInv
<1>2. HereInv'
  BY HereStays DEF CompleteInv, HereInv
<1> QED BY <1>1, <1>2

LEMMA HeardComplete ==
  ASSUME CompleteInv, Utter \/ SaveSegment \/ TranslationSettles
  PROVE  CompleteInv'
<1>0. ControlTypes /\ OpsInv /\ HereInv /\ EndingInv /\ OwnPauseInv' /\ UNCHANGED <<ops, started, turn, phase, listening>>
  BY HeardKeeps DEF CompleteInv, OwnPauseInv, Utter, SaveSegment, TranslationSettles, diskVars, recognitionVars
<1>1. (OddUnderWay' => OddUnderWay) /\ (EvenUnderWay' => EvenUnderWay)
  BY <1>0 DEF OddUnderWay, EvenUnderWay, Standing
<1>2. HereInv'
  BY <1>0, <1>1, HereStays DEF HereInv
<1>3. CASE Utter
  <2>1. PICK u : u = [m |-> started, n |-> utterances + 1]
    OBVIOUS
  <2>2. u \in Utterances /\ u.m = started /\ unsaved' = Append(unsaved, u) /\ UNCHANGED chain /\ listening
    BY <1>0, <1>3, <2>1, ControlAssumption DEF Utterances, ControlTypes, Utter
  <2>3. Moves(started)
    BY <1>0, <2>2, HandedOverMoves
  <2>4. OpsInv'
    BY <1>0, <2>2, <2>3, OpsStay DEF HereInv
  <2>5. EndingInv'
    BY <1>0, <2>2, NoTurnFields, TurnFields DEF EndingInv, ControlTypes
  <2> QED BY <1>0, <1>2, <2>4, <2>5 DEF CompleteInv
<1>4. CASE SaveSegment
  <2>1. unsaved \in Seq(Utterances) /\ unsaved # <<>> /\ unsaved' = Tail(unsaved) /\ chain' = chain \cup {Head(unsaved)}
    BY <1>0, <1>4 DEF SaveSegment, ControlTypes
  <2>2. Moves(0)
    <3>1. 1 \in DOMAIN unsaved /\ Head(unsaved) = unsaved[1]
      BY <2>1
    <3>2. \A j \in DOMAIN Tail(unsaved) : j + 1 \in DOMAIN unsaved /\ Tail(unsaved)[j] = unsaved[j + 1]
      BY <2>1
    <3> QED BY <2>1, <3>1, <3>2 DEF Moves
  <2>3. OpsInv'
    BY <1>0, <2>2, OpsStay, NoMeetingZero
  <2>4. EndingInv'
    BY <1>0, <2>1 DEF EndingInv
  <2> QED BY <1>0, <1>2, <2>3, <2>4 DEF CompleteInv
<1>5. CASE TranslationSettles
  <2>1. UNCHANGED unsaved /\ chain' \subseteq chain
    BY <1>5 DEF TranslationSettles, recognitionVars
  <2>2. OpsInv'
    BY <1>0, <2>1, FewerMove, OpsStay, NoMeetingZero
  <2>3. EndingInv'
    BY <1>0, <2>1 DEF EndingInv
  <2> QED BY <1>0, <1>2, <2>2, <2>3 DEF CompleteInv
<1> QED BY <1>3, <1>4, <1>5

LEMMA AskedComplete ==
  ASSUME CompleteInv, Tap \/ CallStarts \/ CallEnds
  PROVE  CompleteInv'
<1>1. OwnPauseInv' /\ UNCHANGED <<ops, started, turn, phase, listening, unsaved, chain>>
  BY TapsAndCallsKeep DEF CompleteInv, Tap, CallStarts, CallEnds, diskVars, recognitionVars
<1>2. (OddUnderWay' => OddUnderWay) /\ (EvenUnderWay' => EvenUnderWay)
  BY <1>1 DEF OddUnderWay, EvenUnderWay, Standing
<1>3. OpsInv' /\ HereInv'
  BY <1>1, <1>2, StaysComplete
<1>4. EndingInv'
  BY <1>1 DEF EndingInv, CompleteInv
<1> QED BY <1>1, <1>3, <1>4 DEF CompleteInv

LEMMA StartComplete == CompleteInv /\ StartRecordingMeeting => CompleteInv'
<1> SUFFICES ASSUME CompleteInv, StartRecordingMeeting PROVE CompleteInv'
  OBVIOUS
<1>1. /\ OwnPauseInv' /\ ControlTypes /\ OpsInv /\ turn = NoTurn /\ turn' = NoTurn /\ phase' = "recording"
      /\ started < MaxMeetings /\ started' = started + 1 /\ UNCHANGED <<unsaved, chain, ops>>
  BY StartKeeps DEF CompleteInv, OwnPauseInv, StartRecordingMeeting
<1>2. started \in Nat /\ started' \in MtgNumbers /\ started' > started /\ (\A m \in MtgNumbers : m \in Nat)
  BY <1>1, ControlAssumption DEF ControlTypes, MtgNumbers
<1>3. OpsInv'
  <2>1. ASSUME NEW m \in MtgNumbers
        PROVE  Alternates(ops'[m]) /\ (Ended(ops'[m]) => Quiet(m)') /\ (m > started' => ops'[m] = <<>>)
    <3>1. Quiet(m)' = Quiet(m)
      BY <1>1 DEF Quiet
    <3>2. Alternates(ops[m]) /\ (Ended(ops[m]) => Quiet(m)) /\ (m > started => ops[m] = <<>>)
      BY <1>1 DEF OpsInv
    <3>3. ops' = ops
      BY <1>1
    <3>4. m > started' => m > started
      BY <1>2
    <3> QED BY <3>1, <3>2, <3>3, <3>4
  <2> QED BY <2>1 DEF OpsInv
<1>4. ops'[started'] = <<>>
  BY <1>1, <1>2 DEF OpsInv
<1>5. ~Ended(ops'[started']) /\ Len(ops'[started']) % 2 = 0
  BY <1>4 DEF Ended
<1>6. ~OddUnderWay'
  BY <1>1, NoTurnFields DEF OddUnderWay, Standing
<1>7. HereInv'
  BY <1>5, <1>6 DEF HereInv
<1>8. EndingInv'
  BY <1>1, NoTurnFields DEF EndingInv
<1> QED BY <1>1, <1>3, <1>7, <1>8 DEF CompleteInv

LEMMA TakeTurnComplete == CompleteInv /\ TakeTurn => CompleteInv'
<1> SUFFICES ASSUME CompleteInv, TakeTurn PROVE CompleteInv'
  OBVIOUS
<1>1. /\ OwnPauseInv' /\ ControlTypes /\ TurnInv /\ OpsInv /\ HereInv /\ EndingInv /\ turn = NoTurn /\ toDo # <<>>
      /\ UNCHANGED <<ops, started, phase, chain>>
  BY TakeTurnKeeps DEF CompleteInv, OwnPauseInv, TakeTurn, diskVars
<1>2. PICK what, by : what = Head(toDo).what /\ by = Head(toDo).by
  OBVIOUS
<1>3. what \in {"pause", "resume", "end"}
  <2>1. toDo \in Seq(Asked)
    BY <1>1 DEF ControlTypes
  <2>2. Head(toDo) = toDo[1] /\ 1 \in DOMAIN toDo
    BY <1>1, <2>1
  <2> QED BY <1>1, <1>2, <2>2, WhoWaits
<1>4. CASE ~Allowed(what)
  <2>1. UNCHANGED <<turn, listening, unsaved>>
    BY <1>2, <1>4 DEF TakeTurn
  <2>2. (OddUnderWay' => OddUnderWay) /\ (EvenUnderWay' => EvenUnderWay)
    BY <1>1, <2>1 DEF OddUnderWay, EvenUnderWay, Standing
  <2>3. OpsInv' /\ HereInv'
    BY <1>1, <2>1, <2>2, StaysComplete
  <2> QED BY <1>1, <2>1, <2>3 DEF EndingInv, CompleteInv
<1>5. CASE Allowed(what)
  <2>1. PICK at \in {"op", "silence"} :
          turn' = [what |-> what, by |-> by, at |-> at, from |-> phase, m |-> meeting]
          /\ at = IF what = "resume" THEN "op" ELSE "silence"
    BY <1>2, <1>5 DEF TakeTurn
  <2>2. turn'.what = what /\ turn'.at = at /\ turn'.from = phase
    BY <2>1
  <2>3. phase \in {"recording", "paused"} /\ (what = "pause" => phase = "recording") /\ (what = "resume" => phase = "paused")
    BY <1>3, <1>5 DEF Allowed
  <2>4. started \in MtgNumbers => ~Ended(ops[started])
    BY <1>1, <2>3 DEF HereInv
  <2>5. IF what = "resume" THEN UNCHANGED <<listening, unsaved, utterances>> ELSE Silenced
    BY <1>2, <1>5 DEF TakeTurn
  <2>6. Moves(0) \/ Moves(started)
    <3>1. CASE UNCHANGED unsaved
      BY <1>1, <3>1, FewerMove
    <3>2. CASE unsaved' = Append(unsaved, [m |-> started, n |-> utterances + 1])
      <4>1. PICK u : u = [m |-> started, n |-> utterances + 1]
        OBVIOUS
      <4>2. u \in Utterances /\ u.m = started /\ unsaved' = Append(unsaved, u)
        BY <1>1, <3>2, <4>1, ControlAssumption DEF Utterances, ControlTypes
      <4> QED BY <1>1, <4>2, HandedOverMoves
    <3> QED BY <2>5, <3>1, <3>2 DEF Silenced
  <2>7. OpsInv'
    BY <1>1, <2>4, <2>6, OpsStay, NoMeetingZero
  <2>8. (OddUnderWay' => OddUnderWay) /\ (EvenUnderWay' => EvenUnderWay)
    BY <1>1, <2>1, <2>2, <2>3, NoTurnFields DEF OddUnderWay, EvenUnderWay, Standing
  <2>9. HereInv'
    BY <1>1, <2>4, <2>8, HereStays
  <2>10. EndingInv'
    BY <2>1, <2>2, <2>5 DEF EndingInv, Silenced
  <2> QED BY <1>1, <2>7, <2>9, <2>10 DEF CompleteInv
<1> QED BY <1>4, <1>5

\* A step of the turn that records nothing, the end of a meeting on this phone, a death of the app.
LEMMA TurnComplete ==
  ASSUME CompleteInv, SilenceDone \/ SilenceFails \/ TranslationsSettled \/ ResumeListens \/ OpFails \/ Finish \/ Kill
  PROVE  CompleteInv'
<1>1. OwnPauseInv' /\ ControlTypes /\ TurnInv /\ HereInv /\ EndingInv /\ UNCHANGED <<ops, started>> /\ turn \in Turns
  BY SilenceDoneKeeps, TurnMovesKeep, FinishAndKillKeep
     DEF CompleteInv, OwnPauseInv, ControlTypes, SilenceDone, SilenceFails, TranslationsSettled, ResumeListens, OpFails, Finish,
         Kill, diskVars
<1>2. /\ unsaved' = unsaved \/ unsaved' = <<>>
      /\ chain' \subseteq chain
  BY DEF SilenceDone, SilenceFails, TranslationsSettled, ResumeListens, OpFails, Finish, Kill, recognitionVars
<1>3. turn.what \in {"none", "pause", "resume", "end"}
  BY <1>1, TurnFields
<1>4. CASE SilenceDone
  <2>1. PICK at \in {"settle", "op"} : turn' = [turn EXCEPT !.at = at] /\ at = IF turn.what = "end" THEN "settle" ELSE "op"
    BY <1>4 DEF SilenceDone
  <2>2. turn'.what = turn.what /\ turn'.at = at /\ turn'.from = turn.from
    BY <1>1, <2>1 DEF Turns
  <2>3. turn.what \in {"pause", "end"} /\ turn.at = "silence" /\ UNCHANGED <<listening, unsaved, chain>> /\ unsaved = <<>>
    BY <1>1, <1>3, <1>4 DEF SilenceDone, TurnInv, Written
  <2>4. turn.what = "end" \/ UNCHANGED phase
    BY <1>4 DEF SilenceDone
  <2>5. (OddUnderWay' => OddUnderWay) /\ (EvenUnderWay' => EvenUnderWay)
    BY <2>2, <2>3, <2>4 DEF OddUnderWay, EvenUnderWay, Standing
  <2>6. OpsInv' /\ HereInv'
    BY <1>1, <1>2, <2>3, <2>5, StaysComplete
  <2>7. EndingInv'
    BY <1>1, <2>1, <2>2, <2>3 DEF EndingInv
  <2> QED BY <1>1, <2>6, <2>7 DEF CompleteInv
<1>5. CASE TranslationsSettled
  <2>1. turn'.what = turn.what /\ turn'.at = "op" /\ turn'.from = turn.from
    BY <1>1, <1>5 DEF TranslationsSettled, Turns
  <2>2. turn.what = "end" /\ turn.at = "settle" /\ UNCHANGED <<listening, phase, unsaved, chain>> /\ chain = {}
    BY <1>1, <1>3, <1>5 DEF TranslationsSettled, TurnInv, recognitionVars
  <2>3. (OddUnderWay' => OddUnderWay) /\ (EvenUnderWay' => EvenUnderWay)
    BY <2>1, <2>2 DEF OddUnderWay, EvenUnderWay, Standing
  <2>4. OpsInv' /\ HereInv'
    BY <1>1, <1>2, <2>2, <2>3, StaysComplete
  <2>5. EndingInv'
    BY <1>1, <2>1, <2>2 DEF EndingInv
  <2> QED BY <1>1, <2>4, <2>5 DEF CompleteInv
<1>6. CASE SilenceFails \/ ResumeListens \/ OpFails
  <2>1. turn'.what = "none" /\ turn'.at = "none" /\ turn.what # "none"
    BY <1>1, <1>6, NoTurnFields DEF SilenceFails, ResumeListens, OpFails, TurnInv
  <2>2. \/ phase' = phase /\ (turn.what = "end" => phase = "idle" \/ phase = "ending" \/ phase = turn.from)
        \/ turn.what = "end" /\ phase' = turn.from
    BY <1>1, <1>6 DEF SilenceFails, ResumeListens, OpFails, TurnInv
  <2>3. (OddUnderWay' => OddUnderWay) /\ (EvenUnderWay' => EvenUnderWay)
    BY <2>1, <2>2 DEF OddUnderWay, EvenUnderWay, Standing
  <2>4. OpsInv' /\ HereInv'
    BY <1>1, <1>2, <2>1, <2>3, StaysComplete
  <2>5. EndingInv'
    BY <2>1 DEF EndingInv
  <2> QED BY <1>1, <2>4, <2>5 DEF CompleteInv
<1>7. CASE Finish
  <2>1. UNCHANGED <<turn, listening, unsaved, chain>> /\ phase' = "idle"
    BY <1>7 DEF Finish, recognitionVars
  <2>2. (OddUnderWay' => OddUnderWay) /\ (EvenUnderWay' => EvenUnderWay)
    BY <2>1 DEF OddUnderWay, EvenUnderWay, Standing
  <2>3. OpsInv' /\ HereInv'
    BY <1>1, <1>2, <2>1, <2>2, StaysComplete
  <2>4. EndingInv'
    BY <1>1, <2>1 DEF EndingInv
  <2> QED BY <1>1, <2>3, <2>4 DEF CompleteInv
<1>8. CASE Kill
  <2>1. turn'.what = "none" /\ turn'.at = "none" /\ phase' = "idle" /\ listening' = FALSE
    BY <1>8, NoTurnFields DEF Kill
  <2>2. ~OddUnderWay' /\ ~EvenUnderWay'
    BY <2>1 DEF OddUnderWay, EvenUnderWay, Standing
  <2>3. OpsInv' /\ HereInv'
    BY <1>1, <1>2, <2>1, <2>2, StaysComplete
  <2>4. EndingInv'
    BY <2>1 DEF EndingInv
  <2> QED BY <1>1, <2>3, <2>4 DEF CompleteInv
<1> QED BY <1>4, <1>5, <1>6, <1>7, <1>8

\* What the turn records follows what is recorded.
LEMMA RecordedOps ==
  ASSUME CompleteInv, Recorded, UNCHANGED <<started, unsaved, chain>>, turn.what # "none",
         turn.what \in {Due(Len(ops[started]) + 1), "end"},
         turn.what = "end" => unsaved = <<>> /\ chain = {}
  PROVE  /\ OpsInv' /\ started \in MtgNumbers
         /\ Len(ops'[started]) = Len(ops[started]) + 1 /\ Len(ops[started]) \in Nat
         /\ Ended(ops'[started]) => turn.what = "end"
<1>1. ControlTypes /\ TurnInv /\ OpsInv /\ HereInv /\ turn \in Turns
  BY DEF CompleteInv, OwnPauseInv, ControlTypes
<1>2. started \in MtgNumbers /\ turn.m = started /\ turn.what \in OpNames
  BY <1>1, RecordedTypes, TurnFields DEF OpNames
<1>3. PICK s, op : s = ops[started] /\ op = turn.what
  OBVIOUS
<1>4. s \in Seq(OpNames) /\ Len(s) \in Nat /\ Alternates(s) /\ ~Ended(s)
  <2>1. ~Ended(ops[started]) /\ Alternates(ops[started])
    BY <1>1, <1>2 DEF HereInv, OpsInv
  <2> QED BY <1>1, <1>2, <1>3, <2>1, OpsOf
<1>5. /\ Alternates(Append(s, op)) /\ Len(Append(s, op)) = Len(s) + 1
      /\ Ended(Append(s, op)) => op = "end"
  BY <1>2, <1>3, <1>4, AppendOp
<1>6. ops' = [ops EXCEPT ![started] = Append(s, op)] /\ ops \in [MtgNumbers -> Seq(OpNames)]
  BY <1>1, <1>2, <1>3 DEF Recorded, ControlTypes, OpNames
<1>7. ops'[started] = Append(s, op) /\ \A m \in MtgNumbers \ {started} : ops'[m] = ops[m]
  BY <1>2, <1>6
<1>8. ASSUME NEW m \in MtgNumbers
      PROVE  Alternates(ops'[m]) /\ (Ended(ops'[m]) => Quiet(m)') /\ (m > started' => ops'[m] = <<>>)
  <2>1. Quiet(m)' = Quiet(m)
    BY DEF Quiet
  <2>2. CASE m = started
    <3>1. Ended(Append(s, op)) => Quiet(m)'
      BY <1>3, <1>5, <2>1 DEF Quiet
    <3>2. ~(m > started')
      BY <1>2, <2>2 DEF MtgNumbers
    <3> QED BY <1>5, <1>7, <2>2, <3>1, <3>2
  <2>3. CASE m # started
    <3>1. ops'[m] = ops[m] /\ started' = started
      BY <1>7, <2>3
    <3>2. Alternates(ops[m]) /\ (Ended(ops[m]) => Quiet(m)) /\ (m > started => ops[m] = <<>>)
      BY <1>1 DEF OpsInv
    <3> QED BY <2>1, <3>1, <3>2
  <2> QED BY <2>2, <2>3
<1>9. OpsInv'
  BY <1>8 DEF OpsInv
<1> QED BY <1>2, <1>3, <1>4, <1>5, <1>7, <1>9

LEMMA Parity ==
  ASSUME NEW n \in Nat
  PROVE  /\ n % 2 = 0 => Due(n + 1) = "pause" /\ (n + 1) % 2 = 1
         /\ n % 2 = 1 => Due(n + 1) = "resume" /\ (n + 1) % 2 = 0
         /\ Due(n) = "pause" => n % 2 = 1
         /\ Due(n) = "resume" => n % 2 = 0
BY DEF Due

LEMMA RecordsComplete ==
  ASSUME CompleteInv, PauseRecorded \/ ResumeRecorded \/ EndRecorded
  PROVE  CompleteInv'
<1>1. OwnPauseInv' /\ ControlTypes /\ TurnInv /\ HereInv /\ EndingInv /\ turn \in Turns /\ Recorded
      /\ UNCHANGED <<started, unsaved, chain, listening>> /\ turn.what # "none" /\ turn.at = "op"
  BY PauseRecordedKeeps, ResumeRecordedKeeps, TurnMovesKeep
     DEF CompleteInv, OwnPauseInv, ControlTypes, PauseRecorded, ResumeRecorded, EndRecorded, recognitionVars
<1>2. started \in MtgNumbers /\ Len(ops[started]) \in Nat
  BY <1>1, RecordedTypes, OpsOf
<1>3. CASE PauseRecorded
  <2>1. turn.what = "pause" /\ phase' = "paused" /\ turn'.what = "none" /\ turn'.at = "none"
    BY <1>3, NoTurnFields DEF PauseRecorded
  <2>2. Len(ops[started]) % 2 = 0
    BY <1>1, <1>2, <2>1 DEF HereInv, EvenUnderWay
  <2>3. turn.what = Due(Len(ops[started]) + 1) /\ (Len(ops[started]) + 1) % 2 = 1
    BY <1>2, <2>1, <2>2, Parity
  <2>4. OpsInv' /\ Len(ops'[started]) = Len(ops[started]) + 1 /\ ~Ended(ops'[started])
    BY <1>1, <2>1, <2>3, RecordedOps
  <2>5. ~EvenUnderWay'
    BY <2>1 DEF EvenUnderWay, Standing
  <2>6. HereInv'
    BY <1>1, <2>3, <2>4, <2>5 DEF HereInv
  <2>7. EndingInv'
    BY <2>1 DEF EndingInv
  <2> QED BY <1>1, <2>4, <2>6, <2>7 DEF CompleteInv
<1>4. CASE ResumeRecorded
  <2>1. turn.what = "resume" /\ phase' = "recording" /\ turn'.what = "resume" /\ turn'.at = "listen"
    BY <1>1, <1>4 DEF ResumeRecorded, Turns
  <2>2. Len(ops[started]) % 2 = 1
    BY <1>1, <1>2, <2>1 DEF HereInv, OddUnderWay
  <2>3. turn.what = Due(Len(ops[started]) + 1) /\ (Len(ops[started]) + 1) % 2 = 0
    BY <1>2, <2>1, <2>2, Parity
  <2>4. OpsInv' /\ Len(ops'[started]) = Len(ops[started]) + 1 /\ ~Ended(ops'[started])
    BY <1>1, <2>1, <2>3, RecordedOps
  <2>5. ~OddUnderWay'
    BY <2>1 DEF OddUnderWay, Standing
  <2>6. HereInv'
    BY <1>1, <2>3, <2>4, <2>5 DEF HereInv
  <2>7. EndingInv'
    BY <2>1 DEF EndingInv
  <2> QED BY <1>1, <2>4, <2>6, <2>7 DEF CompleteInv
<1>5. CASE EndRecorded
  <2>1. turn.what = "end" /\ phase' = phase /\ turn'.what = "none" /\ turn'.at = "none" /\ phase \in {"idle", "ending"}
        /\ listening = FALSE /\ unsaved = <<>> /\ chain = {}
    BY <1>1, <1>5, NoTurnFields DEF EndRecorded, TurnInv, EndingInv
  <2>2. OpsInv'
    BY <1>1, <2>1, RecordedOps
  <2>3. ~EvenUnderWay' /\ ~OddUnderWay'
    BY <2>1 DEF EvenUnderWay, OddUnderWay, Standing
  <2>4. HereInv'
    BY <1>1, <2>1, <2>3 DEF HereInv
  <2>5. EndingInv'
    BY <2>1 DEF EndingInv
  <2> QED BY <1>1, <2>2, <2>4, <2>5 DEF CompleteInv
<1> QED BY <1>3, <1>4, <1>5

\* The status on disk says where the meeting stood.
LEMMA LastOpTells ==
  ASSUME CompleteInv, started \in MtgNumbers
  PROVE  /\ LastOp(started) # "end" => ~Ended(ops[started])
         /\ LastOp(started) = "pause" => Len(ops[started]) % 2 = 1
         /\ LastOp(started) \notin {"pause", "end"} => Len(ops[started]) % 2 = 0
<1>1. PICK s : s = ops[started]
  OBVIOUS
<1>2. s \in Seq(OpNames) /\ Len(s) \in Nat /\ DOMAIN s = 1 .. Len(s) /\ Alternates(s)
  BY <1>1, OpsOf DEF CompleteInv, OwnPauseInv, OpsInv
<1>3. LastOp(started) = IF s = <<>> THEN "resume" ELSE s[Len(s)]
  BY <1>1 DEF LastOp
<1>4. CASE s = <<>>
  <2>1. Len(s) = 0 /\ DOMAIN s = {}
    BY <1>4
  <2> QED BY <1>1, <1>3, <1>4, <2>1 DEF Ended
<1>5. CASE s # <<>>
  <2>1. Len(s) \in DOMAIN s /\ Len(s) \in Nat
    BY <1>2, <1>5
  <2>2. s[Len(s)] \in {Due(Len(s)), "end"} /\ (Ended(s) => s[Len(s)] = "end")
    BY <1>2, <2>1 DEF Alternates, Ended
  <2>3. Due(Len(s)) \in {"pause", "resume"}
    BY DEF Due
  <2>4. (Due(Len(s)) = "pause" => Len(s) % 2 = 1) /\ (Due(Len(s)) = "resume" => Len(s) % 2 = 0)
    BY <2>1, Parity
  <2> QED BY <1>1, <1>3, <1>5, <2>2, <2>3, <2>4
<1> QED BY <1>4, <1>5

LEMMA ResumeUnfinishedComplete == CompleteInv /\ ResumeUnfinished => CompleteInv'
<1> SUFFICES ASSUME CompleteInv, ResumeUnfinished PROVE CompleteInv'
  OBVIOUS
<1>1. /\ OwnPauseInv' /\ ControlTypes /\ OpsInv /\ HereInv /\ turn.what = "none" /\ turn'.what = "none" /\ turn'.at = "none"
      /\ started \in MtgNumbers /\ UNCHANGED <<ops, started, unsaved, turn>>
  BY ResumeUnfinishedKeeps, NoTurnFields DEF CompleteInv, OwnPauseInv, ControlTypes, ResumeUnfinished, diskVars
<1>2. EndingInv'
  BY <1>1 DEF EndingInv
<1>3. CASE LastOp(started) = "end"
  <2>1. phase' = "ending" /\ UNCHANGED <<listening, chain>>
    BY <1>3 DEF ResumeUnfinished
  <2>2. ~OddUnderWay' /\ ~EvenUnderWay'
    BY <1>1, <2>1 DEF OddUnderWay, EvenUnderWay, Standing
  <2>3. OpsInv' /\ HereInv'
    BY <1>1, <2>1, <2>2, StaysComplete
  <2> QED BY <1>1, <1>2, <2>3 DEF CompleteInv
<1>4. CASE LastOp(started) # "end"
  <2>1. ~Ended(ops[started])
    BY <1>1, <1>4, LastOpTells
  <2>2. PICK some \in SUBSET {[m |-> started, n |-> lines[started][i]] : i \in DOMAIN lines[started]} : chain' = some
    BY <1>4 DEF ResumeUnfinished
  <2>3. \A line \in chain' : line.m = started
    BY <2>2
  <2>4. Moves(started)
    BY <1>1, <2>3 DEF Moves
  <2>5. OpsInv'
    BY <1>1, <2>1, <2>4, OpsStay
  <2>6. phase' = IF LastOp(started) = "pause" THEN "paused" ELSE "recording"
    BY <1>4 DEF ResumeUnfinished
  <2>7. /\ OddUnderWay' => LastOp(started) = "pause"
        /\ EvenUnderWay' => LastOp(started) \notin {"pause", "end"}
    BY <1>1, <1>4, <2>6 DEF OddUnderWay, EvenUnderWay, Standing
  <2>8. (OddUnderWay' => Len(ops[started]) % 2 = 1) /\ (EvenUnderWay' => Len(ops[started]) % 2 = 0)
    BY <1>1, <2>7, LastOpTells
  <2>9. ops' = ops /\ started' = started
    BY <1>1
  <2>10. HereInv'
    BY <2>1, <2>8, <2>9 DEF HereInv
  <2> QED BY <1>1, <1>2, <2>5, <2>10 DEF CompleteInv
<1> QED BY <1>3, <1>4

LEMMA CompleteStep == CompleteInv /\ [ControlNext]_controlVars => CompleteInv'
<1> SUFFICES ASSUME CompleteInv, [ControlNext]_controlVars PROVE CompleteInv'
  OBVIOUS
<1>1. CASE UNCHANGED controlVars
  <2>1. OwnPauseInv'
    BY <1>1, OwnPauseStep DEF CompleteInv
  <2>2. UNCHANGED <<ops, started, unsaved, chain, turn, phase, listening>>
    BY <1>1 DEF controlVars
  <2>3. (OddUnderWay' => OddUnderWay) /\ (EvenUnderWay' => EvenUnderWay)
    BY <2>2 DEF OddUnderWay, EvenUnderWay, Standing
  <2>4. OpsInv' /\ HereInv'
    BY <2>2, <2>3, StaysComplete
  <2> QED BY <2>1, <2>2, <2>4 DEF CompleteInv, EndingInv
<1>2. CASE ControlNext
  BY <1>2, HeardComplete, StartComplete, AskedComplete, TakeTurnComplete, TurnComplete, RecordsComplete,
     ResumeUnfinishedComplete DEF ControlNext
<1> QED BY <1>1, <1>2

\* What the phone has recorded of a meeting can be sent as it is: pauses and resumes alternate, an end is
\* the last of them, and from then on nothing of the meeting waits for the disk or for its translation
\* (recording-session.ts, and a death of the app at any moment).
THEOREM EndIsCompleteCorrect == ControlSpec => []EndIsComplete
<1>1. CompleteInv => EndIsComplete
  <2> SUFFICES ASSUME CompleteInv, NEW m \in MtgNumbers
               PROVE  /\ \A i \in DOMAIN ops[m] : ops[m][i] \in {IF i % 2 = 1 THEN "pause" ELSE "resume", "end"}
                      /\ \A i \in DOMAIN ops[m] : ops[m][i] = "end" =>
                           /\ i = Len(ops[m])
                           /\ \A j \in DOMAIN unsaved : unsaved[j].m # m
                           /\ \A line \in chain : line.m # m
    BY DEF EndIsComplete
  <2>1. Alternates(ops[m]) /\ (Ended(ops[m]) => Quiet(m))
    BY DEF CompleteInv, OpsInv
  <2> QED BY <2>1 DEF Alternates, Due, Ended, Quiet
<1> QED BY <1>1, CompleteInit, CompleteStep, PTL DEF ControlSpec
=============================================================================

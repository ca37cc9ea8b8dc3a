---------------------------- MODULE StreamProofs ----------------------------
(***************************************************************************)
(* Theorems about live recognition on the server: who holds a stream       *)
(* (StreamSlots), which sessions a stream keeps and in which order it      *)
(* delivers what they say (LiveStream), and the places of the calls to     *)
(* Gemini (GeminiCalls).                                                   *)
(***************************************************************************)
EXTENDS StreamSlots, LiveStream, GeminiCalls, FiniteSetTheorems, SequenceTheorems, TLAPS

------------------------------------------------------------------------------
(* StreamSlots.  The two halves of StreamsAreHeld are inductive only       *)
(* together: ending a stream frees the slot it holds because a slot names  *)
(* the stream that holds it.                                               *)

SlotsInv == SlotsTypeOK /\ StreamsHold /\ NoSlotLeaks

LEMMA UserIsOwner == SlotsTypeOK => \A i \in StreamIds : User(i) \in Owners
BY DEF SlotsTypeOK, User, Owners

LEMMA NoStreamIsZero == 0 \notin StreamIds
BY SlotsAssumption DEF StreamIds

LEMMA SlotsInvInit == SlotsInit => SlotsInv
<1>1. (CHOOSE s \in Sockets : TRUE) \in Sockets
  BY SlotsAssumption
<1> QED
  BY <1>1 DEF SlotsInit, SlotsInv, SlotsTypeOK, StreamsHold, NoSlotLeaks, Holding, Owners

LEMMA FinishKeeps ==
  ASSUME SlotsInv, NEW i \in StreamIds, NEW told \in BOOLEAN, FinishStream(i, told),
         connected' = connected, streams[i].st \in Holding
  PROVE  SlotsInv'
<1> USE DEF SlotsInv, FinishStream, To
<1>1. User(i) \in Owners /\ streams[i].sock \in Sockets /\ i # 0
  BY UserIsOwner, NoStreamIsZero DEF SlotsTypeOK
<1>2. SlotsTypeOK'
  BY <1>1 DEF SlotsTypeOK
<1>5. \A j \in StreamIds : /\ streams'[j].sock = streams[j].sock /\ User(j)' = User(j)
                            /\ streams'[j].st = IF j = i THEN "ended" ELSE streams[j].st
  BY <1>1 DEF SlotsTypeOK, User
<1>3. StreamsHold'
  <2>1. ASSUME NEW j \in StreamIds
        PROVE  /\ streams'[j].st \in Holding => slots'[User(j)'] = j
               /\ streams'[j].st = "on" => kept'[streams'[j].sock] = j /\ streams'[j].sock \in connected'
               /\ j \in metered' <=> streams'[j].st \in {"on", "stopping"}
    <3>1. CASE j = i
      BY <1>5, <3>1 DEF Holding
    <3>2. CASE j # i
      <4>1. /\ streams[j].st \in Holding => slots[User(j)] = j
            /\ streams[j].st = "on" => kept[streams[j].sock] = j /\ streams[j].sock \in connected
            /\ j \in metered <=> streams[j].st \in {"on", "stopping"}
        BY DEF StreamsHold
      <4>2. streams[j].st = "on" => streams[j].sock # streams[i].sock
        BY <3>2, <4>1 DEF StreamsHold, Holding, User
      <4>3. User(j) \in Owners /\ streams[j].sock \in Sockets
        BY UserIsOwner DEF SlotsTypeOK
      <4> QED BY <1>1, <1>5, <3>2, <4>1, <4>2, <4>3 DEF SlotsTypeOK
    <3> QED BY <3>1, <3>2
  <2> QED BY <2>1 DEF StreamsHold
<1>4. NoSlotLeaks'
  <2>1. ASSUME NEW u \in Owners, slots'[u] # 0
        PROVE  (User(slots[u]) = u /\ streams[slots[u]].st \in Holding)'
    <3>1. slots'[u] = slots[u] /\ slots[u] # 0 /\ slots[u] \in StreamIds
      BY <1>1, <2>1, NoStreamIsZero DEF SlotsTypeOK
    <3>2. User(slots[u]) = u /\ streams[slots[u]].st \in Holding
      BY <3>1 DEF NoSlotLeaks
    <3>3. slots[u] # i
      BY <1>1, <2>1, <3>1, <3>2 DEF SlotsTypeOK
    <3>4. PICK j \in StreamIds : j = slots[u]
      BY <3>1
    <3> HIDE DEF FinishStream, To
    <3>5. User(j)' = u /\ streams'[j].st \in Holding /\ slots'[u] = j
      BY <1>5, <3>1, <3>2, <3>3, <3>4
    <3> QED BY <3>5 DEF User
  <2>2. ASSUME NEW s \in Sockets, kept'[s] # 0
        PROVE  streams'[kept'[s]].sock = s /\ streams'[kept'[s]].st = "on"
    <3>1. kept'[s] = kept[s] /\ kept[s] # 0 /\ kept[s] \in StreamIds
      BY <1>1, <2>2, NoStreamIsZero DEF SlotsTypeOK
    <3>2. streams[kept[s]].sock = s /\ streams[kept[s]].st = "on"
      BY <3>1 DEF NoSlotLeaks
    <3>3. kept[s] # i
      BY <1>1, <2>2, <3>1, <3>2 DEF SlotsTypeOK
    <3>4. PICK j \in StreamIds : j = kept[s]
      BY <3>1
    <3> HIDE DEF FinishStream, To
    <3>5. streams'[j].sock = s /\ streams'[j].st = "on"
      BY <1>5, <3>2, <3>3, <3>4
    <3> QED BY <3>1, <3>4, <3>5
  <2> QED BY <2>1, <2>2 DEF NoSlotLeaks
<1> QED BY <1>2, <1>3, <1>4

LEMMA HoldingOne ==
  ASSUME SlotsInv, NEW i \in StreamIds, NEW j \in StreamIds,
         streams[i].st \in Holding, streams[j].st \in Holding, User(i) = User(j)
  PROVE  i = j
BY DEF SlotsInv, StreamsHold

LEMMA SlotsInvStep == SlotsInv /\ [SlotsNext]_slotVars => SlotsInv'
<1> SUFFICES ASSUME SlotsInv, [SlotsNext]_slotVars PROVE SlotsInv'
  OBVIOUS
<1> USE NoStreamIsZero DEF SlotsInv
<1>1. CASE UNCHANGED slotVars
  BY <1>1 DEF slotVars, SlotsTypeOK, StreamsHold, NoSlotLeaks, User
<1>2. ASSUME NEW s \in Sockets, SttStart(s) PROVE SlotsInv'
  BY <1>2 DEF SttStart, SlotsTypeOK, StreamsHold, NoSlotLeaks, User, Holding, StreamIds
<1>3. ASSUME NEW s \in Sockets, SttStop(s) PROVE SlotsInv'
  <2>1. kept[s] \in StreamIds /\ streams[kept[s]].st = "on" /\ streams[kept[s]].sock = s
    BY <1>3 DEF SttStop, SlotsTypeOK, NoSlotLeaks
  <2>2. SlotsTypeOK'
    BY <1>3, <2>1 DEF SttStop, To, SlotsTypeOK, Holding
  <2>3. StreamsHold'
    BY <1>3, <2>1 DEF SttStop, To, SlotsTypeOK, StreamsHold, User, Holding
  <2>4. NoSlotLeaks'
    BY <1>3, <2>1 DEF SttStop, To, SlotsTypeOK, StreamsHold, NoSlotLeaks, User, Holding
  <2> QED BY <2>2, <2>3, <2>4
<1>4. ASSUME NEW s \in Sockets, SocketGone(s) PROVE SlotsInv'
  <2>1. CASE kept[s] = 0
    <3>1. \A i \in StreamIds : streams[i].st = "on" => streams[i].sock # s
      BY <2>1 DEF StreamsHold
    <3> QED
      BY <1>4, <2>1, <3>1 DEF SocketGone, SlotsTypeOK, StreamsHold, NoSlotLeaks, User
  <2>2. CASE kept[s] # 0
    <3>1. kept[s] \in StreamIds /\ streams[kept[s]].st = "on" /\ streams[kept[s]].sock = s
      BY <2>2 DEF SlotsTypeOK, NoSlotLeaks
    <3>2. \A i \in StreamIds : streams[i].st = "on" /\ streams[i].sock = s => i = kept[s]
      BY DEF StreamsHold
    <3>3. User(kept[s]) \in Owners
      BY <3>1, UserIsOwner
    <3>4. FinishStream(kept[s], FALSE) /\ connected' = connected \ {s}
      BY <1>4, <2>2 DEF SocketGone
    <3>5. SlotsTypeOK'
      BY <3>1, <3>3, <3>4 DEF FinishStream, To, SlotsTypeOK
    <3>6. StreamsHold'
      BY <3>1, <3>2, <3>3, <3>4 DEF FinishStream, To, SlotsTypeOK, StreamsHold, User, Holding
    <3>7. NoSlotLeaks'
      BY <3>1, <3>2, <3>3, <3>4 DEF FinishStream, To, SlotsTypeOK, StreamsHold, NoSlotLeaks, User, Holding
    <3> QED BY <3>5, <3>6, <3>7
  <2> QED BY <2>1, <2>2
<1>5. ASSUME NEW i \in StreamIds, ConsentAnswered(i) \/ BudgetAnswered(i) PROVE SlotsInv'
  <2>1. \E st \in {"refused", "budget", "meeting"} : streams' = To(i, st)
    BY <1>5 DEF ConsentAnswered, BudgetAnswered
  <2>2. streams[i].st \notin Holding /\ UNCHANGED <<slots, kept, connected, metered>>
    BY <1>5 DEF ConsentAnswered, BudgetAnswered, Holding
  <2> QED
    BY <2>1, <2>2 DEF To, SlotsTypeOK, StreamsHold, NoSlotLeaks, User, Holding
<1>6. ASSUME NEW i \in StreamIds, Register(i) PROVE SlotsInv'
  <2> DEFINE old == slots[User(i)]
  <2>1. User(i) \in Owners /\ streams[i].st = "meeting" /\ slots' = [slots EXCEPT ![User(i)] = i]
        /\ connected' = connected
    BY <1>6, UserIsOwner DEF Register
  <2>2. CASE old = 0
    <3>1. streams' = To(i, "opening") /\ metered' = metered /\ kept' = kept
      BY <1>6, <2>2 DEF Register
    <3>2. \A j \in StreamIds : User(j) = User(i) => streams[j].st \notin Holding
      BY <2>2 DEF StreamsHold
    <3> QED
      BY <2>1, <2>2, <3>1, <3>2 DEF To, SlotsTypeOK, StreamsHold, NoSlotLeaks, User, Holding
  <2>3. CASE old # 0
    <3>1. streams' = [To(i, "opening") EXCEPT ![old].st = "ended"] /\ metered' = metered \ {old}
          /\ kept' = [kept EXCEPT ![streams[old].sock] = 0]
      BY <1>6, <2>3 DEF Register
    <3>2. old \in StreamIds /\ User(old) = User(i) /\ streams[old].st \in Holding /\ old # i
      BY <2>1, <2>3 DEF SlotsTypeOK, NoSlotLeaks, Holding
    <3>3. \A j \in StreamIds : User(j) = User(i) /\ streams[j].st \in Holding => j = old
      BY DEF StreamsHold
    <3>4. SlotsTypeOK'
      <4>1. streams' \in [StreamIds -> [sock : Sockets,
               st : {"none", "consent", "budget", "meeting", "refused", "ended"} \union Holding]]
        BY <3>1, <3>2 DEF To, SlotsTypeOK, Holding
      <4>2. /\ slots' \in [Owners -> {0} \union StreamIds] /\ kept' \in [Sockets -> {0} \union StreamIds]
            /\ metered' \subseteq StreamIds
        BY <2>1, <3>1 DEF SlotsTypeOK
      <4> QED BY <4>1, <4>2 DEF SlotsTypeOK
    <3>5. \A j \in StreamIds : streams'[j].sock = streams[j].sock /\ User(j)' = User(j)
      BY <3>1, <3>2 DEF To, SlotsTypeOK, User
    <3>a. \A j \in StreamIds :
            streams'[j].st = IF j = old THEN "ended" ELSE IF j = i THEN "opening" ELSE streams[j].st
      BY <3>1, <3>2 DEF To, SlotsTypeOK
    <3>b. \A j \in StreamIds : streams[j].st = "on" /\ j # old => streams[j].sock # streams[old].sock
      BY <3>2, HoldingOne DEF Holding, User
    <3>6. ASSUME NEW j \in StreamIds PROVE
            /\ streams'[j].st \in Holding => slots'[User(j)'] = j
            /\ streams'[j].st = "on" => kept'[streams'[j].sock] = j /\ streams'[j].sock \in connected'
            /\ j \in metered' <=> streams'[j].st \in {"on", "stopping"}
      <4>1. streams'[j].st \in Holding => slots'[User(j)'] = j
        BY <2>1, <3>2, <3>3, <3>5, <3>a DEF SlotsTypeOK, StreamsHold, Holding
      <4>2. streams'[j].st = "on" => kept'[streams'[j].sock] = j /\ streams'[j].sock \in connected'
        BY <2>1, <3>1, <3>2, <3>5, <3>a, <3>b DEF SlotsTypeOK, StreamsHold
      <4>3. j \in metered' <=> streams'[j].st \in {"on", "stopping"}
        BY <2>1, <3>1, <3>a DEF StreamsHold
      <4> QED BY <4>1, <4>2, <4>3
    <3>8. StreamsHold'
      BY <3>6 DEF StreamsHold
    <3>9. ASSUME NEW u \in Owners, slots'[u] # 0
          PROVE  (User(slots[u]) = u /\ streams[slots[u]].st \in Holding)'
      <4>1. CASE u = User(i)
        <5>1. slots'[u] = i
          BY <2>1, <4>1 DEF SlotsTypeOK
        <5>2. User(i)' = u /\ streams'[i].st = "opening"
          BY <3>2, <3>5, <3>a, <4>1
        <5> QED BY <5>1, <5>2 DEF User, Holding
      <4>2. CASE u # User(i)
        <5>1. slots'[u] = slots[u] /\ slots[u] \in StreamIds /\ User(slots[u]) = u /\ streams[slots[u]].st \in Holding
          BY <2>1, <3>9, <4>2 DEF SlotsTypeOK, NoSlotLeaks
        <5>2. slots[u] # old /\ slots[u] # i
          BY <3>2, <4>2, <5>1
        <5> QED BY <3>5, <3>a, <5>1, <5>2 DEF User
      <4> QED BY <4>1, <4>2
    <3>10. ASSUME NEW s \in Sockets, kept'[s] # 0
           PROVE  streams'[kept'[s]].sock = s /\ streams'[kept'[s]].st = "on"
      <4>1. kept'[s] = kept[s] /\ kept[s] \in StreamIds /\ streams[kept[s]].sock = s /\ streams[kept[s]].st = "on"
            /\ s # streams[old].sock
        BY <3>1, <3>2, <3>10 DEF SlotsTypeOK, NoSlotLeaks
      <4>2. kept[s] # old /\ kept[s] # i
        BY <2>1, <3>2, <4>1
      <4> QED BY <3>5, <3>a, <4>1, <4>2
    <3>7. NoSlotLeaks'
      BY <3>9, <3>10 DEF NoSlotLeaks
    <3> QED BY <3>4, <3>8, <3>7
  <2> QED BY <2>2, <2>3
<1>7. ASSUME NEW i \in StreamIds, StreamOpened(i) PROVE SlotsInv'
  <2>1. CASE streams[i].sock \in connected
    <3>1. \A j \in StreamIds : streams[j].st = "on" => streams[j].sock # streams[i].sock
      BY <1>7, HoldingOne DEF StreamOpened, Holding, User
    <3>2. /\ streams[i].st = "opening" /\ streams' = To(i, "on") /\ metered' = metered \union {i}
          /\ kept' = [kept EXCEPT ![streams[i].sock] = i] /\ slots' = slots /\ connected' = connected
      BY <1>7, <2>1 DEF StreamOpened
    <3>3. \A j \in StreamIds : /\ streams'[j].sock = streams[j].sock /\ User(j)' = User(j)
                                /\ streams'[j].st = IF j = i THEN "on" ELSE streams[j].st
      BY <3>2 DEF To, SlotsTypeOK, User
    <3>4. SlotsTypeOK'
      BY <3>2 DEF To, SlotsTypeOK, Holding
    <3>5. StreamsHold'
      BY <2>1, <3>1, <3>2, <3>3 DEF SlotsTypeOK, StreamsHold, Holding
    <3>6. NoSlotLeaks'
      BY <3>1, <3>2, <3>3 DEF SlotsTypeOK, NoSlotLeaks, User, Holding
    <3> QED BY <3>4, <3>5, <3>6
  <2>2. CASE streams[i].sock \notin connected
    BY <1>7, <2>2, FinishKeeps DEF StreamOpened, Holding
  <2> QED BY <2>1, <2>2
<1>8. ASSUME NEW i \in StreamIds, StreamNotOpened(i) \/ TickRefuses(i) \/ StreamFails(i) \/ StreamStopped(i)
      PROVE  SlotsInv'
  <2>1. streams[i].st \in Holding /\ connected' = connected
    BY <1>8 DEF StreamNotOpened, TickRefuses, StreamFails, StreamStopped, Holding
  <2>2. FinishStream(i, TRUE) \/ FinishStream(i, FALSE)
    BY <1>8 DEF StreamNotOpened, TickRefuses, StreamFails, StreamStopped
  <2> QED BY <2>1, <2>2, FinishKeeps
<1>9. ASSUME NEW i \in StreamIds, Tick(i) PROVE SlotsInv'
  BY <1>9 DEF Tick, SlotsTypeOK, StreamsHold, NoSlotLeaks, User
<1>10. ASSUME NEW u \in Owners, ConsentLapses(u) PROVE SlotsInv'
  BY <1>10 DEF ConsentLapses, SlotsTypeOK, StreamsHold, NoSlotLeaks, User
<1> QED
  BY <1>1, <1>2, <1>3, <1>4, <1>5, <1>6, <1>7, <1>8, <1>9, <1>10 DEF SlotsNext

(* A stream that holds a Live session is its user's only one and somebody  *)
(* can still end it, and no slot leaks: one that is taken has such a       *)
(* stream (StreamSlots.StreamsAreHeld), for any number of users, sockets   *)
(* and streams.                                                            *)
THEOREM StreamsAreHeldCorrect == SlotsSpec => []StreamsAreHeld
<1>1. SlotsInv => StreamsAreHeld
  BY DEF SlotsInv, StreamsAreHeld
<1> QED BY <1>1, SlotsInvInit, SlotsInvStep, PTL DEF SlotsSpec

------------------------------------------------------------------------------
(* LiveStream.  Which leg may be in which state depends on the work that   *)
(* is going on; what the legs hold (words, texts) plays no part, so a leg  *)
(* is only asked to be a record of the five fields.                        *)

LegStates == {"none", "opening", "open", "dropped", "closed"}
IsLeg(g) ==
  /\ g = [st |-> g.st, heard |-> g.heard, pending |-> g.pending, held |-> g.held, mute |-> g.mute]
  /\ g.st \in LegStates
AreLegs(lg) == lg = [l \in Legs |-> lg[l]] /\ \A l \in Legs : IsLeg(lg[l])

\* Legs that are named are connected or were, the others are not or not yet.
NamedLegs(lg) ==
  /\ active \in {0} \union Legs /\ retiring \in {0} \union Legs
  /\ \A l \in Legs : IF l \in {active, retiring} THEN lg[l].st \in {"open", "dropped", "closed"}
                                               ELSE lg[l].st \in {"none", "opening"}
  /\ \A k, l \in Legs : lg[k].st = "opening" /\ lg[l].st = "opening" => k = l
SomeOpening(lg) == \E l \in Legs : lg[l].st = "opening"

WorkInv ==
  /\ working = "none" => retiring = 0 /\ (SomeOpening(legs) => livePhase \in {"starting", "disposed"})
  /\ working = "rotating" => active # 0 /\ retiring = 0 /\ SomeOpening(legs)
  /\ working = "flushing" => active # 0 /\ retiring # 0 /\ active # retiring /\ ~SomeOpening(legs)
  /\ working = "recovering" => active = 0 /\ retiring = 0 /\ SomeOpening(legs)
  /\ working \in {"none", "rotating", "flushing", "recovering"}

PhaseInv ==
  /\ livePhase \in {"starting", "flushing", "disposed"} => working = "none"
  /\ livePhase = "starting" => active = 0 /\ legs[1].st = "opening"
  /\ livePhase = "disposed" => active = 0
  /\ livePhase = "running" /\ working = "none" => active # 0 /\ legs[active].st \in {"open", "dropped"}
  /\ livePhase \in {"starting", "running", "stopping", "flushing", "disposed"}

LiveInv == AreLegs(legs) /\ NamedLegs(legs) /\ WorkInv /\ PhaseInv

LEMMA LegsAre == Legs = {1, 2, 3} /\ 0 \notin Legs
BY DEF Legs

LEMMA LegIsLeg ==
  ASSUME NEW st \in LegStates, NEW mute
  PROVE  IsLeg(Leg(st, mute)) /\ Leg(st, mute).st = st
BY DEF IsLeg, Leg

LEMMA NoLegIsLeg == IsLeg(NoLeg) /\ NoLeg.st = "none"
BY LegIsLeg DEF NoLeg, LegStates

LEMMA LiveInvInit == LiveInit => LiveInv
BY LegsAre DEF LiveInit, LiveInv, AreLegs, IsLeg, LegStates, NoLeg, Leg, NamedLegs, SomeOpening, WorkInv, PhaseInv

\* A leg that is not in use is there to be opened.
LEMMA OpeningTakesOne ==
  ASSUME NEW lg, AreLegs(lg), NEW mute, \E k \in Legs : lg[k].st = "none"
  PROVE  \E k \in Legs : /\ lg[k].st = "none"
                         /\ Opening(lg, mute) = [lg EXCEPT ![k] = Leg("opening", mute)]
<1>1. (CHOOSE k \in Legs : lg[k].st = "none") \in Legs /\ lg[CHOOSE k \in Legs : lg[k].st = "none"].st = "none"
  OBVIOUS
<1> QED BY <1>1 DEF Opening

\* Disposing is always allowed.
LEMMA DisposeKeeps ==
  ASSUME LiveInv, NEW lg, AreLegs(lg), Dispose(lg),
         \A k, l \in Legs : lg[k].st = "opening" /\ lg[l].st = "opening" => k = l
  PROVE  LiveInv'
<1>1. \A l \in Legs : legs'[l] = IF lg[l].st = "opening" THEN lg[l] ELSE NoLeg
  BY DEF Dispose
<1>2. AreLegs(legs')
  BY <1>1, NoLegIsLeg DEF AreLegs, Dispose
<1>3. NamedLegs(legs)'
  BY <1>1, NoLegIsLeg, LegsAre DEF NamedLegs, Dispose
<1>4. WorkInv'
  BY DEF Dispose, WorkInv, SomeOpening
<1>5. PhaseInv'
  BY DEF Dispose, PhaseInv
<1> QED BY <1>2, <1>3, <1>4, <1>5 DEF LiveInv

\* recover: the dead leg is the only one in use.
LEMMA RecoverKeeps ==
  ASSUME LiveInv, NEW lg, AreLegs(lg), NEW dead \in Legs, NEW s, Recover(lg, dead, s),
         livePhase \in {"running", "stopping"},
         \A l \in Legs \ {dead} : lg[l].st = "none"
  PROVE  LiveInv'
<1>1. CASE soon
  <2>1. Dispose(lg)
    BY <1>1 DEF Recover
  <2>2. CASE lg[dead].st = "opening"
    BY <2>1, <2>2, DisposeKeeps
  <2>3. CASE lg[dead].st # "opening"
    BY <2>1, <2>3, DisposeKeeps
  <2> QED BY <2>2, <2>3
<1>2. CASE ~soon
  <2> DEFINE cleared == [lg EXCEPT ![dead] = NoLeg]
  <2>1. AreLegs(cleared) /\ \A l \in Legs : cleared[l].st = "none"
    BY NoLegIsLeg DEF AreLegs
  <2>2. PICK k \in Legs : Opening(cleared, FALSE) = [cleared EXCEPT ![k] = Leg("opening", FALSE)]
    BY <2>1, OpeningTakesOne
  <2>3. legs' = Opening(cleared, FALSE) /\ active' = 0 /\ retiring' = 0 /\ working' = "recovering"
        /\ livePhase' = livePhase
    BY <1>2 DEF Recover
  <2>4. \A l \in Legs : IsLeg(legs'[l]) /\ legs'[l].st = IF l = k THEN "opening" ELSE "none"
    <3> HIDE DEF cleared
    <3>1. \A l \in Legs : legs'[l] = IF l = k THEN Leg("opening", FALSE) ELSE cleared[l]
      BY <2>1, <2>2, <2>3 DEF AreLegs
    <3>2. IsLeg(Leg("opening", FALSE)) /\ Leg("opening", FALSE).st = "opening"
      BY LegIsLeg DEF LegStates
    <3> QED BY <2>1, <3>1, <3>2 DEF AreLegs
  <2>5. AreLegs(legs')
    BY <2>1, <2>2, <2>3, <2>4 DEF AreLegs
  <2>6. NamedLegs(legs)'
    <3>1. \A l \in Legs : l \notin {active', retiring'}
      BY <2>3, LegsAre
    <3> QED BY <2>3, <2>4, <3>1 DEF NamedLegs
  <2>7. WorkInv' /\ PhaseInv'
    BY <2>3, <2>4 DEF WorkInv, PhaseInv, SomeOpening
  <2> QED BY <2>5, <2>6, <2>7 DEF LiveInv
<1> QED BY <1>1, <1>2

\* What only changes the words a leg holds.
LEMMA SameStates ==
  ASSUME LiveInv, AreLegs(legs'), \A l \in Legs : legs'[l].st = legs[l].st,
         UNCHANGED <<active, retiring, working, livePhase>>
  PROVE  LiveInv'
<1>1. NamedLegs(legs)' /\ WorkInv'
  BY DEF LiveInv, NamedLegs, WorkInv, SomeOpening
<1>2. PhaseInv'
  BY LegsAre DEF LiveInv, NamedLegs, PhaseInv
<1> QED BY <1>1, <1>2 DEF LiveInv

\* A leg that only some of whose words or whose state changed is a leg still.
LEMMA LegUpdates ==
  ASSUME NEW g, IsLeg(g), NEW x
  PROVE  /\ IsLeg([g EXCEPT !.heard = x]) /\ [g EXCEPT !.heard = x].st = g.st
         /\ IsLeg([g EXCEPT !.pending = x]) /\ [g EXCEPT !.pending = x].st = g.st
         /\ IsLeg([g EXCEPT !.held = x]) /\ [g EXCEPT !.held = x].st = g.st
         /\ IsLeg([g EXCEPT !.mute = x]) /\ [g EXCEPT !.mute = x].st = g.st
         /\ x \in LegStates => IsLeg([g EXCEPT !.st = x]) /\ [g EXCEPT !.st = x].st = x
BY DEF IsLeg

LEMMA OneLegUpdated ==
  ASSUME NEW lg, AreLegs(lg), NEW l \in Legs, NEW g, IsLeg(g)
  PROVE  /\ AreLegs([lg EXCEPT ![l] = g])
         /\ \A k \in Legs : [lg EXCEPT ![l] = g][k] = IF k = l THEN g ELSE lg[k]
BY DEF AreLegs

LEMMA TakeOverKeeps ==
  ASSUME LiveInv, NEW lg, AreLegs(lg), NEW old \in Legs, NEW new \in Legs, NEW s, TakeOver(lg, old, new, s),
         old # new, lg[new].st \in {"open", "dropped", "closed"}, livePhase \in {"running", "stopping"},
         \A l \in Legs \ {old, new} : lg[l].st = "none"
  PROVE  LiveInv'
<1> DEFINE rel == Release(Begin(s), lg[new].held)
           g == [lg[new] EXCEPT !.mute = FALSE, !.held = <<>>, !.pending = rel.pending]
           done == [lg EXCEPT ![old] = NoLeg, ![new] = [@ EXCEPT !.mute = FALSE, !.held = <<>>, !.pending = rel.pending]]
<1>1. IsLeg(g) /\ g.st = lg[new].st
  <2>1. g = [[[lg[new] EXCEPT !.mute = FALSE] EXCEPT !.held = <<>>] EXCEPT !.pending = rel.pending]
    OBVIOUS
  <2>2. IsLeg(lg[new])
    BY DEF AreLegs
  <2> DEFINE a == [lg[new] EXCEPT !.mute = FALSE]
             b == [a EXCEPT !.held = <<>>]
  <2>3. IsLeg(a) /\ a.st = lg[new].st
    BY <2>2, LegUpdates
  <2> HIDE DEF a, rel
  <2>4. IsLeg(b) /\ b.st = a.st
    BY <2>3, LegUpdates
  <2> HIDE DEF b
  <2>5. IsLeg([b EXCEPT !.pending = rel.pending]) /\ [b EXCEPT !.pending = rel.pending].st = b.st
    BY <2>4, LegUpdates
  <2>6. g = [b EXCEPT !.pending = rel.pending]
    BY <2>1 DEF a, b
  <2> HIDE DEF g
  <2> QED BY <2>3, <2>4, <2>5, <2>6
<1>2. AreLegs(done) /\ done[new] = g /\ done[old] = NoLeg /\ \A l \in Legs \ {old, new} : done[l] = lg[l]
  <2>1. done = [[lg EXCEPT ![old] = NoLeg] EXCEPT ![new] = g]
    BY DEF AreLegs
  <2>2. AreLegs([lg EXCEPT ![old] = NoLeg])
    BY OneLegUpdated, NoLegIsLeg
  <2> HIDE DEF done, g
  <2>3. AreLegs(done)
    BY <1>1, <2>1, <2>2, OneLegUpdated
  <2> QED BY <2>1, <2>3 DEF AreLegs
<1> HIDE DEF g, done
<1>3. CASE lg[new].st = "closed"
  <2>1. Recover(done, new, rel.seam)
    BY <1>3 DEF TakeOver, done
  <2> QED BY <1>2, <2>1, NoLegIsLeg, RecoverKeeps
<1>4. CASE lg[new].st # "closed"
  <2>1. legs' = done /\ active' = new /\ retiring' = 0 /\ working' = "none" /\ livePhase' = livePhase
    BY <1>4 DEF TakeOver, done
  <2>2. \A l \in Legs : legs'[l].st = IF l = new THEN lg[new].st ELSE "none"
    BY <1>1, <1>2, <2>1, NoLegIsLeg
  <2>3. NamedLegs(legs)'
    BY <2>1, <2>2, LegsAre DEF NamedLegs
  <2>4. WorkInv' /\ PhaseInv'
    BY <1>4, <2>1, <2>2, LegsAre DEF WorkInv, PhaseInv, SomeOpening
  <2> QED BY <1>2, <2>1, <2>3, <2>4 DEF LiveInv
<1> QED BY <1>3, <1>4

LEMMA OneStateChanged ==
  ASSUME NEW lg, AreLegs(lg), NEW l \in Legs, NEW x \in LegStates
  PROVE  /\ AreLegs([lg EXCEPT ![l].st = x])
         /\ \A k \in Legs : [lg EXCEPT ![l].st = x][k].st = IF k = l THEN x ELSE lg[k].st
<1> DEFINE g == [lg[l] EXCEPT !.st = x]
<1>1. IsLeg(g) /\ g.st = x
  BY LegUpdates, ZenonT(60) DEF AreLegs
<1>2. [lg EXCEPT ![l].st = x] = [lg EXCEPT ![l] = g]
  BY DEF AreLegs
<1> HIDE DEF g
<1> QED BY <1>1, <1>2, OneLegUpdated

\* A leg whose socket goes down, or whose close is noticed while something else is at work.
LEMMA StateWorsens ==
  ASSUME LiveInv, NEW l \in Legs, NEW st \in {"dropped", "closed"}, l \in {active, retiring},
         AreLegs(legs'), \A k \in Legs : legs'[k].st = IF k = l THEN st ELSE legs[k].st,
         UNCHANGED <<active, retiring, working, livePhase>>,
         st = "closed" => ~(livePhase = "running" /\ l = active /\ working = "none")
  PROVE  LiveInv'
<1>1. NamedLegs(legs)' /\ WorkInv'
  BY DEF LiveInv, NamedLegs, WorkInv, SomeOpening
<1>2. PhaseInv'
  BY LegsAre DEF LiveInv, NamedLegs, PhaseInv
<1> QED BY <1>1, <1>2 DEF LiveInv

\* The leg that opens takes over from the one a rotation leaves, or from none.
LEMMA RotateOpenedKeeps ==
  ASSUME LiveInv, NEW l \in Legs, RotateOpened(l)
  PROVE  LiveInv'
<1> DEFINE g == [[legs[l] EXCEPT !.st = "open"] EXCEPT !.heard = Replay(OverlapWords)]
           lg == [legs EXCEPT ![l] = g]
<1>1. working = "rotating" /\ legs[l].st = "opening" /\ active \in Legs /\ retiring = 0 /\ active # l
      /\ legs[active].st \in {"open", "dropped", "closed"} /\ livePhase \in {"running", "stopping"}
  BY LegsAre DEF RotateOpened, LiveInv, NamedLegs, WorkInv, PhaseInv
<1>2. \A k \in Legs \ {l, active} : legs[k].st = "none"
  BY <1>1, LegsAre DEF LiveInv, NamedLegs
<1>3. IsLeg(g) /\ g.st = "open"
  <2>1. IsLeg(legs[l])
    BY DEF LiveInv, AreLegs
  <2>2. IsLeg([legs[l] EXCEPT !.st = "open"]) /\ [legs[l] EXCEPT !.st = "open"].st = "open"
    BY <2>1, LegUpdates, ZenonT(60) DEF LegStates
  <2> QED BY <2>2, LegUpdates
<1> HIDE DEF g
<1>4. AreLegs(lg) /\ \A k \in Legs : lg[k] = IF k = l THEN g ELSE legs[k]
  BY <1>3, OneLegUpdated DEF LiveInv
<1>5. [legs EXCEPT ![l].st = "open", ![l].heard = Replay(OverlapWords)] = lg
  <2>1. [legs EXCEPT ![l].st = "open", ![l].heard = Replay(OverlapWords)]
          = [[legs EXCEPT ![l].st = "open"] EXCEPT ![l].heard = Replay(OverlapWords)]
    OBVIOUS
  <2>2. [legs EXCEPT ![l].st = "open"] = [legs EXCEPT ![l] = [legs[l] EXCEPT !.st = "open"]]
    BY DEF LiveInv, AreLegs
  <2>3. [[legs EXCEPT ![l].st = "open"] EXCEPT ![l].heard = Replay(OverlapWords)]
          = [legs EXCEPT ![l] = [[legs[l] EXCEPT !.st = "open"] EXCEPT !.heard = Replay(OverlapWords)]]
    BY <2>2 DEF LiveInv, AreLegs
  <2> QED BY <2>1, <2>3 DEF g
<1> HIDE DEF lg
<1>6. CASE legs[active].st = "closed"
  <2>1. TakeOver(lg, active, l, seam)
    BY <1>5, <1>6 DEF RotateOpened
  <2> QED BY <1>1, <1>2, <1>3, <1>4, <2>1, TakeOverKeeps
<1>7. CASE legs[active].st # "closed"
  <2>1. legs' = lg /\ active' = l /\ retiring' = active /\ working' = "flushing" /\ livePhase' = livePhase
    BY <1>5, <1>7 DEF RotateOpened
  <2>2. NamedLegs(legs)'
    BY <1>1, <1>2, <1>3, <1>4, <2>1 DEF NamedLegs
  <2>3. WorkInv' /\ PhaseInv'
    BY <1>1, <1>2, <1>3, <1>4, <2>1, LegsAre DEF WorkInv, PhaseInv, SomeOpening, LiveInv
  <2> QED BY <1>4, <2>1, <2>2, <2>3 DEF LiveInv
<1> QED BY <1>6, <1>7

\* Only the leg's words change.
LEMMA WordsChanged ==
  ASSUME LiveInv, NEW l \in Legs, NEW g, IsLeg(g), g.st = legs[l].st
  PROVE  AreLegs([legs EXCEPT ![l] = g]) /\ \A k \in Legs : [legs EXCEPT ![l] = g][k].st = legs[k].st
<1>1. AreLegs(legs)
  BY DEF LiveInv
<1> QED BY <1>1, OneLegUpdated

LEMMA OneLegHeard ==
  ASSUME LiveInv, NEW l \in Legs, NEW g, IsLeg(g), g.st = legs[l].st, legs' = [legs EXCEPT ![l] = g],
         UNCHANGED <<active, retiring, working, livePhase>>
  PROVE  LiveInv'
<1> DEFINE lg == [legs EXCEPT ![l] = g]
<1>1. AreLegs(lg) /\ \A k \in Legs : lg[k].st = legs[k].st
  BY WordsChanged
<1>2. AreLegs(legs') /\ \A k \in Legs : legs'[k].st = legs[k].st
  BY <1>1
<1> QED BY <1>2, SameStates

LEMMA InterimKeeps ==
  ASSUME LiveInv, NEW l \in Legs, Interim(l)
  PROVE  LiveInv'
<1> DEFINE g == legs[l]
           after == IF g.held # <<>> /\ Last(g.held)[1] = "partial" THEN Front(g.held) ELSE g.held
           x == Append(after, <<"partial", g.heard>>)
<1>1. legs' = [legs EXCEPT ![l] = IF g.mute THEN [g EXCEPT !.held = x] ELSE [g EXCEPT !.pending = g.heard]]
      /\ UNCHANGED <<active, retiring, working, livePhase>>
  BY DEF Interim
<1>2. IsLeg(g)
  BY DEF LiveInv, AreLegs
<1> HIDE DEF x
<1>3. IsLeg([g EXCEPT !.held = x]) /\ [g EXCEPT !.held = x].st = g.st
  BY <1>2, LegUpdates
<1>4. IsLeg([g EXCEPT !.pending = g.heard]) /\ [g EXCEPT !.pending = g.heard].st = g.st
  BY <1>2, LegUpdates
<1> DEFINE h == IF g.mute THEN [g EXCEPT !.held = x] ELSE [g EXCEPT !.pending = g.heard]
<1>5. IsLeg(h) /\ h.st = legs[l].st
  BY <1>3, <1>4
<1>6. legs' = [legs EXCEPT ![l] = h]
  BY <1>1
<1> HIDE DEF h
<1> QED BY <1>1, <1>5, <1>6, OneLegHeard

LEMMA FinalKeeps ==
  ASSUME LiveInv, NEW l \in Legs, LiveFinal(l)
  PROVE  LiveInv'
<1>1. PICK n : \/ /\ legs' = [legs EXCEPT ![l].heard = SubSeq(legs[l].heard, n + 1, Len(legs[l].heard)),
                                      ![l].held = Append(@, <<"final", SubSeq(legs[l].heard, 1, n)>>)]
               \/ legs' = [legs EXCEPT ![l].heard = SubSeq(legs[l].heard, n + 1, Len(legs[l].heard)),
                                      ![l].pending = <<>>]
  BY DEF LiveFinal
<1>2. UNCHANGED <<active, retiring, working, livePhase>>
  BY DEF LiveFinal
<1> DEFINE left == SubSeq(legs[l].heard, n + 1, Len(legs[l].heard))
           text == SubSeq(legs[l].heard, 1, n)
           g == [legs[l] EXCEPT !.heard = left]
           x == Append(g.held, <<"final", text>>)
<1>3. IsLeg(legs[l])
  BY DEF LiveInv, AreLegs
<1>4. IsLeg(g) /\ g.st = legs[l].st /\ g.held = legs[l].held
  <2> HIDE DEF left
  <2>1. IsLeg(g) /\ g.st = legs[l].st
    BY <1>3, LegUpdates
  <2>2. g.held = legs[l].held
    BY <1>3 DEF IsLeg
  <2> QED BY <2>1, <2>2
<1>5. \/ legs' = [legs EXCEPT ![l] = [g EXCEPT !.held = x]]
      \/ legs' = [legs EXCEPT ![l] = [g EXCEPT !.pending = <<>>]]
  <2> DEFINE once == [legs EXCEPT ![l].heard = left]
  <2>1. once = [legs EXCEPT ![l] = g] /\ once[l] = g /\ once = [k \in Legs |-> once[k]]
    BY DEF LiveInv, AreLegs
  <2>2. \/ legs' = [once EXCEPT ![l].held = Append(@, <<"final", text>>)]
        \/ legs' = [once EXCEPT ![l].pending = <<>>]
    <3>1. \A y : [legs EXCEPT ![l].heard = left, ![l].held = Append(@, y)] = [once EXCEPT ![l].held = Append(@, y)]
      OBVIOUS
    <3>2. [legs EXCEPT ![l].heard = left, ![l].pending = <<>>] = [once EXCEPT ![l].pending = <<>>]
      OBVIOUS
    <3> HIDE DEF once
    <3> QED BY <1>1, <3>1, <3>2
  <2> HIDE DEF once, text
  <2>3. \/ legs' = [once EXCEPT ![l] = [once[l] EXCEPT !.held = Append(@, <<"final", text>>)]]
        \/ legs' = [once EXCEPT ![l] = [once[l] EXCEPT !.pending = <<>>]]
    BY <2>1, <2>2
  <2> HIDE DEF g
  <2> QED BY <2>1, <2>3
<1> HIDE DEF g, x
<1>6. IsLeg([g EXCEPT !.held = x]) /\ [g EXCEPT !.held = x].st = g.st
      /\ IsLeg([g EXCEPT !.pending = <<>>]) /\ [g EXCEPT !.pending = <<>>].st = g.st
  BY <1>4, LegUpdates
<1>7. CASE legs' = [legs EXCEPT ![l] = [g EXCEPT !.held = x]]
  BY <1>2, <1>4, <1>6, <1>7, OneLegHeard
<1>8. CASE legs' = [legs EXCEPT ![l] = [g EXCEPT !.pending = <<>>]]
  BY <1>2, <1>4, <1>6, <1>8, OneLegHeard
<1> QED BY <1>5, <1>7, <1>8

LEMMA PushKeeps == ASSUME LiveInv, PushAudio PROVE LiveInv'
<1>1. UNCHANGED <<active, retiring, working, livePhase>>
  BY DEF PushAudio
<1>2. CASE active # 0 /\ legs[active].st = "open"
  <2> DEFINE x == Append(legs[active].heard, said + 1)
             g == [legs[active] EXCEPT !.heard = x]
  <2>1. active \in Legs /\ IsLeg(legs[active])
    BY <1>2 DEF LiveInv, NamedLegs, AreLegs
  <2>2. legs' = [legs EXCEPT ![active] = g]
    BY <1>2, <2>1 DEF PushAudio, LiveInv, AreLegs
  <2> HIDE DEF x
  <2>3. IsLeg(g) /\ g.st = legs[active].st
    BY <2>1, LegUpdates
  <2> HIDE DEF g
  <2> QED BY <1>1, <2>1, <2>2, <2>3, OneLegHeard
<1>3. CASE ~(active # 0 /\ legs[active].st = "open")
  <2>1. legs' = legs
    BY <1>3 DEF PushAudio
  <2> QED BY <1>1, <2>1, SameStates DEF LiveInv
<1> QED BY <1>2, <1>3

\* Only a session that was named was ever connected.
LEMMA ConnectedIsNamed ==
  ASSUME LiveInv, NEW l \in Legs, legs[l].st \in {"open", "dropped", "closed"}
  PROVE  l \in {active, retiring}
BY DEF LiveInv, NamedLegs

LEMMA DropKeeps == ASSUME LiveInv, NEW l \in Legs, Drop(l) PROVE LiveInv'
<1>1. l \in {active, retiring} /\ legs' = [legs EXCEPT ![l].st = "dropped"]
      /\ UNCHANGED <<active, retiring, working, livePhase>>
  BY ConnectedIsNamed DEF Drop
<1>2. AreLegs([legs EXCEPT ![l].st = "dropped"])
      /\ \A k \in Legs : [legs EXCEPT ![l].st = "dropped"][k].st = IF k = l THEN "dropped" ELSE legs[k].st
  <2>1. AreLegs(legs) /\ "dropped" \in LegStates
    BY DEF LiveInv, LegStates
  <2> QED BY <2>1, OneStateChanged
<1>3. AreLegs(legs') /\ \A k \in Legs : legs'[k].st = IF k = l THEN "dropped" ELSE legs[k].st
  BY <1>1, <1>2
<1> QED BY <1>1, <1>3, StateWorsens

LEMMA OnCloseKeeps == ASSUME LiveInv, NEW l \in Legs, OnClose(l) PROVE LiveInv'
<1> DEFINE lg == [legs EXCEPT ![l] = Closed(@)]
<1>1. l \in {active, retiring} /\ legs[l].st = "dropped"
  BY ConnectedIsNamed DEF OnClose
<1>2. AreLegs(lg) /\ \A k \in Legs : lg[k].st = IF k = l THEN "closed" ELSE legs[k].st
  <2>1. AreLegs(legs) /\ "closed" \in LegStates
    BY DEF LiveInv, LegStates
  <2> DEFINE closed == [legs EXCEPT ![l].st = "closed"]
  <2>2. lg = closed
    BY DEF Closed
  <2>3. AreLegs(closed) /\ \A k \in Legs : closed[k].st = IF k = l THEN "closed" ELSE legs[k].st
    BY <2>1, OneStateChanged
  <2> HIDE DEF lg, closed
  <2> QED BY <2>2, <2>3
<1> HIDE DEF lg
<1>3. CASE livePhase = "running" /\ l = active /\ working = "none"
  <2>1. Recover(lg, l, seam)
    BY <1>3 DEF OnClose, lg
  <2>2. \A k \in Legs \ {l} : lg[k].st = "none"
    BY <1>2, <1>3, LegsAre DEF LiveInv, NamedLegs, WorkInv, SomeOpening
  <2> QED BY <1>2, <1>3, <2>1, <2>2, RecoverKeeps
<1>4. CASE ~(livePhase = "running" /\ l = active /\ working = "none")
  <2>1. legs' = lg /\ UNCHANGED <<active, retiring, working, livePhase>>
    BY <1>4 DEF OnClose, lg
  <2>2. AreLegs(legs') /\ \A k \in Legs : legs'[k].st = IF k = l THEN "closed" ELSE legs[k].st
    BY <1>2, <2>1
  <2> QED BY <1>1, <1>4, <2>1, <2>2, StateWorsens
<1> QED BY <1>3, <1>4

LEMMA RotateLegKeeps == ASSUME LiveInv, RotateLeg PROVE LiveInv'
<1>1. livePhase = "running" /\ working = "none" /\ retiring = 0 /\ active \in Legs
      /\ legs[active].st \in {"open", "dropped"} /\ \A k \in Legs \ {active} : legs[k].st = "none"
  BY LegsAre DEF RotateLeg, LiveInv, NamedLegs, WorkInv, PhaseInv, SomeOpening
<1>2. legs' = Opening(legs, TRUE) /\ working' = "rotating" /\ UNCHANGED <<active, retiring, livePhase>>
  BY DEF RotateLeg
<1>3. \E k \in Legs : legs[k].st = "none"
  BY <1>1, LegsAre
<1>4. PICK k \in Legs : legs[k].st = "none" /\ Opening(legs, TRUE) = [legs EXCEPT ![k] = Leg("opening", TRUE)]
  BY <1>3, OpeningTakesOne DEF LiveInv
<1>5. IsLeg(Leg("opening", TRUE)) /\ Leg("opening", TRUE).st = "opening"
  BY LegIsLeg DEF LegStates
<1> DEFINE fresh == Leg("opening", TRUE)
           lg == [legs EXCEPT ![k] = fresh]
<1>b. AreLegs(legs) /\ IsLeg(fresh)
  BY <1>5 DEF LiveInv
<1>a. AreLegs(lg) /\ \A l \in Legs : lg[l] = IF l = k THEN fresh ELSE legs[l]
  <2> HIDE DEF fresh
  <2> QED BY <1>b, OneLegUpdated
<1>6. AreLegs(legs') /\ \A l \in Legs : legs'[l] = IF l = k THEN Leg("opening", TRUE) ELSE legs[l]
  BY <1>2, <1>4, <1>a
<1>7. k # active /\ \A l \in Legs : legs'[l].st = IF l = k THEN "opening"
                                              ELSE IF l = active THEN legs[active].st ELSE "none"
  BY <1>1, <1>4, <1>5, <1>6
<1>8. NamedLegs(legs)'
  <2>1. active' \in {0} \union Legs /\ retiring' = 0 /\ \A l \in Legs : l \in {active', retiring'} <=> l = active
    BY <1>1, <1>2, LegsAre
  <2>2. \A l \in Legs : IF l \in {active', retiring'} THEN legs'[l].st \in {"open", "dropped", "closed"}
                                                    ELSE legs'[l].st \in {"none", "opening"}
    BY <1>1, <1>7, <2>1
  <2>3. \A m, l \in Legs : legs'[m].st = "opening" /\ legs'[l].st = "opening" => m = l
    BY <1>1, <1>7
  <2> QED BY <2>1, <2>2, <2>3 DEF NamedLegs
<1>9. WorkInv' /\ PhaseInv'
  BY <1>1, <1>2, <1>7, LegsAre DEF WorkInv, PhaseInv, SomeOpening
<1> QED BY <1>6, <1>8, <1>9 DEF LiveInv

LEMMA RotateFlushedKeeps == ASSUME LiveInv, RotateFlushed PROVE LiveInv'
<1>1. working = "flushing" /\ active \in Legs /\ retiring \in Legs /\ active # retiring
      /\ legs[active].st \in {"open", "dropped", "closed"} /\ livePhase \in {"running", "stopping"}
      /\ \A l \in Legs \ {active, retiring} : legs[l].st = "none"
  BY LegsAre DEF RotateFlushed, LiveInv, NamedLegs, WorkInv, PhaseInv, SomeOpening
<1> DEFINE s == LegSettled(seam, legs[retiring])
<1>2. TakeOver(legs, retiring, active, s)
  BY DEF RotateFlushed
<1> HIDE DEF s
<1>3. AreLegs(legs)
  BY DEF LiveInv
<1> QED BY <1>1, <1>2, <1>3, TakeOverKeeps

\* The reopened leg is the only one, and audio goes to it.
LEMMA RecoverOpenedKeeps == ASSUME LiveInv, NEW l \in Legs, RecoverOpened(l) PROVE LiveInv'
<1> DEFINE g == [[legs[l] EXCEPT !.st = "open"] EXCEPT !.heard = Replay(RingWords)]
           lg == [legs EXCEPT ![l] = g]
<1>1. working = "recovering" /\ legs[l].st = "opening" /\ active = 0 /\ retiring = 0
      /\ livePhase \in {"running", "stopping"} /\ \A k \in Legs \ {l} : legs[k].st = "none"
  BY LegsAre DEF RecoverOpened, LiveInv, NamedLegs, WorkInv, PhaseInv
<1>2. IsLeg(g) /\ g.st = "open"
  <2>1. IsLeg(legs[l])
    BY DEF LiveInv, AreLegs
  <2>2. IsLeg([legs[l] EXCEPT !.st = "open"]) /\ [legs[l] EXCEPT !.st = "open"].st = "open"
    BY <2>1, LegUpdates, ZenonT(60) DEF LegStates
  <2> QED BY <2>2, LegUpdates
<1> HIDE DEF g
<1>3. AreLegs(lg) /\ \A k \in Legs : lg[k] = IF k = l THEN g ELSE legs[k]
  BY <1>2, OneLegUpdated DEF LiveInv
<1>4. [legs EXCEPT ![l].st = "open", ![l].heard = Replay(RingWords)] = lg
  <2>1. [legs EXCEPT ![l].st = "open", ![l].heard = Replay(RingWords)]
          = [[legs EXCEPT ![l].st = "open"] EXCEPT ![l].heard = Replay(RingWords)]
    OBVIOUS
  <2>2. [legs EXCEPT ![l].st = "open"] = [legs EXCEPT ![l] = [legs[l] EXCEPT !.st = "open"]]
    BY DEF LiveInv, AreLegs
  <2>3. [[legs EXCEPT ![l].st = "open"] EXCEPT ![l].heard = Replay(RingWords)]
          = [legs EXCEPT ![l] = [[legs[l] EXCEPT !.st = "open"] EXCEPT !.heard = Replay(RingWords)]]
    BY <2>2 DEF LiveInv, AreLegs
  <2> QED BY <2>1, <2>3 DEF g
<1> HIDE DEF lg
<1>5. legs' = lg /\ active' = l /\ working' = "none" /\ UNCHANGED <<retiring, livePhase>>
  BY <1>4 DEF RecoverOpened
<1>6. NamedLegs(legs)'
  BY <1>1, <1>2, <1>3, <1>5, LegsAre DEF NamedLegs
<1>7. WorkInv' /\ PhaseInv'
  BY <1>1, <1>2, <1>3, <1>5, LegsAre DEF WorkInv, PhaseInv, SomeOpening
<1> QED BY <1>3, <1>5, <1>6, <1>7 DEF LiveInv

LEMMA LegOpenFailsKeeps == ASSUME LiveInv, NEW l \in Legs, LegOpenFails(l) PROVE LiveInv'
<1> DEFINE lg == [legs EXCEPT ![l] = NoLeg]
<1>1. working \in {"rotating", "recovering"} /\ legs[l].st = "opening" /\ livePhase \in {"running", "stopping"}
      /\ \A k \in Legs \ {l} : legs[k].st # "opening"
  BY DEF LegOpenFails, LiveInv, NamedLegs, WorkInv, PhaseInv
<1>2. AreLegs(lg) /\ \A k \in Legs : lg[k] = IF k = l THEN NoLeg ELSE legs[k]
  BY NoLegIsLeg, OneLegUpdated DEF LiveInv
<1> HIDE DEF lg
<1>3. CASE working = "rotating" /\ legs[active].st # "closed"
  <2>1. legs' = lg /\ working' = "none" /\ UNCHANGED <<active, retiring, livePhase>>
    BY <1>3 DEF LegOpenFails, lg
  <2>2. active \in Legs /\ retiring = 0 /\ l # active /\ \A k \in Legs \ {active} : legs'[k].st = "none"
    BY <1>1, <1>2, <1>3, <2>1, NoLegIsLeg, LegsAre DEF LiveInv, NamedLegs, WorkInv
  <2>3. legs'[active] = legs[active] /\ legs[active].st \in {"open", "dropped"}
    BY <1>2, <1>3, <2>1, <2>2 DEF LiveInv, NamedLegs
  <2>4. NamedLegs(legs)'
    BY <2>1, <2>2, <2>3, LegsAre DEF NamedLegs
  <2>5. WorkInv' /\ PhaseInv'
    BY <1>1, <2>1, <2>2, <2>3, LegsAre DEF WorkInv, PhaseInv, SomeOpening
  <2> QED BY <1>2, <2>1, <2>4, <2>5 DEF LiveInv
<1>4. CASE ~(working = "rotating" /\ legs[active].st # "closed")
  <2>1. Dispose(lg)
    BY <1>4 DEF LegOpenFails, lg
  <2>2. \A k, m \in Legs : lg[k].st = "opening" /\ lg[m].st = "opening" => k = m
    BY <1>1, <1>2, NoLegIsLeg
  <2> QED BY <1>2, <2>1, <2>2, DisposeKeeps
<1> QED BY <1>3, <1>4

LEMMA OpenedTooLateKeeps == ASSUME LiveInv, NEW l \in Legs, OpenedTooLate(l) PROVE LiveInv'
<1>1. livePhase = "disposed" /\ active = 0 /\ retiring = 0 /\ working = "none" /\ legs[l].st = "opening"
      /\ legs' = [legs EXCEPT ![l] = NoLeg] /\ UNCHANGED <<active, retiring, working, livePhase>>
  BY DEF OpenedTooLate, LiveInv, WorkInv, PhaseInv
<1> DEFINE lg == [legs EXCEPT ![l] = NoLeg]
<1>0. AreLegs(lg) /\ \A k \in Legs : lg[k] = IF k = l THEN NoLeg ELSE legs[k]
  BY NoLegIsLeg, OneLegUpdated DEF LiveInv
<1>2. AreLegs(legs') /\ \A k \in Legs : legs'[k] = IF k = l THEN NoLeg ELSE legs[k]
  BY <1>0, <1>1
<1>3. NamedLegs(legs)'
  BY <1>1, <1>2, NoLegIsLeg, LegsAre DEF LiveInv, NamedLegs
<1>4. WorkInv' /\ PhaseInv'
  BY <1>1 DEF WorkInv, PhaseInv
<1> QED BY <1>2, <1>3, <1>4 DEF LiveInv

LEMMA FirstOpenedKeeps == ASSUME LiveInv, FirstOpened PROVE LiveInv'
<1>1. livePhase = "starting" /\ legs[1].st = "opening" /\ active = 0 /\ retiring = 0 /\ working = "none" /\ 1 \in Legs
      /\ \A k \in Legs \ {1} : legs[k].st = "none"
  BY LegsAre DEF FirstOpened, LiveInv, NamedLegs, WorkInv, PhaseInv
<1>2. UNCHANGED <<retiring, working>>
  BY DEF FirstOpened
<1>3. CASE legs' = [legs EXCEPT ![1].st = "open"] /\ active' = 1 /\ livePhase' = "running"
  <2>1. AreLegs(legs) /\ "open" \in LegStates
    BY DEF LiveInv, LegStates
  <2>2. AreLegs([legs EXCEPT ![1].st = "open"])
        /\ \A k \in Legs : [legs EXCEPT ![1].st = "open"][k].st = IF k = 1 THEN "open" ELSE legs[k].st
    BY <1>1, <2>1, OneStateChanged
  <2>3. AreLegs(legs') /\ \A k \in Legs : legs'[k].st = IF k = 1 THEN "open" ELSE "none"
    BY <1>1, <1>3, <2>2
  <2>4. NamedLegs(legs)'
    BY <1>1, <1>2, <1>3, <2>3, LegsAre DEF NamedLegs
  <2>5. WorkInv' /\ PhaseInv'
    BY <1>1, <1>2, <1>3, <2>3, LegsAre DEF WorkInv, PhaseInv, SomeOpening
  <2> QED BY <2>3, <2>4, <2>5 DEF LiveInv
<1>4. CASE legs' = [legs EXCEPT ![1] = NoLeg] /\ livePhase' = "disposed" /\ active' = active
  <2> DEFINE lg == [legs EXCEPT ![1] = NoLeg]
  <2>0. AreLegs(lg) /\ \A k \in Legs : lg[k] = IF k = 1 THEN NoLeg ELSE legs[k]
    BY <1>1, NoLegIsLeg, OneLegUpdated DEF LiveInv
  <2>1. AreLegs(legs') /\ \A k \in Legs : legs'[k] = IF k = 1 THEN NoLeg ELSE legs[k]
    BY <1>4, <2>0
  <2>2. NamedLegs(legs)'
    BY <1>1, <1>2, <1>4, <2>1, NoLegIsLeg, LegsAre DEF NamedLegs
  <2>3. WorkInv' /\ PhaseInv'
    BY <1>1, <1>2, <1>4 DEF WorkInv, PhaseInv
  <2> QED BY <2>1, <2>2, <2>3 DEF LiveInv
<1> QED BY <1>3, <1>4 DEF FirstOpened

LEMMA StopsKeep == ASSUME LiveInv, Stop \/ StopFlush \/ StopDone \/ Disposed PROVE LiveInv'
<1>1. CASE Dispose(legs)
  BY <1>1, DisposeKeeps DEF LiveInv, NamedLegs
<1>2. CASE Stop
  <2>1. AreLegs(legs') /\ \A l \in Legs : legs'[l].st = legs[l].st
    BY <1>2 DEF Stop, LiveInv
  <2>2. NamedLegs(legs)' /\ WorkInv'
    BY <1>2 DEF Stop, LiveInv, NamedLegs, WorkInv, PhaseInv, SomeOpening
  <2>3. PhaseInv'
    BY <1>2 DEF Stop, LiveInv, PhaseInv, WorkInv
  <2> QED BY <2>1, <2>2, <2>3 DEF LiveInv
<1>3. CASE StopFlush /\ ~Dispose(legs)
  <2>1. livePhase = "stopping" /\ working = "none" /\ livePhase' = "flushing"
        /\ UNCHANGED <<legs, active, retiring, working>>
    BY <1>3 DEF StopFlush
  <2> QED BY <2>1 DEF LiveInv, AreLegs, NamedLegs, WorkInv, PhaseInv, SomeOpening
<1> QED BY <1>1, <1>2, <1>3 DEF StopDone, Disposed

LEMMA LiveInvStep == LiveInv /\ [LiveNext]_liveVars => LiveInv'
<1> SUFFICES ASSUME LiveInv, [LiveNext]_liveVars PROVE LiveInv'
  OBVIOUS
<1>1. CASE UNCHANGED liveVars
  BY <1>1, SameStates DEF liveVars, LiveInv
<1>2. CASE Elapse \/ LateFinal
  BY <1>2, SameStates DEF Elapse, LateFinal, LiveInv
<1>3. CASE FirstOpened \/ PushAudio \/ RotateLeg \/ RotateFlushed
  BY <1>3, FirstOpenedKeeps, PushKeeps, RotateLegKeeps, RotateFlushedKeeps
<1>4. CASE Stop \/ StopFlush \/ StopDone \/ Disposed
  BY <1>4, StopsKeep
<1>5. ASSUME NEW l \in Legs, Interim(l) \/ LiveFinal(l) \/ Drop(l) \/ OnClose(l) PROVE LiveInv'
  BY <1>5, InterimKeeps, FinalKeeps, DropKeeps, OnCloseKeeps
<1>6. ASSUME NEW l \in Legs, RotateOpened(l) \/ RecoverOpened(l) \/ LegOpenFails(l) \/ OpenedTooLate(l)
      PROVE  LiveInv'
  BY <1>6, RotateOpenedKeeps, RecoverOpenedKeeps, LegOpenFailsKeeps, OpenedTooLateKeeps
<1> QED BY <1>1, <1>2, <1>3, <1>4, <1>5, <1>6 DEF LiveNext

(* A stream that runs is never silently deaf: it has a session whose end   *)
(* it will hear of or one that is being opened (LiveStream.NeverDeaf), for *)
(* any number of words, rotations and drops, and any replay and seam.      *)
THEOREM NeverDeafCorrect == LiveSpec => []NeverDeaf
<1>1. LiveInv => NeverDeaf
  BY DEF LiveInv, PhaseInv, WorkInv, NamedLegs, SomeOpening, NeverDeaf, Alive
<1> QED BY <1>1, LiveInvInit, LiveInvStep, PTL DEF LiveSpec

(* No Live session is left open beside the active one and the one a        *)
(* rotation waits for, and none survives the stream                        *)
(* (LiveStream.NoStraySession).                                            *)
THEOREM NoStraySessionCorrect == LiveSpec => []NoStraySession
<1>1. LiveInv => NoStraySession
  BY LegsAre DEF LiveInv, PhaseInv, WorkInv, NamedLegs, NoStraySession, Alive
<1> QED BY <1>1, LiveInvInit, LiveInvStep, PTL DEF LiveSpec

------------------------------------------------------------------------------
(* The order of the transcript.  WordsInv follows every word from the ring *)
(* to what the client was given: a session that is listened to still has   *)
(* to say a run of words, the filter expects the end of the transcript,    *)
(* and what a session said while it was held back is consecutive runs from *)
(* a word the transcript has nearly reached.                               *)

\* n words from p on.
Run(p, n) == [i \in 1..n |-> p + i - 1]

\* A transcript that says word for word what was spoken.
Exact(out) == \A i \in DOMAIN out : out[i] = i

\* What SpokenOrder says of a transcript.
InOrder(out) == \A n \in 1..(Len(out) - 1) : (\A i \in 1..n : out[i] = i) => out[n + 1] >= n

IsSeam(s) ==
  /\ s = [out |-> s.out, expected |-> s.expected, engaged |-> s.engaged]
  /\ s.out \in Seq(Nat) /\ s.expected \in Seq(Nat) /\ s.engaged \in BOOLEAN
  /\ InOrder(s.out)

\* The filter is armed for a text that goes on with word p: what it expects is the end of the
\* transcript, and it begins at p once a text matched.
Fits(s, p) ==
  Exact(s.out) =>
    /\ Len(s.expected) <= Len(s.out)
    /\ s.expected = Run(Len(s.out) - Len(s.expected) + 1, Len(s.expected))
    /\ p > Len(s.out) - Len(s.expected)
    /\ s.engaged /\ s.expected # <<>> => p = Len(s.out) - Len(s.expected) + 1

Reaches(s, w) == Exact(s.out) => Len(s.out) <= w

LEMMA RunIs ==
  ASSUME NEW p \in Nat, NEW n \in Nat
  PROVE  /\ Run(p, n) \in Seq(Nat) /\ Len(Run(p, n)) = n /\ DOMAIN Run(p, n) = 1..n
         /\ \A i \in 1..n : Run(p, n)[i] = p + i - 1
<1>1. \A i \in 1..n : p + i - 1 \in Nat
  OBVIOUS
<1>2. Run(p, n) \in [1..n -> Nat]
  BY <1>1 DEF Run
<1>3. Run(p, n) \in Seq(Nat)
  BY <1>2, SeqDef
<1>4. DOMAIN Run(p, n) = 1..n
  BY DEF Run
<1>5. Len(Run(p, n)) = n
  BY <1>3, <1>4, LenProperties
<1>6. \A i \in 1..n : Run(p, n)[i] = p + i - 1
  BY DEF Run
<1> QED BY <1>3, <1>4, <1>5, <1>6

LEMMA RunKnown ==
  ASSUME NEW p \in Nat, NEW n \in Nat, NEW t \in Seq(Nat), Len(t) = n, \A i \in 1..n : t[i] = p + i - 1
  PROVE  t = Run(p, n)
<1>1. Run(p, n) \in Seq(Nat) /\ Len(Run(p, n)) = n /\ \A i \in 1..n : Run(p, n)[i] = p + i - 1
  BY RunIs
<1> HIDE DEF Run
<1> QED BY <1>1, SeqEqual

LEMMA NoRun == \A p \in Nat : Run(p, 0) = <<>>
<1>1. ASSUME NEW p \in Nat PROVE <<>> = Run(p, 0)
  <2>1. <<>> \in Seq(Nat) /\ Len(<<>>) = 0
    BY EmptySeq
  <2>2. \A i \in 1..0 : <<>>[i] = p + i - 1
    OBVIOUS
  <2> QED BY <2>1, <2>2, RunKnown
<1> QED BY <1>1

LEMMA RunGrows ==
  ASSUME NEW p \in Nat, NEW n \in Nat
  PROVE  Append(Run(p, n), p + n) = Run(p, n + 1)
<1>1. Run(p, n) \in Seq(Nat) /\ Len(Run(p, n)) = n /\ \A i \in 1..n : Run(p, n)[i] = p + i - 1
  BY RunIs
<1> DEFINE t == Run(p, n)
           u == Append(t, p + n)
<1> HIDE DEF t
<1>2. t \in Seq(Nat) /\ Len(t) = n /\ \A i \in 1..n : t[i] = p + i - 1
  BY <1>1 DEF t
<1>3. u \in Seq(Nat) /\ Len(u) = n + 1 /\ u[n + 1] = p + n /\ \A i \in 1..n : u[i] = t[i]
  BY <1>2
<1>4. \A i \in 1..(n + 1) : u[i] = p + i - 1
  BY <1>2, <1>3
<1> HIDE DEF u
<1>5. u = Run(p, n + 1)
  BY <1>3, <1>4, RunKnown
<1> QED BY <1>5 DEF u, t

LEMMA PartOfRun ==
  ASSUME NEW p \in Nat, NEW n \in Nat, NEW a \in Nat \ {0}, NEW b \in Nat, b <= n, a <= b + 1
  PROVE  SubSeq(Run(p, n), a, b) = Run(p + a - 1, b - a + 1)
<1> DEFINE t == Run(p, n)
           u == SubSeq(t, a, b)
<1>1. t \in Seq(Nat) /\ Len(t) = n /\ \A i \in 1..n : t[i] = p + i - 1
  BY RunIs
<1> HIDE DEF t
<1>2. \A i \in a..b : t[i] \in Nat
  BY <1>1, ElementOfSeq
<1>3. u \in Seq(Nat) /\ Len(u) = b - a + 1 /\ \A i \in 1..(b - a + 1) : u[i] = t[a + i - 1]
  <2>1. a \in Int /\ b \in Int
    OBVIOUS
  <2>2. u \in Seq(Nat) /\ Len(u) = (IF a <= b THEN b - a + 1 ELSE 0) /\ \A i \in 1..(b - a + 1) : u[i] = t[a + i - 1]
    BY <2>1, <1>2, SubSeqProperties
  <2> QED BY <2>2
<1>4. \A i \in 1..(b - a + 1) : u[i] = (p + a - 1) + i - 1
  BY <1>1, <1>3
<1>5. p + a - 1 \in Nat /\ b - a + 1 \in Nat
  OBVIOUS
<1> HIDE DEF u
<1>6. u = Run(p + a - 1, b - a + 1)
  BY <1>3, <1>4, <1>5, RunKnown
<1> QED BY <1>6 DEF u, t

LEMMA PartsOfRun ==
  ASSUME NEW p \in Nat, NEW n \in Nat
  PROVE  \A a \in Nat \ {0}, b \in Nat : b <= n /\ a <= b + 1 => SubSeq(Run(p, n), a, b) = Run(p + a - 1, b - a + 1)
BY PartOfRun, ZenonT(60)

LEMMA LiveNumbers ==
  /\ ShortestText \in Nat /\ OverlapWords \in Nat /\ SeamWords \in Nat /\ RingWords \in Nat /\ MaxWords \in Nat
  /\ OverlapWords <= RingWords /\ RingWords <= SeamWords
  /\ FreshMatch \in {1, 2} /\ FreshMatch <= ShortestText
BY LiveAssumption

\* Once a transcript is not exact, nothing that is added disturbs the order SpokenOrder asks for.
LEMMA AddedToInexact ==
  ASSUME NEW out \in Seq(Nat), NEW t \in Seq(Nat), InOrder(out), ~Exact(out)
  PROVE  out \o t \in Seq(Nat) /\ InOrder(out \o t) /\ ~Exact(out \o t)
<1> DEFINE u == out \o t
<1>1. /\ u \in Seq(Nat) /\ Len(u) = Len(out) + Len(t)
      /\ \A i \in 1..Len(out) : u[i] = out[i]
  BY ConcatProperties, LenProperties
<1>2. Len(out) \in Nat /\ Len(t) \in Nat /\ DOMAIN out = 1..Len(out) /\ DOMAIN u = 1..Len(u)
  BY <1>1, LenProperties
<1> HIDE DEF u
<1>3. PICK j \in 1..Len(out) : out[j] # j
  BY <1>2 DEF Exact
<1>4. ~Exact(u)
  BY <1>1, <1>2, <1>3, SMTT(60) DEF Exact
<1>5. ASSUME NEW n \in 1..(Len(u) - 1), \A i \in 1..n : u[i] = i
      PROVE  u[n + 1] >= n
  <2>1. n < j
    BY <1>1, <1>2, <1>3, <1>5
  <2>2. n \in 1..(Len(out) - 1) /\ u[n + 1] = out[n + 1] /\ \A i \in 1..n : out[i] = i
    BY <1>1, <1>2, <1>3, <1>5, <2>1
  <2> QED BY <2>2 DEF InOrder
<1> QED BY <1>1, <1>4, <1>5 DEF InOrder, u

\* An exact transcript may go on at most one word back.
LEMMA AddedToExact ==
  ASSUME NEW out \in Seq(Nat), NEW y \in Nat \ {0}, NEW k \in Nat, Exact(out), y >= Len(out)
  PROVE  /\ out \o Run(y, k) \in Seq(Nat) /\ Len(out \o Run(y, k)) = Len(out) + k /\ InOrder(out \o Run(y, k))
         /\ Exact(out \o Run(y, k)) => k = 0 \/ y = Len(out) + 1
         /\ k = 0 => out \o Run(y, k) = out
<1> DEFINE t == Run(y, k)
           u == out \o t
           m == Len(out)
<1>1. t \in Seq(Nat) /\ Len(t) = k /\ \A i \in 1..k : t[i] = y + i - 1
  BY RunIs
<1>2. k = 0 => t = <<>>
  BY NoRun
<1> HIDE DEF t
<1>3. /\ u \in Seq(Nat) /\ Len(u) = m + k
      /\ \A i \in 1..(m + k) : u[i] = IF i <= m THEN out[i] ELSE t[i - m]
  BY <1>1, ConcatProperties
<1>4. k = 0 => u = out
  BY <1>2, ConcatEmptySeq
<1>5. m \in Nat /\ DOMAIN out = 1..m /\ DOMAIN u = 1..(m + k)
  BY <1>3, LenProperties
<1> HIDE DEF u, m
<1>6. \A i \in 1..m : u[i] = i
  BY <1>3, <1>5 DEF Exact
<1>7. k > 0 => u[m + 1] = y
  BY <1>1, <1>3, <1>5
<1>8. Exact(u) => k = 0 \/ y = m + 1
  BY <1>5, <1>7 DEF Exact
<1>9. y >= m
  BY DEF m
<1>10. ASSUME NEW n \in 1..(Len(u) - 1), \A i \in 1..n : u[i] = i  PROVE u[n + 1] >= n
  <2>1. CASE n < m
    BY <1>3, <1>5, <1>6, <2>1
  <2>2. CASE n = m
    BY <1>3, <1>5, <1>7, <1>9, <2>2
  <2>3. CASE n > m
    <3>1. u[m + 1] = m + 1 /\ k > 0
      BY <1>3, <1>5, <1>10, <2>3
    <3>2. y = m + 1
      BY <1>7, <3>1
    <3>3. n + 1 - m \in 1..k /\ u[n + 1] = t[n + 1 - m]
      BY <1>3, <1>5, <2>3
    <3>4. t[n + 1 - m] = y + (n + 1 - m) - 1
      BY <1>1, <3>3
    <3> QED BY <1>5, <3>2, <3>3, <3>4
  <2> QED BY <1>5, <2>1, <2>2, <2>3
<1>11. InOrder(u)
  BY <1>10 DEF InOrder
<1> QED BY <1>3, <1>4, <1>8, <1>11 DEF u, t, m

LEMMA LeastNumber ==
  ASSUME NEW S \in SUBSET Nat, S # {}
  PROVE  \E x \in S : \A y \in S : x <= y
<1> DEFINE R == OpToRel(<, Nat)
<1>1. IsWellFoundedOn(R, Nat)
  BY NatLessThanWellFounded
<1>2. PICK x \in S : \A y \in S : ~(<<y, x>> \in R)
  <2> HIDE DEF R
  <2> QED BY <1>1, WFMin
<1>3. \A y \in S : ~(y < x)
  BY <1>2 DEF OpToRel
<1> QED BY <1>3

LEMMA AlignedIs ==
  ASSUME NEW s, IsSeam(s), NEW t \in Seq(Nat), NEW i \in DOMAIN s.expected, Aligned(s, t, i) > 0
  PROVE  LET n == Aligned(s, t, i) IN
         /\ n \in Nat /\ n > 0 /\ n = Lesser(Len(s.expected) - i + 1, Len(t))
         /\ n <= Len(t) /\ i + n <= Len(s.expected) + 1
         /\ SubSeq(t, 1, n) = SubSeq(s.expected, i, i + n - 1)
<1> DEFINE n == Lesser(Len(s.expected) - i + 1, Len(t))
<1>1. s.expected \in Seq(Nat) /\ Len(s.expected) \in Nat /\ Len(t) \in Nat /\ i \in 1..Len(s.expected)
  BY LenProperties DEF IsSeam
<1>2. n \in Nat /\ n <= Len(t) /\ n <= Len(s.expected) - i + 1
  BY <1>1 DEF Lesser
<1>3. Aligned(s, t, i) = IF n >= (IF s.engaged THEN 1 ELSE FreshMatch) /\ SubSeq(t, 1, n) = SubSeq(s.expected, i, i + n - 1)
                         THEN n ELSE 0
  BY DEF Aligned
<1> HIDE DEF n
<1>4. Aligned(s, t, i) = n /\ SubSeq(t, 1, n) = SubSeq(s.expected, i, i + n - 1)
  <2>1. CASE n >= (IF s.engaged THEN 1 ELSE FreshMatch) /\ SubSeq(t, 1, n) = SubSeq(s.expected, i, i + n - 1)
    BY <1>3, <2>1
  <2>2. CASE ~(n >= (IF s.engaged THEN 1 ELSE FreshMatch) /\ SubSeq(t, 1, n) = SubSeq(s.expected, i, i + n - 1))
    <3>1. Aligned(s, t, i) = 0
      BY <1>3, <2>2
    <3> QED BY <3>1
  <2> QED BY <2>1, <2>2
<1>5. n = Lesser(Len(s.expected) - i + 1, Len(t))
  BY DEF n
<1>6. n > 0 /\ n <= Len(t) /\ i + n <= Len(s.expected) + 1
  BY <1>1, <1>2, <1>4
<1> HIDE DEF Aligned
<1> QED BY <1>2, <1>4, <1>5, <1>6

\* The filter drops a beginning of the text that repeats a part of what it expects, or nothing.
LEMMA FilterIs ==
  ASSUME NEW s, IsSeam(s), NEW t \in Seq(Nat)
  PROVE  LET r == FilterFinal(s, t) IN
         \/ Places(s, t) = {} /\ r = [out |-> s.out \o t, expected |-> <<>>, engaged |-> s.engaged]
         \/ \E i \in Places(s, t) : LET n == Aligned(s, t, i) IN
              r = [out |-> s.out \o SubSeq(t, n + 1, Len(t)),
                   expected |-> SubSeq(s.expected, i + n, Len(s.expected)), engaged |-> TRUE]
<1>1. CASE Places(s, t) = {}
  <2>1. FilterFinal(s, t) = [s EXCEPT !.expected = <<>>, !.out = @ \o t]
    BY <1>1 DEF FilterFinal
  <2>2. s = [out |-> s.out, expected |-> s.expected, engaged |-> s.engaged]
    BY DEF IsSeam
  <2> QED BY <1>1, <2>1, <2>2
<1>2. CASE Places(s, t) # {}
  <2> DEFINE i == CHOOSE p \in Places(s, t) : \A q \in Places(s, t) : p <= q
  <2>1. Places(s, t) \in SUBSET Nat
    BY LenProperties DEF Places, IsSeam
  <2>2. \E p \in Places(s, t) : \A q \in Places(s, t) : p <= q
    BY <1>2, <2>1, LeastNumber
  <2>3. i \in Places(s, t)
    BY <2>2
  <2>4. FilterFinal(s, t) = [out |-> s.out \o SubSeq(t, Aligned(s, t, i) + 1, Len(t)),
                   expected |-> SubSeq(s.expected, i + Aligned(s, t, i), Len(s.expected)), engaged |-> TRUE]
    BY <1>2 DEF FilterFinal
  <2> HIDE DEF i
  <2> QED BY <2>3, <2>4
<1> QED BY <1>1, <1>2

\* Whatever the transcript says, it stays in order when it is not exact any more.
LEMMA FilterInexact ==
  ASSUME NEW s, IsSeam(s), NEW t \in Seq(Nat), ~Exact(s.out)
  PROVE  IsSeam(FilterFinal(s, t)) /\ ~Exact(FilterFinal(s, t).out)
<1> DEFINE r == FilterFinal(s, t)
<1>0. s.out \in Seq(Nat) /\ s.expected \in Seq(Nat) /\ s.engaged \in BOOLEAN /\ InOrder(s.out)
  BY DEF IsSeam
<1>1. CASE Places(s, t) = {} /\ r = [out |-> s.out \o t, expected |-> <<>>, engaged |-> s.engaged]
  <2>1. s.out \o t \in Seq(Nat) /\ InOrder(s.out \o t) /\ ~Exact(s.out \o t)
    BY <1>0, AddedToInexact
  <2>2. <<>> \in Seq(Nat)
    BY EmptySeq
  <2> HIDE DEF r
  <2> QED BY <1>0, <1>1, <2>1, <2>2 DEF IsSeam, r
<1>2. ASSUME NEW i \in Places(s, t),
             r = [out |-> s.out \o SubSeq(t, Aligned(s, t, i) + 1, Len(t)),
                  expected |-> SubSeq(s.expected, i + Aligned(s, t, i), Len(s.expected)), engaged |-> TRUE]
      PROVE  IsSeam(r) /\ ~Exact(r.out)
  <2>1. i \in DOMAIN s.expected /\ Aligned(s, t, i) > 0
    BY DEF Places
  <2> DEFINE n == Aligned(s, t, i)
             u == SubSeq(t, n + 1, Len(t))
             v == SubSeq(s.expected, i + n, Len(s.expected))
  <2>2. n \in Nat
    BY <2>1, AlignedIs
  <2> HIDE DEF n
  <2>3. Len(t) \in Nat /\ Len(s.expected) \in Nat /\ i \in Nat \ {0}
    BY <1>0, <2>1, LenProperties
  <2>4. \A j \in (n + 1)..Len(t) : t[j] \in Nat
    BY <2>2, <2>3, ElementOfSeq
  <2>5. \A j \in (i + n)..Len(s.expected) : s.expected[j] \in Nat
    BY <1>0, <2>2, <2>3, ElementOfSeq
  <2>6. u \in Seq(Nat)
    BY <2>2, <2>3, <2>4, SubSeqProperties
  <2>7. v \in Seq(Nat)
    BY <2>2, <2>3, <2>5, SubSeqProperties
  <2> HIDE DEF r
  <2>8. r = [out |-> s.out \o u, expected |-> v, engaged |-> TRUE]
    BY <1>2 DEF n
  <2> HIDE DEF u, v
  <2>9. s.out \o u \in Seq(Nat) /\ InOrder(s.out \o u) /\ ~Exact(s.out \o u)
    BY <1>0, <2>6, AddedToInexact
  <2> QED BY <2>7, <2>8, <2>9 DEF IsSeam
<1>3. r = FilterFinal(s, t)
  OBVIOUS
<1> HIDE DEF r
<1> QED BY <1>1, <1>2, <1>3, FilterIs

------------------------------------------------------------------------------
LEMMA FilterFits ==
  ASSUME NEW s, IsSeam(s), NEW p \in Nat \ {0}, NEW k \in Nat, k >= ShortestText, NEW w \in Nat, p + k <= w + 1,
         Fits(s, p), Reaches(s, w)
  PROVE  LET r == FilterFinal(s, Run(p, k)) IN IsSeam(r) /\ Fits(r, p + k) /\ Reaches(r, w)
<1> DEFINE t == Run(p, k)
           r == FilterFinal(s, t)
<1>t. /\ t \in Seq(Nat) /\ Len(t) = k /\ \A j \in 1..k : t[j] = p + j - 1
      /\ \A a \in Nat \ {0}, b \in Nat : b <= k /\ a <= b + 1 => SubSeq(t, a, b) = Run(p + a - 1, b - a + 1)
  <2>1. t \in Seq(Nat) /\ Len(t) = k /\ \A j \in 1..k : t[j] = p + j - 1
    BY RunIs
  <2>2. p \in Nat
    OBVIOUS
  <2>3. \A a \in Nat \ {0}, b \in Nat : b <= k /\ a <= b + 1 => SubSeq(t, a, b) = Run(p + a - 1, b - a + 1)
    BY <2>2, PartsOfRun, Zenon
  <2> QED BY <2>1, <2>3
<1>k. k > 0 /\ k >= FreshMatch /\ FreshMatch \in {1, 2}
  BY LiveNumbers
<1>r. r = FilterFinal(s, t)
  OBVIOUS
<1> HIDE DEF t, r
<1>1. CASE ~Exact(s.out)
  <2>1. IsSeam(r) /\ ~Exact(r.out)
    BY <1>t, <1>1, <1>r, FilterInexact
  <2> QED BY <2>1 DEF Fits, Reaches, t, r
<1>2. CASE Exact(s.out)
  <2> DEFINE m == Len(s.out)
             e == Len(s.expected)
  <2>1. /\ s.out \in Seq(Nat) /\ m \in Nat /\ s.expected \in Seq(Nat) /\ e \in Nat /\ s.engaged \in BOOLEAN
        /\ DOMAIN s.expected = 1..e
    BY LenProperties DEF IsSeam
  <2>2. /\ e <= m /\ s.expected = Run(m - e + 1, e) /\ p > m - e
        /\ s.engaged /\ s.expected # <<>> => p = m - e + 1
        /\ m <= w
    BY <1>2 DEF Fits, Reaches
  <2>3. m - e + 1 \in Nat \ {0}
    BY <2>1, <2>2
  <2>x. /\ \A j \in 1..e : s.expected[j] = m - e + j
        /\ \A a \in Nat \ {0}, b \in Nat : b <= e /\ a <= b + 1 => SubSeq(s.expected, a, b) = Run(m - e + a, b - a + 1)
    <3> DEFINE z == m - e + 1
    <3>1. z \in Nat /\ s.expected = Run(z, e)
      BY <2>2, <2>3
    <3> HIDE DEF m, e, z
    <3>2. \A j \in 1..e : s.expected[j] = z + j - 1
      <4>1. \A j \in 1..e : Run(z, e)[j] = z + j - 1
        BY <2>1, <3>1, RunIs
      <4> QED BY <3>1, <4>1
    <3>3. \A a \in Nat \ {0}, b \in Nat : b <= e /\ a <= b + 1 => SubSeq(s.expected, a, b) = Run(z + a - 1, b - a + 1)
      <4>1. e \in Nat
        BY <2>1
      <4>2. \A a \in Nat \ {0}, b \in Nat : b <= e /\ a <= b + 1 => SubSeq(Run(z, e), a, b) = Run(z + a - 1, b - a + 1)
        BY <3>1, <4>1, PartsOfRun, Zenon
      <4> QED BY <3>1, <4>2
    <3>4. \A a \in Nat : z + a - 1 = m - e + a
      BY <2>1 DEF z
    <3>5. \A a \in Nat \ {0}, b \in Nat : b <= e /\ a <= b + 1 => SubSeq(s.expected, a, b) = Run(m - e + a, b - a + 1)
      BY <3>3, <3>4
    <3>6. \A j \in 1..e : s.expected[j] = m - e + j
      BY <2>1, <3>2 DEF z
    <3> QED BY <3>5, <3>6
  <2> HIDE DEF m, e
  \* A place can only be the one of word p.
  <2>4. ASSUME NEW i \in Places(s, t)
        PROVE  /\ i \in 1..e /\ p = m - e + i
               /\ Aligned(s, t, i) \in Nat /\ Aligned(s, t, i) > 0 /\ Aligned(s, t, i) = Lesser(e - i + 1, k)
    <3> DEFINE n == Aligned(s, t, i)
    <3>1. i \in DOMAIN s.expected /\ n > 0
      BY DEF Places
    <3>2. /\ n \in Nat /\ n = Lesser(e - i + 1, k) /\ n <= k /\ i + n <= e + 1
          /\ SubSeq(t, 1, n) = SubSeq(s.expected, i, i + n - 1)
      BY <1>t, <3>1, AlignedIs DEF e
    <3> HIDE DEF n
    <3>3. SubSeq(t, 1, n) = Run(p, n)
      <4>1. SubSeq(t, 1, n) = Run(p + 1 - 1, n - 1 + 1)
        <5>1. 1 \in Nat \ {0} /\ 1 <= n + 1
          BY <3>2
        <5> QED BY <1>t, <3>2, <5>1
      <4>2. p + 1 - 1 = p /\ n - 1 + 1 = n
        BY <3>2
      <4> QED BY <4>1, <4>2
    <3>4. SubSeq(s.expected, i, i + n - 1) = Run(m - e + i, n)
      <4>1. i \in Nat \ {0} /\ i + n - 1 \in Nat /\ i + n - 1 <= e /\ i <= i + n - 1 + 1
        <5>1. i \in Nat /\ i >= 1 /\ n \in Nat /\ n >= 1
          BY <2>1, <3>1, <3>2, SMTT(60)
        <5>2. e \in Nat /\ i + n <= e + 1
          BY <2>1, <3>2
        <5> HIDE DEF Places
        <5> QED BY <5>1, <5>2
      <4>2. SubSeq(s.expected, i, i + n - 1) = Run(m - e + i, (i + n - 1) - i + 1)
        BY <2>x, <4>1
      <4>3. (i + n - 1) - i + 1 = n
        BY <3>2, <4>1
      <4> QED BY <4>2, <4>3
    <3>5. m - e + i \in Nat
      BY <2>1, <2>2, <3>1
    <3>6. Run(p, n)[1] = p + 1 - 1 /\ Run(m - e + i, n)[1] = (m - e + i) + 1 - 1
      <4>1. 1 \in 1..n /\ p \in Nat /\ n \in Nat
        BY <3>1, <3>2
      <4>2. Run(p, n)[1] = p + 1 - 1
        BY <4>1, RunIs
      <4>3. \A y \in Nat : Run(y, n)[1] = y + 1 - 1
        BY <4>1, RunIs
      <4> QED BY <3>5, <4>2, <4>3
    <3>7. p = m - e + i
      <4>1. Run(p, n) = Run(m - e + i, n)
        BY <3>2, <3>3, <3>4
      <4>2. p + 1 - 1 = (m - e + i) + 1 - 1
        BY <3>6, <4>1
      <4> QED BY <3>5, <4>2
    <3> QED BY <2>1, <3>1, <3>2, <3>7 DEF n
  <2>5. CASE Places(s, t) = {} /\ r = [out |-> s.out \o t, expected |-> <<>>, engaged |-> s.engaged]
    <3>1. p >= m
      <4>1. SUFFICES ASSUME p < m PROVE FALSE
        BY <2>1
      <4> DEFINE i == p - (m - e)
                 n == Lesser(e - i + 1, k)
      <4>2. i \in 1..e /\ p = m - e + i /\ e - i + 1 = m - p + 1
        BY <2>1, <2>2, <4>1, SMTT(60)
      <4>3. n \in Nat /\ n >= FreshMatch /\ n >= 1 /\ n <= k /\ n <= e - i + 1
        BY <1>k, <2>1, <4>1, <4>2 DEF Lesser
      <4>4. s.engaged => i = 1
        <5>1. s.expected # <<>>
          BY <2>1, <4>2, EmptySeq DEF e
        <5> QED BY <2>1, <2>2, <4>2, <5>1
      <4> HIDE DEF n
      <4>5. SubSeq(t, 1, n) = Run(p, n)
        <5>1. SubSeq(t, 1, n) = Run(p + 1 - 1, n - 1 + 1)
          <6>1. 1 \in Nat \ {0} /\ 1 <= n + 1
            BY <4>3
          <6> QED BY <1>t, <4>3, <6>1
        <5>2. p + 1 - 1 = p /\ n - 1 + 1 = n
          BY <4>3
        <5> QED BY <5>1, <5>2
      <4>6. SubSeq(s.expected, i, i + n - 1) = Run(p, n)
        <5>1. i \in Nat \ {0} /\ i + n - 1 \in Nat /\ i + n - 1 <= e /\ i <= i + n - 1 + 1
          BY <2>1, <4>2, <4>3
        <5> HIDE DEF i
        <5>2. SubSeq(s.expected, i, i + n - 1) = Run(m - e + i, (i + n - 1) - i + 1)
          BY <2>x, <5>1
        <5>3. (i + n - 1) - i + 1 = n
          BY <4>3, <5>1
        <5> QED BY <4>2, <5>2, <5>3
      <4>7. n = Lesser(Len(s.expected) - i + 1, Len(t))
        BY <1>t DEF n, e
      <4> HIDE DEF i
      <4>8. Aligned(s, t, i) = n
        <5> HIDE DEF n
        <5>1. n >= (IF s.engaged THEN 1 ELSE FreshMatch) /\ SubSeq(t, 1, n) = SubSeq(s.expected, i, i + n - 1)
          BY <4>3, <4>5, <4>6
        <5>2. Aligned(s, t, i)
                = IF n >= (IF s.engaged THEN 1 ELSE FreshMatch) /\ SubSeq(t, 1, n) = SubSeq(s.expected, i, i + n - 1)
                  THEN n ELSE 0
          BY <4>7 DEF Aligned
        <5> QED BY <5>1, <5>2
      <4>9. i \in Places(s, t)
        BY <2>1, <4>2, <4>3, <4>4, <4>8 DEF Places
      <4> QED BY <2>5, <4>9
    <3> DEFINE u == s.out \o t
    <3>2. /\ u \in Seq(Nat) /\ Len(u) = m + k /\ InOrder(u)
          /\ Exact(u) => k = 0 \/ p = m + 1
      BY <1>2, <2>1, <3>1, AddedToExact DEF m, t
    <3> HIDE DEF u
    <3>3. r.out = u /\ r.expected = <<>> /\ r = [out |-> r.out, expected |-> r.expected, engaged |-> r.engaged]
          /\ r.engaged = s.engaged
      BY <2>5 DEF u
    <3>4. <<>> \in Seq(Nat) /\ Len(<<>>) = 0
      BY EmptySeq
    <3>5. IsSeam(r)
      BY <2>1, <3>2, <3>3, <3>4 DEF IsSeam
    <3>6. ASSUME Exact(u) PROVE p + k = Len(u) + 1 /\ Len(u) <= w
      BY <1>k, <2>1, <3>2, <3>6
    <3>7. Reaches(r, w)
      BY <3>3, <3>6 DEF Reaches
    <3>8. ASSUME Exact(u) PROVE <<>> = Run(Len(u) + 1, 0) /\ Len(u) \in Nat
      BY <2>1, <3>2, NoRun
    <3>9. Fits(r, p + k)
      <4>1. SUFFICES ASSUME Exact(u)
                     PROVE  /\ Len(r.expected) <= Len(u)
                            /\ r.expected = Run(Len(u) - Len(r.expected) + 1, Len(r.expected))
                            /\ p + k > Len(u) - Len(r.expected)
                            /\ r.engaged /\ r.expected # <<>> => p + k = Len(u) - Len(r.expected) + 1
        BY <3>3 DEF Fits
      <4>2. Len(u) - 0 + 1 = Len(u) + 1
        BY <3>8, <4>1
      <4> QED BY <3>3, <3>4, <3>6, <3>8, <4>1, <4>2
    <3> QED BY <3>5, <3>7, <3>9 DEF t, r
  <2>6. ASSUME NEW i \in Places(s, t),
               r = [out |-> s.out \o SubSeq(t, Aligned(s, t, i) + 1, Len(t)),
                  expected |-> SubSeq(s.expected, i + Aligned(s, t, i), Len(s.expected)), engaged |-> TRUE]
        PROVE  IsSeam(r) /\ Fits(r, p + k) /\ Reaches(r, w)
    <3> DEFINE n == Aligned(s, t, i)
    <3>1. i \in 1..e /\ p = m - e + i /\ n \in Nat /\ n > 0 /\ n = Lesser(e - i + 1, k)
      BY <2>4
    <3> HIDE DEF n
    <3>2. n <= k /\ n <= e - i + 1 /\ (n = k \/ n = e - i + 1)
      BY <1>k, <2>1, <3>1 DEF Lesser
    <3> DEFINE u == s.out \o SubSeq(t, n + 1, k)
               x == SubSeq(s.expected, i + n, e)
    <3>3. SubSeq(t, n + 1, k) = Run(p + n, k - n)
      <4>1. SubSeq(t, n + 1, k) = Run(p + (n + 1) - 1, k - (n + 1) + 1)
        <5>1. n + 1 \in Nat \ {0} /\ k <= k /\ n + 1 <= k + 1
          BY <3>1, <3>2
        <5> QED BY <1>t, <5>1
      <4>2. p + (n + 1) - 1 = p + n /\ k - (n + 1) + 1 = k - n
        BY <3>1
      <4> QED BY <4>1, <4>2
    <3>4. x = Run(p + n, e - (i + n) + 1)
      <4>1. i + n \in Nat \ {0} /\ e \in Nat /\ e <= e /\ i + n <= e + 1
        BY <2>1, <3>1, <3>2, SMTT(60)
      <4>2. x = Run(m - e + (i + n), e - (i + n) + 1)
        BY <2>x, <4>1, Zenon
      <4>3. m - e + (i + n) = p + n
        BY <2>1, <3>1
      <4> QED BY <4>2, <4>3
    <3>5. u = s.out \o Run(p + n, k - n)
      BY <3>3
    <3>6. k - n \in Nat /\ e - (i + n) + 1 \in Nat /\ p + n \in Nat \ {0}
      BY <2>1, <3>1, <3>2, SMTT(60)
    <3>7. x \in Seq(Nat) /\ Len(x) = e - (i + n) + 1
      <4> DEFINE y == p + n
                 z == e - (i + n) + 1
      <4>1. y \in Nat /\ z \in Nat /\ x = Run(y, z)
        BY <3>4, <3>6
      <4> HIDE DEF y, z, x
      <4>2. x \in Seq(Nat) /\ Len(x) = z
        BY <4>1, RunIs
      <4> QED BY <4>2 DEF z
    <3>8. r.out = u /\ r.expected = x /\ r.engaged = TRUE /\ r = [out |-> r.out, expected |-> r.expected, engaged |-> r.engaged]
      BY <1>t, <2>6 DEF n, e
    <3> HIDE DEF u, x
    \* Either the text ends in what is expected, or it goes on from the end of the transcript.
    <3>9. CASE n = k
      <4>1. k - n = 0
        BY <3>9, <3>1
      <4>2. u = s.out
        <5>1. Run(p + n, 0) = <<>>
          BY <3>6, NoRun
        <5> QED BY <2>1, <3>5, <4>1, <5>1, ConcatEmptySeq
      <4>3. IsSeam(r)
        BY <2>1, <3>7, <3>8, <4>2 DEF IsSeam
      <4>4. Reaches(r, w)
        BY <2>2, <3>8, <4>2 DEF Reaches, m
      <4>5. Fits(r, p + k)
        <5>1. Len(x) <= m /\ m - Len(x) + 1 = p + k
          <6>1. i \in Nat /\ i >= 1
            BY <2>1, <3>1
          <6>2. m \in Nat /\ e \in Nat /\ e <= m /\ p = m - e + i /\ Len(x) = e - (i + k) + 1 /\ i + k <= e + 1
            BY <2>1, <2>2, <3>1, <3>2, <3>7, <3>9
          <6> QED BY <6>1, <6>2
        <5>2. x = Run(m - Len(x) + 1, Len(x))
          BY <3>4, <3>7, <3>9, <5>1
        <5>3. p + k > m - Len(x)
          BY <2>1, <3>6, <3>7, <5>1
        <5> QED BY <3>8, <4>2, <5>1, <5>2, <5>3 DEF Fits, m
      <4> QED BY <4>3, <4>4, <4>5
    <3>10. CASE n # k
      <4>1. n = e - i + 1 /\ p + n = m + 1
        BY <2>1, <3>1, <3>2, <3>10
      <4>2. u \in Seq(Nat) /\ Len(u) = m + (k - n) /\ InOrder(u)
        <5>1. p + n >= m
          BY <2>1, <4>1
        <5> QED BY <1>2, <2>1, <3>5, <3>6, <5>1, AddedToExact, ZenonT(60) DEF m
      <4>3. IsSeam(r)
        BY <2>1, <3>7, <3>8, <4>2 DEF IsSeam
      <4>4. Len(u) <= w /\ p + k = Len(u) + 1 /\ Len(u) \in Nat
        BY <1>k, <2>1, <3>1, <4>1, <4>2
      <4>5. Reaches(r, w)
        BY <3>8, <4>4 DEF Reaches
      <4>6. Len(x) = 0 /\ x = <<>>
        <5>1. Len(x) = 0
          BY <2>1, <3>1, <3>7, <4>1, SMTT(60)
        <5> QED BY <3>7, <5>1, EmptySeq
      <4>7. x = Run(Len(u) + 1, 0)
        BY <4>4, <4>6, NoRun
      <4>8. Fits(r, p + k)
        <5>1. Len(x) <= Len(u) /\ Len(u) - Len(x) + 1 = Len(u) + 1 /\ p + k > Len(u) - Len(x)
          BY <4>4, <4>6
        <5> QED BY <3>8, <4>6, <4>7, <5>1 DEF Fits
      <4> QED BY <4>3, <4>5, <4>8
    <3> QED BY <3>9, <3>10
  <2>7. \/ Places(s, t) = {} /\ r = [out |-> s.out \o t, expected |-> <<>>, engaged |-> s.engaged]
        \/ \E i \in Places(s, t) :
              r = [out |-> s.out \o SubSeq(t, Aligned(s, t, i) + 1, Len(t)),
                   expected |-> SubSeq(s.expected, i + Aligned(s, t, i), Len(s.expected)), engaged |-> TRUE]
    BY <1>t, <1>r, FilterIs
  <2> QED BY <2>5, <2>6, <2>7 DEF t, r
<1> QED BY <1>1, <1>2

\* A leg's words held back, the texts it was sent and the words that are left.
KeptFinal(e, p, q, w) ==
  \E k \in Nat : k >= ShortestText /\ e = <<"final", Run(p, k)>> /\ q = p + k /\ p + k <= w + 1
KeptPartial(e, p, q, w) ==
  \E k \in Nat : k >= ShortestText /\ e = <<"partial", Run(p, k)>> /\ q = p /\ p + k <= w + 1
Kept(held, at, w) ==
  /\ held \in Seq({"final", "partial"} \X Seq(Nat)) /\ at \in [1..(Len(held) + 1) -> Nat \ {0}]
  /\ \A i \in 1..Len(held) : KeptFinal(held[i], at[i], at[i + 1], w) \/ KeptPartial(held[i], at[i], at[i + 1], w)

\* Filtering a transcript that is armed with its own end.
LEMMA BeginFits ==
  ASSUME NEW s, IsSeam(s), NEW q \in Nat \ {0}, NEW w \in Nat, Reaches(s, w), w < q + SeamWords
  PROVE  IsSeam(Begin(s)) /\ Fits(Begin(s), q) /\ Reaches(Begin(s), w)
<1> DEFINE m == Len(s.out)
           e == Lesser(SeamWords, m)
           b == Begin(s)
           x == SubSeq(s.out, m - e + 1, m)
<1>1. s.out \in Seq(Nat) /\ m \in Nat /\ DOMAIN s.out = 1..m /\ InOrder(s.out)
  BY LenProperties DEF IsSeam
<1>2. e \in Nat /\ e <= m /\ (e = m \/ e = SeamWords)
  BY <1>1, LiveNumbers DEF Lesser
<1>3. b.out = s.out /\ b.expected = x /\ b.engaged = FALSE /\ b = [out |-> b.out, expected |-> b.expected, engaged |-> b.engaged]
  <2>1. b = [s EXCEPT !.expected = x, !.engaged = FALSE]
    BY DEF Begin, TailWords
  <2>2. s = [out |-> s.out, expected |-> s.expected, engaged |-> s.engaged]
    BY DEF IsSeam
  <2> HIDE DEF b, x
  <2> QED BY <2>1, <2>2
<1> HIDE DEF b, e, m
<1>4. x \in Seq(Nat) /\ Len(x) = e
  <2>1. m - e + 1 \in Int /\ m \in Int /\ (IF m - e + 1 <= m THEN m - (m - e + 1) + 1 ELSE 0) = e
    BY <1>1, <1>2
  <2>2. \A i \in (m - e + 1)..m : s.out[i] \in Nat
    <3>1. \A i \in (m - e + 1)..m : i \in 1..m
      BY <1>1, <1>2
    <3> QED BY <1>1, <3>1, ElementOfSeq DEF m
  <2>3. x \in Seq(Nat) /\ Len(x) = IF m - e + 1 <= m THEN m - (m - e + 1) + 1 ELSE 0
    BY <2>1, <2>2, SubSeqProperties
  <2> QED BY <2>1, <2>3
<1> HIDE DEF x
<1>5. IsSeam(b)
  BY <1>1, <1>3, <1>4 DEF IsSeam
<1>6. Reaches(b, w)
  BY <1>3 DEF Reaches
<1>7. ASSUME Exact(s.out)
      PROVE  x = Run(m - e + 1, e) /\ q > m - e
  <2>1. s.out = Run(1, m)
    <3>1. \A i \in 1..m : s.out[i] = 1 + i - 1
      BY <1>1, <1>7 DEF Exact
    <3>2. 1 \in Nat /\ Len(s.out) = m
      BY DEF m
    <3> QED BY <1>1, <3>1, <3>2, RunKnown
  <2>2. SubSeq(Run(1, m), m - e + 1, m) = Run(1 + (m - e + 1) - 1, m - (m - e + 1) + 1)
    <3>1. 1 \in Nat /\ m - e + 1 \in Nat \ {0} /\ m <= m /\ m - e + 1 <= m + 1
      BY <1>1, <1>2
    <3>2. \A a \in Nat \ {0}, c \in Nat : c <= m /\ a <= c + 1 => SubSeq(Run(1, m), a, c) = Run(1 + a - 1, c - a + 1)
      BY <1>1, <3>1, PartsOfRun, Zenon
    <3> QED BY <1>1, <3>1, <3>2
  <2>3. 1 + (m - e + 1) - 1 = m - e + 1 /\ m - (m - e + 1) + 1 = e
    BY <1>1, <1>2
  <2>4. q > m - e
    <3>1. m <= w
      BY <1>7 DEF Reaches, m
    <3> QED BY <1>1, <1>2, <3>1, LiveNumbers
  <2> QED BY <2>1, <2>2, <2>3, <2>4 DEF x
<1>8. Fits(b, q)
  BY <1>2, <1>3, <1>4, <1>7 DEF Fits, m
<1> QED BY <1>5, <1>6, <1>8 DEF b

LEMMA Upwards ==
  ASSUME NEW S, 0 \in S, \A n \in Nat : n \in S => n + 1 \in S
  PROVE  \A n \in Nat : n \in S
<1>1. SUFFICES ASSUME Nat \ S # {} PROVE FALSE
  OBVIOUS
<1>2. PICK x \in Nat \ S : \A y \in Nat \ S : x <= y
  BY <1>1, LeastNumber
<1>3. x # 0 /\ x - 1 \in Nat
  BY <1>2
<1>4. x - 1 \in S
  BY <1>2, <1>3
<1> QED BY <1>2, <1>3, <1>4

\* Release delivers one text after the other.
LEMMA ReleaseIs ==
  ASSUME NEW s, NEW held, Len(held) \in Nat
  PROVE  \E f : /\ f[0] = [seam |-> s, pending |-> <<>>]
                /\ \A n \in 1..Len(held) : f[n] = Delivered(f[n - 1], held[n])
                /\ Release(s, held) = f[Len(held)]
<1> DEFINE N == Len(held)
           Goes(f, n) == f[n] = IF n = 0 THEN [seam |-> s, pending |-> <<>>] ELSE Delivered(f[n - 1], held[n])
           S == {k \in Nat : \E f : DOMAIN f = 0..N /\ f = [n \in 0..N |-> f[n]] /\ \A n \in 0..N : n <= k => Goes(f, n)}
<1>1. 0 \in S
  <2> DEFINE f == [n \in 0..N |-> [seam |-> s, pending |-> <<>>]]
  <2>1. f = [n \in 0..N |-> f[n]] /\ DOMAIN f = 0..N
    OBVIOUS
  <2>2. \A n \in 0..N : n <= 0 => Goes(f, n)
    OBVIOUS
  <2> HIDE DEF f, Goes
  <2> QED BY <2>1, <2>2
<1>2. ASSUME NEW k \in Nat, k \in S  PROVE k + 1 \in S
  <2>1. PICK f : DOMAIN f = 0..N /\ f = [n \in 0..N |-> f[n]] /\ \A n \in 0..N : n <= k => Goes(f, n)
    BY <1>2
  <2> DEFINE g == [n \in 0..N |-> IF n = k + 1 THEN Delivered(f[n - 1], held[n]) ELSE f[n]]
  <2>2. g = [n \in 0..N |-> g[n]] /\ DOMAIN g = 0..N
    OBVIOUS
  <2>3. ASSUME NEW n \in 0..N, n <= k + 1  PROVE Goes(g, n)
    <3>1. CASE n = k + 1
      <4>1. n - 1 \in 0..N /\ n - 1 # k + 1 /\ n # 0
        BY <3>1
      <4>2. g[n - 1] = f[n - 1] /\ g[n] = Delivered(f[n - 1], held[n])
        BY <3>1, <4>1
      <4> HIDE DEF g
      <4> QED BY <4>1, <4>2
    <3>2. CASE n # k + 1
      <4>0. n <= k
        BY <2>3, <3>2
      <4>1. n <= k /\ g[n] = f[n] /\ Goes(f, n)
        <5>1. g[n] = f[n]
          BY <3>2
        <5> HIDE DEF Goes, g
        <5> QED BY <2>1, <4>0, <5>1
      <4>2. n # 0 => n - 1 \in 0..N /\ n - 1 # k + 1
        BY <4>1
      <4>3. n # 0 => g[n - 1] = f[n - 1]
        BY <4>2
      <4> HIDE DEF g
      <4> QED BY <4>1, <4>3
    <3> QED BY <3>1, <3>2
  <2> HIDE DEF g, Goes
  <2> QED BY <2>2, <2>3
<1>3. N \in S
  <2> HIDE DEF S
  <2>1. \A n \in Nat : n \in S => n + 1 \in S
    BY <1>2
  <2> QED BY <1>1, <2>1, Upwards
<1>4. PICK f : DOMAIN f = 0..N /\ f = [n \in 0..N |-> f[n]] /\ \A n \in 0..N : n <= N => Goes(f, n)
  BY <1>3
<1> DEFINE Is(h) == h = [n \in 0..N |-> IF n = 0 THEN [seam |-> s, pending |-> <<>>] ELSE Delivered(h[n - 1], held[n])]
<1>5. Is(f)
  <2>1. \A n \in 0..N : f[n] = IF n = 0 THEN [seam |-> s, pending |-> <<>>] ELSE Delivered(f[n - 1], held[n])
    <3>1. ASSUME NEW n \in 0..N PROVE Goes(f, n)
      <4>1. n <= N
        OBVIOUS
      <4> HIDE DEF Goes, N
      <4> QED BY <1>4, <4>1
    <3> QED BY <3>1
  <2> QED BY <1>4, <2>1
<1> DEFINE u == CHOOSE h : Is(h)
<1>6. Is(u)
  <2> HIDE DEF Is
  <2> QED BY <1>5
<1>7. Release(s, held) = u[N]
  BY DEF Release
<1> HIDE DEF u
<1>8. \A n \in 0..N : u[n] = IF n = 0 THEN [seam |-> s, pending |-> <<>>] ELSE Delivered(u[n - 1], held[n])
  BY <1>6
<1>9. u[0] = [seam |-> s, pending |-> <<>>] /\ \A n \in 1..N : u[n] = Delivered(u[n - 1], held[n])
  BY <1>8
<1> QED BY <1>7, <1>9

LEMMA DeliveredFits ==
  ASSUME livePhase # "disposed", NEW to, to = [seam |-> to.seam, pending |-> to.pending],
         NEW e, NEW p \in Nat \ {0}, NEW q \in Nat \ {0}, NEW w \in Nat,
         IsSeam(to.seam), Fits(to.seam, p), Reaches(to.seam, w),
         KeptFinal(e, p, q, w) \/ KeptPartial(e, p, q, w)
  PROVE  LET r == Delivered(to, e) IN
         /\ r = [seam |-> r.seam, pending |-> r.pending]
         /\ IsSeam(r.seam) /\ Fits(r.seam, q) /\ Reaches(r.seam, w)
         /\ r.pending = <<>> \/ (e[1] = "partial" /\ r.pending = e[2])
<1> DEFINE r == Delivered(to, e)
<1>1. CASE KeptFinal(e, p, q, w)
  <2>1. PICK k \in Nat : k >= ShortestText /\ e = <<"final", Run(p, k)>> /\ q = p + k /\ p + k <= w + 1
    BY <1>1 DEF KeptFinal
  <2>2. r = [seam |-> FilterFinal(to.seam, Run(p, k)), pending |-> <<>>]
    BY <2>1 DEF Delivered
  <2>3. IsSeam(FilterFinal(to.seam, Run(p, k))) /\ Fits(FilterFinal(to.seam, Run(p, k)), q) /\ Reaches(FilterFinal(to.seam, Run(p, k)), w)
    BY <2>1, FilterFits
  <2> HIDE DEF r
  <2>4. r.seam = FilterFinal(to.seam, Run(p, k)) /\ r.pending = <<>> /\ r = [seam |-> r.seam, pending |-> r.pending]
    BY <2>2
  <2> QED BY <2>3, <2>4 DEF r
<1>2. CASE KeptPartial(e, p, q, w)
  <2>1. PICK k \in Nat : k >= ShortestText /\ e = <<"partial", Run(p, k)>> /\ q = p /\ p + k <= w + 1
    BY <1>2 DEF KeptPartial
  <2>2. r = [to EXCEPT !.pending = e[2]] /\ e[1] = "partial"
    BY <2>1 DEF Delivered
  <2> HIDE DEF r
  <2>3. r = [seam |-> to.seam, pending |-> e[2]]
    BY <2>2
  <2> QED BY <2>1, <2>2, <2>3 DEF r
<1> QED BY <1>1, <1>2

LEMMA Released ==
  ASSUME livePhase # "disposed", NEW s, NEW w \in Nat, NEW held, NEW at, Kept(held, at, w),
         IsSeam(s), Fits(s, at[1]), Reaches(s, w)
  PROVE  LET r == Release(s, held) IN
         /\ IsSeam(r.seam) /\ Fits(r.seam, at[Len(held) + 1]) /\ Reaches(r.seam, w)
         /\ \/ r.pending = <<>>
            \/ held # <<>> /\ held[Len(held)][1] = "partial" /\ r.pending = held[Len(held)][2]
<1> DEFINE N == Len(held)
           T == {"final", "partial"} \X Seq(Nat)
<1>1. /\ held \in Seq(T) /\ N \in Nat /\ at \in [1..(N + 1) -> Nat \ {0}]
      /\ \A i \in 1..N : KeptFinal(held[i], at[i], at[i + 1], w) \/ KeptPartial(held[i], at[i], at[i + 1], w)
  <2> HIDE DEF T
  <2>1. held \in Seq(T)
    BY DEF Kept, T
  <2> QED BY <2>1, LenProperties DEF Kept
<1>2. PICK f : /\ f[0] = [seam |-> s, pending |-> <<>>]
               /\ \A n \in 1..N : f[n] = Delivered(f[n - 1], held[n])
               /\ Release(s, held) = f[N]
  BY <1>1, ReleaseIs
<1>3. N > 0 => held # <<>>
  BY <1>1, EmptySeq
<1> HIDE DEF N, T
<1> DEFINE Good(n) ==
             /\ f[n] = [seam |-> f[n].seam, pending |-> f[n].pending]
             /\ IsSeam(f[n].seam) /\ Fits(f[n].seam, at[n + 1]) /\ Reaches(f[n].seam, w)
             /\ f[n].pending = <<>> \/ (n > 0 /\ held[n][1] = "partial" /\ f[n].pending = held[n][2])
           S == {n \in Nat : n \in 0..N => Good(n)}
<1>4. Good(0)
  <2>1. f[0].seam = s /\ f[0].pending = <<>> /\ f[0] = [seam |-> f[0].seam, pending |-> f[0].pending]
    BY <1>2
  <2>2. 0 + 1 = 1
    OBVIOUS
  <2> QED BY <2>1, <2>2
<1>5. ASSUME NEW n \in Nat, n + 1 \in 0..N, Good(n)  PROVE Good(n + 1)
  <2> DEFINE m == n + 1
  <2>1. m \in 1..N /\ m - 1 = n /\ m > 0 /\ m \in 1..(N + 1) /\ m + 1 \in 1..(N + 1)
    BY <1>1, <1>5
  <2> HIDE DEF m
  <2>2. f[m] = Delivered(f[n], held[m])
    BY <1>2, <2>1
  <2>3. at[m] \in Nat \ {0} /\ at[m + 1] \in Nat \ {0}
    BY <1>1, <2>1
  <2>4. KeptFinal(held[m], at[m], at[m + 1], w) \/ KeptPartial(held[m], at[m], at[m + 1], w)
    BY <1>1, <2>1
  <2>5. /\ f[n] = [seam |-> f[n].seam, pending |-> f[n].pending]
        /\ IsSeam(f[n].seam) /\ Fits(f[n].seam, at[m]) /\ Reaches(f[n].seam, w)
    BY <1>5 DEF m
  <2> HIDE DEF Good
  <2>6. /\ f[m] = [seam |-> f[m].seam, pending |-> f[m].pending]
        /\ IsSeam(f[m].seam) /\ Fits(f[m].seam, at[m + 1]) /\ Reaches(f[m].seam, w)
        /\ f[m].pending = <<>> \/ (held[m][1] = "partial" /\ f[m].pending = held[m][2])
    BY <2>2, <2>3, <2>4, <2>5, DeliveredFits
  <2>7. Good(m)
    <3>1. f[m].pending = <<>> \/ (m > 0 /\ held[m][1] = "partial" /\ f[m].pending = held[m][2])
      BY <2>1, <2>6
    <3> QED BY <2>6, <3>1 DEF Good
  <2> QED BY <2>7 DEF m
<1>6. N \in S
  <2>1. 0 \in S
    BY <1>4
  <2>2. ASSUME NEW n \in Nat, n \in S  PROVE n + 1 \in S
    <3> HIDE DEF Good
    <3>1. n + 1 \in 0..N => n \in 0..N
      BY <1>1
    <3> QED BY <1>5, <2>2, <3>1
  <2> HIDE DEF S
  <2> QED BY <1>1, <2>1, <2>2, Upwards
<1>7. Good(N)
  BY <1>1, <1>6
<1> HIDE DEF Good
<1>8. /\ IsSeam(f[N].seam) /\ Fits(f[N].seam, at[N + 1]) /\ Reaches(f[N].seam, w)
      /\ f[N].pending = <<>> \/ (N > 0 /\ held[N][1] = "partial" /\ f[N].pending = held[N][2])
  BY <1>7 DEF Good
<1> QED BY <1>2, <1>3, <1>8 DEF N

\* A leg that is listened to: what it has not said yet is a run of words that ends with word w
\* if c, and the filter fits it.
Speaks(g, s, c, w) ==
  \E p \in Nat \ {0}, n \in Nat :
    /\ g.heard = Run(p, n) /\ p + n <= w + 1 /\ (c => p + n = w + 1)
    /\ g.pending = <<>> \/ \E k \in Nat : ShortestText <= k /\ k <= n /\ g.pending = Run(p, k)
    /\ Fits(s, p)

\* A leg that is held back: it began with word q.
HoldsBack(g, q, w) ==
  \E at \in [1..(Len(g.held) + 1) -> Nat \ {0}], n \in Nat :
    LET p == at[Len(g.held) + 1] IN
    /\ at[1] = q /\ Kept(g.held, at, w)
    /\ g.held # <<>> /\ g.held[Len(g.held)][1] = "partial" => Len(g.held[Len(g.held)][2]) <= n
    /\ g.heard = Run(p, n) /\ p + n <= w + 1 /\ (g.st = "open" => p + n = w + 1)
    /\ g.pending = <<>>

LEMMA InterimSpeaks ==
  ASSUME NEW g, IsLeg(g), NEW s, NEW c, NEW w \in Nat, Speaks(g, s, c, w), Len(g.heard) >= ShortestText
  PROVE  Speaks([g EXCEPT !.pending = g.heard], s, c, w)
<1> DEFINE h == [g EXCEPT !.pending = g.heard]
<1>1. PICK p \in Nat \ {0}, n \in Nat :
        /\ g.heard = Run(p, n) /\ p + n <= w + 1 /\ (c => p + n = w + 1)
        /\ Fits(s, p)
  BY DEF Speaks
<1>2. h.heard = g.heard /\ h.pending = g.heard
  BY DEF IsLeg
<1>3. Len(g.heard) = n
  BY <1>1, RunIs
<1>4. ShortestText <= n /\ n <= n
  BY <1>3, LiveNumbers
<1> HIDE DEF h
<1>5. h.pending = Run(p, n)
  BY <1>1, <1>2
<1> QED BY <1>1, <1>2, <1>4, <1>5 DEF Speaks, h

LEMMA FinalSpeaks ==
  ASSUME NEW g, IsLeg(g), NEW s, NEW c, NEW w \in Nat, Speaks(g, s, c, w), IsSeam(s), Reaches(s, w),
         NEW m \in ShortestText..Len(g.heard)
  PROVE  LET r == FilterFinal(s, SubSeq(g.heard, 1, m)) IN
         /\ IsSeam(r) /\ Reaches(r, w)
         /\ Speaks([g EXCEPT !.heard = SubSeq(g.heard, m + 1, Len(g.heard)), !.pending = <<>>], r, c, w)
<1>1. PICK p \in Nat \ {0}, n \in Nat :
        /\ g.heard = Run(p, n) /\ p + n <= w + 1 /\ (c => p + n = w + 1)
        /\ Fits(s, p)
  BY DEF Speaks
<1>2. Len(g.heard) = n
  BY <1>1, RunIs
<1>3. m \in Nat /\ m <= n /\ m >= ShortestText
  BY <1>2, LiveNumbers
<1>4. \A a \in Nat \ {0}, b \in Nat : b <= n /\ a <= b + 1 => SubSeq(g.heard, a, b) = Run(p + a - 1, b - a + 1)
  <2>1. p \in Nat
    OBVIOUS
  <2>2. \A a \in Nat \ {0}, b \in Nat : b <= n /\ a <= b + 1 => SubSeq(Run(p, n), a, b) = Run(p + a - 1, b - a + 1)
    BY <2>1, PartsOfRun, Zenon
  <2> QED BY <1>1, <2>2
<1>5. SubSeq(g.heard, 1, m) = Run(p, m)
  <2>1. 1 \in Nat \ {0} /\ 1 <= m + 1 /\ p + 1 - 1 = p /\ m - 1 + 1 = m
    BY <1>3
  <2>2. SubSeq(g.heard, 1, m) = Run(p + 1 - 1, m - 1 + 1)
    BY <1>3, <1>4, <2>1
  <2> QED BY <2>1, <2>2
<1>6. SubSeq(g.heard, m + 1, Len(g.heard)) = Run(p + m, n - m)
  <2>1. m + 1 \in Nat \ {0} /\ n <= n /\ m + 1 <= n + 1 /\ p + (m + 1) - 1 = p + m /\ n - (m + 1) + 1 = n - m
    BY <1>3
  <2>2. SubSeq(g.heard, m + 1, n) = Run(p + (m + 1) - 1, n - (m + 1) + 1)
    BY <1>4, <2>1
  <2> QED BY <1>2, <2>1, <2>2
<1> DEFINE r == FilterFinal(s, SubSeq(g.heard, 1, m))
           h == [g EXCEPT !.heard = SubSeq(g.heard, m + 1, Len(g.heard)), !.pending = <<>>]
<1>7. IsSeam(r) /\ Fits(r, p + m) /\ Reaches(r, w)
  <2>1. p + m <= w + 1
    BY <1>1, <1>3
  <2>2. LET x == FilterFinal(s, Run(p, m)) IN IsSeam(x) /\ Fits(x, p + m) /\ Reaches(x, w)
    BY <1>1, <1>3, <2>1, FilterFits
  <2> QED BY <1>5, <2>2
<1>8. h.heard = Run(p + m, n - m) /\ h.pending = <<>>
  BY <1>6 DEF IsLeg
<1>9. p + m \in Nat \ {0} /\ n - m \in Nat /\ (p + m) + (n - m) = p + n
  BY <1>3
<1> HIDE DEF h, r
<1>10. Speaks(h, r, c, w)
  BY <1>1, <1>7, <1>8, <1>9 DEF Speaks
<1> QED BY <1>7, <1>10 DEF h, r

LEMMA HearsNext ==
  ASSUME NEW g, IsLeg(g), NEW s, NEW w \in Nat, Speaks(g, s, TRUE, w)
  PROVE  Speaks([g EXCEPT !.heard = Append(g.heard, w + 1)], s, TRUE, w + 1)
<1> DEFINE h == [g EXCEPT !.heard = Append(g.heard, w + 1)]
<1>1. PICK p \in Nat \ {0}, n \in Nat :
        /\ g.heard = Run(p, n) /\ p + n = w + 1
        /\ g.pending = <<>> \/ \E k \in Nat : ShortestText <= k /\ k <= n /\ g.pending = Run(p, k)
        /\ Fits(s, p)
  BY DEF Speaks
<1>2. h.heard = Append(Run(p, n), p + n) /\ h.pending = g.pending
  BY <1>1 DEF IsLeg
<1>3. h.heard = Run(p, n + 1)
  BY <1>2, RunGrows
<1>4. n + 1 \in Nat /\ p + (n + 1) = (w + 1) + 1 /\ w + 1 \in Nat
  BY <1>1
<1>5. h.pending = <<>> \/ \E k \in Nat : ShortestText <= k /\ k <= n + 1 /\ h.pending = Run(p, k)
  BY <1>1, <1>2
<1> HIDE DEF h
<1>6. p + (n + 1) <= (w + 1) + 1
  BY <1>4
<1>7. \E nn \in Nat : /\ h.heard = Run(p, nn) /\ p + nn <= (w + 1) + 1 /\ p + nn = (w + 1) + 1
                      /\ h.pending = <<>> \/ \E k \in Nat : ShortestText <= k /\ k <= nn /\ h.pending = Run(p, k)
  BY <1>3, <1>4, <1>5, <1>6
<1> QED BY <1>1, <1>7 DEF Speaks, h

LEMMA MissesNext ==
  ASSUME NEW g, NEW h, h.heard = g.heard, h.pending = g.pending, NEW s, NEW c, NEW w \in Nat, NEW v \in Nat, w <= v, Speaks(g, s, c, w)
  PROVE  Speaks(h, s, FALSE, v)
<1>1. PICK p \in Nat \ {0}, n \in Nat :
        /\ g.heard = Run(p, n) /\ p + n <= w + 1
        /\ g.pending = <<>> \/ \E k \in Nat : ShortestText <= k /\ k <= n /\ g.pending = Run(p, k)
        /\ Fits(s, p)
  BY DEF Speaks
<1>2. p + n <= v + 1
  BY <1>1
<1> QED BY <1>1, <1>2 DEF Speaks

LEMMA SettledFits ==
  ASSUME NEW g, NEW s, NEW c, NEW w \in Nat, Speaks(g, s, c, w), IsSeam(s), Reaches(s, w)
  PROVE  IsSeam(LegSettled(s, g)) /\ Reaches(LegSettled(s, g), w)
<1>1. PICK p \in Nat \ {0}, n \in Nat :
        /\ g.heard = Run(p, n) /\ p + n <= w + 1
        /\ g.pending = <<>> \/ \E k \in Nat : ShortestText <= k /\ k <= n /\ g.pending = Run(p, k)
        /\ Fits(s, p)
  BY DEF Speaks
<1>2. CASE g.pending = <<>> \/ livePhase = "disposed"
  BY <1>2 DEF LegSettled
<1>3. CASE ~(g.pending = <<>> \/ livePhase = "disposed")
  <2>1. PICK k \in Nat : ShortestText <= k /\ k <= n /\ g.pending = Run(p, k)
    BY <1>1, <1>3
  <2>2. p + k <= w + 1 /\ k >= ShortestText
    BY <1>1, <2>1, LiveNumbers
  <2>3. LET x == FilterFinal(s, Run(p, k)) IN IsSeam(x) /\ Fits(x, p + k) /\ Reaches(x, w)
    BY <1>1, <2>2, FilterFits
  <2> QED BY <1>3, <2>1, <2>3 DEF LegSettled
<1> QED BY <1>2, <1>3

Events == {"final", "partial"} \X Seq(Nat)

\* One more text is held back.
LEMMA KeptGrows ==
  ASSUME NEW held, NEW at, NEW w \in Nat, Kept(held, at, w), NEW e \in Events, NEW p \in Nat \ {0},
         KeptFinal(e, at[Len(held) + 1], p, w) \/ KeptPartial(e, at[Len(held) + 1], p, w)
  PROVE  \E bt \in [1..(Len(Append(held, e)) + 1) -> Nat \ {0}] :
           Kept(Append(held, e), bt, w) /\ bt[1] = at[1] /\ bt[Len(Append(held, e)) + 1] = p
<1> DEFINE N == Len(held)
           h == Append(held, e)
           bt == [i \in 1..(N + 2) |-> IF i = N + 2 THEN p ELSE at[i]]
<1>1. /\ held \in Seq(Events) /\ at \in [1..(N + 1) -> Nat \ {0}]
      /\ \A i \in 1..N : KeptFinal(held[i], at[i], at[i + 1], w) \/ KeptPartial(held[i], at[i], at[i + 1], w)
  BY DEF Kept, Events
<1>2. N \in Nat
  BY <1>1, LenProperties
<1>3. h \in Seq(Events) /\ Len(h) = N + 1 /\ h[N + 1] = e /\ \A i \in 1..N : h[i] = held[i]
  <2> HIDE DEF Events
  <2> QED BY <1>1
<1>4. bt \in [1..(Len(h) + 1) -> Nat \ {0}] /\ bt[N + 2] = p /\ \A i \in 1..(N + 1) : bt[i] = at[i]
  <2>1. \A i \in 1..(N + 2) : i # N + 2 => i \in 1..(N + 1)
    BY <1>2
  <2>2. \A i \in 1..(N + 2) : bt[i] \in Nat \ {0}
    BY <1>1, <2>1
  <2>3. N + 2 \in 1..(N + 2) /\ Len(h) + 1 = N + 2 /\ \A i \in 1..(N + 1) : i \in 1..(N + 2) /\ i # N + 2
    BY <1>2, <1>3
  <2> HIDE DEF h
  <2> QED BY <2>2, <2>3
<1> HIDE DEF h, bt, N
<1>5. ASSUME NEW i \in 1..Len(h)
      PROVE  KeptFinal(h[i], bt[i], bt[i + 1], w) \/ KeptPartial(h[i], bt[i], bt[i + 1], w)
  <2>1. CASE i = N + 1
    <3>1. h[i] = e /\ bt[i] = at[N + 1] /\ bt[i + 1] = p
      BY <1>2, <1>3, <1>4, <2>1
    <3> QED BY <3>1 DEF N
  <2>2. CASE i # N + 1
    <3>1. i \in 1..N /\ i \in 1..(N + 1) /\ i + 1 \in 1..(N + 1)
      BY <1>2, <1>3, <2>2
    <3>2. h[i] = held[i] /\ bt[i] = at[i] /\ bt[i + 1] = at[i + 1]
      BY <1>3, <1>4, <3>1
    <3> QED BY <1>1, <3>1, <3>2
  <2> QED BY <2>1, <2>2
<1>6. Kept(h, bt, w)
  BY <1>3, <1>4, <1>5 DEF Kept, Events
<1>7. bt[1] = at[1] /\ bt[Len(h) + 1] = p
  BY <1>2, <1>3, <1>4
<1> QED BY <1>4, <1>6, <1>7 DEF h

LEMMA KeptLonger ==
  ASSUME NEW held, NEW at, NEW w \in Nat, NEW v \in Nat, w <= v, Kept(held, at, w)
  PROVE  Kept(held, at, v)
<1>1. ASSUME NEW i \in 1..Len(held)
      PROVE  KeptFinal(held[i], at[i], at[i + 1], v) \/ KeptPartial(held[i], at[i], at[i + 1], v)
  <2>1. at[i] \in Nat
    <3>1. Len(held) \in Nat
      BY LenProperties DEF Kept
    <3>2. i \in 1..(Len(held) + 1)
      BY <3>1
    <3> QED BY <3>2 DEF Kept
  <2>2. KeptFinal(held[i], at[i], at[i + 1], w) \/ KeptPartial(held[i], at[i], at[i + 1], w)
    BY DEF Kept
  <2>3. ASSUME NEW k \in Nat, at[i] + k <= w + 1 PROVE at[i] + k <= v + 1
    BY <2>1, <2>3
  <2>4. CASE KeptFinal(held[i], at[i], at[i + 1], w)
    BY <2>3, <2>4 DEF KeptFinal
  <2>5. CASE KeptPartial(held[i], at[i], at[i + 1], w)
    BY <2>3, <2>5 DEF KeptPartial
  <2> QED BY <2>2, <2>4, <2>5
<1> QED BY <1>1 DEF Kept

\* The last of the texts held back is replaced, or one is added, by an interim.
LEMMA InterimHolds ==
  ASSUME NEW g, IsLeg(g), NEW q, NEW w \in Nat, HoldsBack(g, q, w), Len(g.heard) >= ShortestText
  PROVE  LET after == IF g.held # <<>> /\ Last(g.held)[1] = "partial" THEN Front(g.held) ELSE g.held
         IN HoldsBack([g EXCEPT !.held = Append(after, <<"partial", g.heard>>)], q, w)
<1>1. PICK at \in [1..(Len(g.held) + 1) -> Nat \ {0}], n \in Nat :
        LET p == at[Len(g.held) + 1] IN
        /\ at[1] = q /\ Kept(g.held, at, w)
        /\ g.heard = Run(p, n) /\ p + n <= w + 1 /\ (g.st = "open" => p + n = w + 1)
        /\ g.pending = <<>>
  BY DEF HoldsBack
<1> DEFINE N == Len(g.held)
           p == at[N + 1]
           e == <<"partial", g.heard>>
<1>2. g.held \in Seq(Events) /\ N \in Nat
  <2>1. g.held \in Seq(Events)
    BY <1>1 DEF Kept, Events
  <2> QED BY <2>1, LenProperties
<1>3. p \in Nat \ {0} /\ g.heard \in Seq(Nat) /\ Len(g.heard) = n
  <2>1. p \in Nat \ {0}
    <3>1. N + 1 \in 1..(N + 1)
      BY <1>2
    <3> QED BY <3>1
  <2>2. p \in Nat /\ g.heard = Run(p, n)
    BY <1>1, <2>1
  <2> HIDE DEF p
  <2> QED BY <2>1, <2>2, RunIs
<1>4. e \in Events
  BY <1>3 DEF Events
<1>5. KeptPartial(e, p, p, w)
  <2>1. n >= ShortestText /\ p + n <= w + 1 /\ g.heard = Run(p, n)
    BY <1>1, <1>3
  <2> HIDE DEF p
  <2> QED BY <2>1 DEF KeptPartial
<1> HIDE DEF e
\* What is before the place of the interim.
<1>6. ASSUME NEW held, NEW bt, Kept(held, bt, w), bt[1] = q, bt[Len(held) + 1] = p
      PROVE  HoldsBack([g EXCEPT !.held = Append(held, e)], q, w)
  <2> DEFINE x == Append(held, e)
             h == [g EXCEPT !.held = x]
  <2> HIDE DEF p
  <2>1. PICK ct \in [1..(Len(x) + 1) -> Nat \ {0}] : Kept(x, ct, w) /\ ct[1] = q /\ ct[Len(x) + 1] = p
    BY <1>3, <1>4, <1>5, <1>6, KeptGrows
  <2>2. x[Len(x)] = e
    <3>1. held \in Seq(Events)
      BY <1>6 DEF Kept, Events
    <3> HIDE DEF Events
    <3>2. Len(held) \in Nat /\ Len(x) = Len(held) + 1
      BY <1>4, <3>1
    <3> QED BY <1>4, <3>1, <3>2
  <2> HIDE DEF x
  <2>3. h.held = x /\ h.heard = g.heard /\ h.pending = g.pending /\ h.st = g.st
    BY DEF IsLeg
  <2> HIDE DEF h
  <2>4. Len(h.held[Len(h.held)][2]) <= n
    <3>1. h.held[Len(h.held)][2] = g.heard
      BY <2>2, <2>3 DEF e
    <3>2. n <= n
      OBVIOUS
    <3> QED BY <1>3, <3>1, <3>2
  <2>5. /\ h.heard = Run(ct[Len(h.held) + 1], n) /\ ct[Len(h.held) + 1] + n <= w + 1
        /\ h.st = "open" => ct[Len(h.held) + 1] + n = w + 1
        /\ h.pending = <<>>
    BY <1>1, <2>1, <2>3 DEF p
  <2>6. ct \in [1..(Len(h.held) + 1) -> Nat \ {0}] /\ ct[1] = q /\ Kept(h.held, ct, w)
    BY <2>1, <2>3
  <2>7. HoldsBack(h, q, w)
    BY <2>4, <2>5, <2>6 DEF HoldsBack
  <2> QED BY <2>7 DEF h, x
<1>7. CASE ~(g.held # <<>> /\ Last(g.held)[1] = "partial")
  BY <1>1, <1>6, <1>7 DEF e
<1>8. CASE g.held # <<>> /\ Last(g.held)[1] = "partial"
  <2> DEFINE held == Front(g.held)
             bt == [i \in 1..N |-> at[i]]
  <2>1. N > 0 /\ Last(g.held) = g.held[N]
    BY <1>2, <1>8, EmptySeq DEF Last
  <2>2. held \in Seq(Events) /\ Len(held) = N - 1 /\ \A i \in 1..(N - 1) : held[i] = g.held[i]
    <3>1. \A i \in 1..(N - 1) : g.held[i] \in Events
      <4>1. \A i \in 1..(N - 1) : i \in 1..N
        BY <1>2
      <4> QED BY <1>2, <4>1, ElementOfSeq
    <3>2. 1 \in Int /\ N - 1 \in Int /\ (IF 1 <= N - 1 THEN N - 1 - 1 + 1 ELSE 0) = N - 1 /\ (N - 1) - 1 + 1 = N - 1
      BY <1>2, <2>1
    <3> HIDE DEF Events
    <3>3. /\ SubSeq(g.held, 1, N - 1) \in Seq(Events)
          /\ Len(SubSeq(g.held, 1, N - 1)) = (IF 1 <= N - 1 THEN N - 1 - 1 + 1 ELSE 0)
          /\ \A i \in 1..((N - 1) - 1 + 1) : SubSeq(g.held, 1, N - 1)[i] = g.held[1 + i - 1]
      BY <3>1, <3>2, SubSeqProperties
    <3>4. \A i \in 1..(N - 1) : 1 + i - 1 = i
      BY <1>2
    <3>5. held = SubSeq(g.held, 1, N - 1)
      BY DEF Front
    <3> HIDE DEF held, N
    <3> QED BY <3>2, <3>3, <3>4, <3>5
  <2>3. bt \in [1..(Len(held) + 1) -> Nat \ {0}] /\ \A i \in 1..N : bt[i] = at[i]
    <3>1. \A i \in 1..N : i \in 1..(N + 1)
      BY <1>2
    <3>2. Len(held) + 1 = N
      BY <1>2, <2>2
    <3> HIDE DEF held
    <3> QED BY <3>1, <3>2
  <2> HIDE DEF held, bt
  <2>4. ASSUME NEW i \in 1..Len(held)
        PROVE  KeptFinal(held[i], bt[i], bt[i + 1], w) \/ KeptPartial(held[i], bt[i], bt[i + 1], w)
    <3>1. i \in 1..(N - 1) /\ i \in 1..N /\ i + 1 \in 1..N
      BY <1>2, <2>2
    <3>2. held[i] = g.held[i] /\ bt[i] = at[i] /\ bt[i + 1] = at[i + 1]
      BY <2>2, <2>3, <3>1
    <3>3. KeptFinal(g.held[i], at[i], at[i + 1], w) \/ KeptPartial(g.held[i], at[i], at[i + 1], w)
      BY <1>1, <3>1 DEF Kept
    <3> QED BY <3>2, <3>3
  <2>5. Kept(held, bt, w)
    BY <2>2, <2>3, <2>4 DEF Kept, Events
  <2>6. at[N] = p
    <3>1. N \in 1..N
      BY <1>2, <2>1
    <3>2. KeptFinal(g.held[N], at[N], at[N + 1], w) \/ KeptPartial(g.held[N], at[N], at[N + 1], w)
      BY <1>1, <3>1 DEF Kept
    <3>3. ~KeptFinal(g.held[N], at[N], at[N + 1], w)
      BY <1>8, <2>1 DEF KeptFinal
    <3> QED BY <3>2, <3>3 DEF KeptPartial
  <2>7. bt[1] = q /\ bt[Len(held) + 1] = p
    <3>1. 1 \in 1..N /\ N \in 1..N /\ Len(held) + 1 = N
      BY <1>2, <2>1, <2>2
    <3> QED BY <1>1, <2>3, <2>6, <3>1
  <2>8. HoldsBack([g EXCEPT !.held = Append(held, e)], q, w)
    BY <1>6, <2>5, <2>7
  <2> QED BY <1>8, <2>8 DEF e, held
<1> QED BY <1>7, <1>8

LEMMA FinalHolds ==
  ASSUME NEW g, IsLeg(g), NEW q, NEW w \in Nat, HoldsBack(g, q, w), NEW m \in ShortestText..Len(g.heard)
  PROVE  HoldsBack([g EXCEPT !.heard = SubSeq(g.heard, m + 1, Len(g.heard)),
                             !.held = Append(g.held, <<"final", SubSeq(g.heard, 1, m)>>)], q, w)
<1>1. PICK at \in [1..(Len(g.held) + 1) -> Nat \ {0}], n \in Nat :
        LET p == at[Len(g.held) + 1] IN
        /\ at[1] = q /\ Kept(g.held, at, w)
        /\ g.heard = Run(p, n) /\ p + n <= w + 1 /\ (g.st = "open" => p + n = w + 1)
        /\ g.pending = <<>>
  BY DEF HoldsBack
<1> DEFINE N == Len(g.held)
           p == at[N + 1]
           e == <<"final", SubSeq(g.heard, 1, m)>>
           x == Append(g.held, e)
           h == [g EXCEPT !.heard = SubSeq(g.heard, m + 1, Len(g.heard)), !.held = x]
<1>2. g.held \in Seq(Events) /\ N \in Nat
  <2>1. g.held \in Seq(Events)
    BY <1>1 DEF Kept, Events
  <2> QED BY <2>1, LenProperties
<1>3. p \in Nat \ {0}
  <2>1. N + 1 \in 1..(N + 1)
    BY <1>2
  <2> QED BY <2>1
<1>4. g.heard = Run(p, n) /\ p + n <= w + 1 /\ (g.st = "open" => p + n = w + 1)
  BY <1>1
<1> HIDE DEF p
<1>5. Len(g.heard) = n
  <2>1. p \in Nat
    BY <1>3
  <2>2. Len(Run(p, n)) = n
    BY <2>1, RunIs
  <2> QED BY <1>4, <2>2
<1>6. m \in Nat /\ m <= n /\ m >= ShortestText
  BY <1>5, LiveNumbers
<1>7. \A a \in Nat \ {0}, b \in Nat : b <= n /\ a <= b + 1 => SubSeq(g.heard, a, b) = Run(p + a - 1, b - a + 1)
  <2>1. p \in Nat
    BY <1>3
  <2>2. \A a \in Nat \ {0}, b \in Nat : b <= n /\ a <= b + 1 => SubSeq(Run(p, n), a, b) = Run(p + a - 1, b - a + 1)
    BY <2>1, PartsOfRun, Zenon
  <2> QED BY <1>4, <2>2
<1>8. SubSeq(g.heard, 1, m) = Run(p, m)
  <2>1. 1 \in Nat \ {0} /\ 1 <= m + 1 /\ p + 1 - 1 = p /\ m - 1 + 1 = m
    BY <1>3, <1>6
  <2>2. SubSeq(g.heard, 1, m) = Run(p + 1 - 1, m - 1 + 1)
    BY <1>6, <1>7, <2>1
  <2> QED BY <2>1, <2>2
<1>9. SubSeq(g.heard, m + 1, Len(g.heard)) = Run(p + m, n - m)
  <2>1. m + 1 \in Nat \ {0} /\ n <= n /\ m + 1 <= n + 1 /\ p + (m + 1) - 1 = p + m /\ n - (m + 1) + 1 = n - m
    BY <1>3, <1>6
  <2>2. SubSeq(g.heard, m + 1, n) = Run(p + (m + 1) - 1, n - (m + 1) + 1)
    BY <1>7, <2>1
  <2> QED BY <1>5, <2>1, <2>2
<1>10. p + m \in Nat \ {0} /\ n - m \in Nat /\ (p + m) + (n - m) = p + n /\ p + m <= w + 1
  BY <1>3, <1>4, <1>6
<1>11. e \in Events
  <2>1. Run(p, m) \in Seq(Nat)
    BY <1>3, <1>6, RunIs
  <2> QED BY <1>8, <2>1 DEF Events
<1>12. KeptFinal(e, p, p + m, w)
  BY <1>6, <1>8, <1>10 DEF KeptFinal
<1>13. h.held = x /\ h.heard = Run(p + m, n - m) /\ h.pending = g.pending /\ h.st = g.st
  BY <1>9 DEF IsLeg
<1>14. x[Len(x)] = e
  <2> HIDE DEF e
  <2> HIDE DEF Events
  <2> QED BY <1>2, <1>11
<1>15. e[1] = "final"
  OBVIOUS
<1> HIDE DEF e, x, h
<1>16. PICK bt \in [1..(Len(x) + 1) -> Nat \ {0}] : Kept(x, bt, w) /\ bt[1] = at[1] /\ bt[Len(x) + 1] = p + m
  <2>1. KeptFinal(e, at[Len(g.held) + 1], p + m, w)
    BY <1>12 DEF p
  <2>2. Kept(g.held, at, w)
    BY <1>1
  <2>3. KeptFinal(e, at[Len(g.held) + 1], p + m, w) \/ KeptPartial(e, at[Len(g.held) + 1], p + m, w)
    BY <2>1
  <2>4. p + m \in Nat \ {0}
    BY <1>10
  <2>5. \E bt \in [1..(Len(Append(g.held, e)) + 1) -> Nat \ {0}] :
          Kept(Append(g.held, e), bt, w) /\ bt[1] = at[1] /\ bt[Len(Append(g.held, e)) + 1] = p + m
    <3> DEFINE y == p + m
    <3> HIDE DEF y
    <3>1. y \in Nat \ {0} /\ (KeptFinal(e, at[Len(g.held) + 1], y, w) \/ KeptPartial(e, at[Len(g.held) + 1], y, w))
      BY <2>3, <2>4 DEF y
    <3>2. \E bt \in [1..(Len(Append(g.held, e)) + 1) -> Nat \ {0}] :
            Kept(Append(g.held, e), bt, w) /\ bt[1] = at[1] /\ bt[Len(Append(g.held, e)) + 1] = y
      BY <1>11, <2>2, <3>1, KeptGrows, SMTT(60)
    <3> QED BY <3>2 DEF y
  <2> QED BY <2>5 DEF x
<1>17. h.held # <<>> /\ h.held[Len(h.held)][1] = "partial" => Len(h.held[Len(h.held)][2]) <= n - m
  BY <1>13, <1>14, <1>15
<1>18. /\ h.heard = Run(bt[Len(h.held) + 1], n - m) /\ bt[Len(h.held) + 1] + (n - m) <= w + 1
       /\ h.st = "open" => bt[Len(h.held) + 1] + (n - m) = w + 1
       /\ h.pending = <<>>
  BY <1>1, <1>4, <1>10, <1>13, <1>16
<1>19. bt \in [1..(Len(h.held) + 1) -> Nat \ {0}] /\ bt[1] = q /\ Kept(h.held, bt, w)
  BY <1>1, <1>13, <1>16
<1>20. HoldsBack(h, q, w)
  BY <1>10, <1>17, <1>18, <1>19 DEF HoldsBack
<1> QED BY <1>20 DEF h, x, e

LEMMA HoldsNext ==
  ASSUME NEW g, IsLeg(g), NEW q, NEW w \in Nat, HoldsBack(g, q, w), g.st = "open"
  PROVE  HoldsBack([g EXCEPT !.heard = Append(g.heard, w + 1)], q, w + 1)
<1> DEFINE h == [g EXCEPT !.heard = Append(g.heard, w + 1)]
<1>1. PICK at \in [1..(Len(g.held) + 1) -> Nat \ {0}], n \in Nat :
        LET p == at[Len(g.held) + 1] IN
        /\ at[1] = q /\ Kept(g.held, at, w)
        /\ g.held # <<>> /\ g.held[Len(g.held)][1] = "partial" => Len(g.held[Len(g.held)][2]) <= n
        /\ g.heard = Run(p, n) /\ p + n = w + 1
        /\ g.pending = <<>>
  BY DEF HoldsBack
<1> DEFINE N == Len(g.held)
           p == at[N + 1]
<1>2. g.held \in Seq(Events) /\ N \in Nat
  <2>1. g.held \in Seq(Events)
    BY <1>1 DEF Kept, Events
  <2> QED BY <2>1, LenProperties
<1>3. p \in Nat \ {0} /\ p \in Nat
  <2>1. N + 1 \in 1..(N + 1)
    BY <1>2
  <2> QED BY <2>1
<1>4. g.heard = Run(p, n) /\ p + n = w + 1
  BY <1>1
<1> HIDE DEF p
<1>5. Append(g.heard, w + 1) = Run(p, n + 1)
  BY <1>3, <1>4, RunGrows
<1>6. h.held = g.held /\ h.heard = Run(p, n + 1) /\ h.pending = g.pending /\ h.st = g.st
  BY <1>5 DEF IsLeg
<1>7. p + (n + 1) = (w + 1) + 1 /\ p + (n + 1) <= (w + 1) + 1 /\ n + 1 \in Nat
  BY <1>3, <1>4
<1>8. Kept(g.held, at, w + 1)
  <2>1. w + 1 \in Nat /\ w <= w + 1
    OBVIOUS
  <2> QED BY <1>1, <2>1, KeptLonger
<1>9. g.held # <<>> /\ g.held[Len(g.held)][1] = "partial" => Len(g.held[Len(g.held)][2]) <= n + 1
  <2>1. SUFFICES ASSUME g.held # <<>>, g.held[N][1] = "partial" PROVE Len(g.held[N][2]) <= n + 1
    OBVIOUS
  <2>2. Len(g.held[N][2]) <= n
    BY <1>1, <2>1
  <2>3. g.held[N] \in Events
    <3>1. N \in 1..N
      BY <1>2, <2>1, EmptySeq
    <3> HIDE DEF N
    <3>2. g.held \in Seq(Events) /\ N \in 1..Len(g.held)
      BY <1>2, <3>1 DEF N
    <3> QED BY <3>2, ElementOfSeq
  <2>4. Len(g.held[N][2]) \in Nat
    <3>1. g.held[N][2] \in Seq(Nat)
      BY <2>3 DEF Events
    <3> QED BY <3>1, LenProperties
  <2> QED BY <2>2, <2>4
<1> HIDE DEF h
<1>10. HoldsBack(h, q, w + 1)
  <2>1. h.held # <<>> /\ h.held[Len(h.held)][1] = "partial" => Len(h.held[Len(h.held)][2]) <= n + 1
    BY <1>6, <1>9
  <2>2. at \in [1..(Len(h.held) + 1) -> Nat \ {0}] /\ at[1] = q /\ Kept(h.held, at, w + 1)
    BY <1>1, <1>6, <1>8
  <2>3. h.heard = Run(at[Len(h.held) + 1], n + 1) /\ at[Len(h.held) + 1] + (n + 1) = (w + 1) + 1
        /\ at[Len(h.held) + 1] + (n + 1) <= (w + 1) + 1
    BY <1>6, <1>7 DEF p
  <2> QED BY <1>1, <1>6, <1>7, <2>1, <2>2, <2>3 DEF HoldsBack
<1> QED BY <1>10 DEF h

\* A leg that is not connected misses what comes.
LEMMA HoldsOn ==
  ASSUME NEW g, NEW h, h.heard = g.heard, h.pending = g.pending, h.held = g.held, h.st # "open",
         NEW q, NEW w \in Nat, NEW v \in Nat, w <= v, HoldsBack(g, q, w)
  PROVE  HoldsBack(h, q, v)
<1>1. PICK at \in [1..(Len(g.held) + 1) -> Nat \ {0}], n \in Nat :
        LET p == at[Len(g.held) + 1] IN
        /\ at[1] = q /\ Kept(g.held, at, w)
        /\ g.held # <<>> /\ g.held[Len(g.held)][1] = "partial" => Len(g.held[Len(g.held)][2]) <= n
        /\ g.heard = Run(p, n) /\ p + n <= w + 1
        /\ g.pending = <<>>
  BY DEF HoldsBack
<1>2. Kept(g.held, at, v)
  BY <1>1, KeptLonger
<1>3. at[Len(g.held) + 1] + n <= v + 1
  <2>1. Len(g.held) + 1 \in 1..(Len(g.held) + 1)
    <3>1. Len(g.held) \in Nat
      BY <1>1, LenProperties DEF Kept
    <3> QED BY <3>1
  <2>2. at[Len(g.held) + 1] \in Nat
    BY <2>1
  <2> QED BY <1>1, <2>2
<1>4. /\ at[1] = q /\ Kept(h.held, at, v)
      /\ h.held # <<>> /\ h.held[Len(h.held)][1] = "partial" => Len(h.held[Len(h.held)][2]) <= n
      /\ h.heard = Run(at[Len(h.held) + 1], n) /\ at[Len(h.held) + 1] + n <= v + 1
      /\ h.pending = <<>>
  BY <1>1, <1>2, <1>3
<1>5. at \in [1..(Len(h.held) + 1) -> Nat \ {0}]
  OBVIOUS
<1> QED BY <1>4, <1>5 DEF HoldsBack

\* What a leg that opened hears first, and so what it may say.
LEMMA ReplayIs ==
  ASSUME said \in Nat, NEW c \in Nat
  PROVE  \E q \in Nat \ {0}, n \in Nat : Replay(c) = Run(q, n) /\ q + n = said + 1 /\ said < q + c
<1> DEFINE n == Lesser(c, said)
           q == said - n + 1
<1>1. n \in Nat /\ q \in Nat \ {0} /\ q + n = said + 1 /\ said < q + c
  BY DEF Lesser
<1>2. ASSUME NEW i \in 1..n PROVE said - n + i = q + i - 1
  BY <1>1, <1>2
<1>3. Replay(c) = [i \in 1..n |-> said - n + i]
  BY DEF Replay
<1> HIDE DEF n, q
<1>4. Replay(c) = Run(q, n)
  BY <1>2, <1>3 DEF Run
<1> QED BY <1>1, <1>4

LEMMA ReplayHolds ==
  ASSUME said \in Nat, NEW g, g.heard = Replay(OverlapWords), g.held = <<>>, g.pending = <<>>
  PROVE  \E q \in Nat \ {0} : said < q + OverlapWords /\ HoldsBack(g, q, said)
<1>1. PICK q \in Nat \ {0}, n \in Nat : Replay(OverlapWords) = Run(q, n) /\ q + n = said + 1 /\ said < q + OverlapWords
  BY ReplayIs, LiveNumbers
<1> DEFINE at == [i \in {1} |-> q]
<1>2. Len(g.held) = 0 /\ g.held \in Seq({"final", "partial"} \X Seq(Nat))
  BY EmptySeq
<1>3. at \in [1..(Len(g.held) + 1) -> Nat \ {0}] /\ at[1] = q
  <2>1. 1..(Len(g.held) + 1) = {1}
    BY <1>2
  <2> QED BY <2>1
<1> HIDE DEF at
<1>4. Kept(g.held, at, said)
  BY <1>2, <1>3 DEF Kept
<1>5. q + n <= said + 1
  BY <1>1
<1>6. g.heard = Run(at[Len(g.held) + 1], n) /\ at[Len(g.held) + 1] = q
  BY <1>1, <1>2, <1>3
<1>7. HoldsBack(g, q, said)
  BY <1>1, <1>3, <1>4, <1>5, <1>6 DEF HoldsBack
<1> QED BY <1>1, <1>7

LEMMA ReplaySpeaks ==
  ASSUME said \in Nat, NEW g, NEW c \in Nat, c <= SeamWords, g.heard = Replay(c), g.pending = <<>>,
         NEW s, IsSeam(s), Reaches(s, said)
  PROVE  IsSeam(Begin(s)) /\ Reaches(Begin(s), said) /\ Speaks(g, Begin(s), TRUE, said)
<1>1. PICK q \in Nat \ {0}, n \in Nat : Replay(c) = Run(q, n) /\ q + n = said + 1 /\ said < q + c
  BY ReplayIs
<1>2. said < q + SeamWords
  BY <1>1, LiveNumbers
<1>3. IsSeam(Begin(s)) /\ Fits(Begin(s), q) /\ Reaches(Begin(s), said)
  BY <1>2, BeginFits
<1>4. q + n <= said + 1
  BY <1>1
<1>5. Speaks(g, Begin(s), TRUE, said)
  BY <1>1, <1>3, <1>4 DEF Speaks
<1> QED BY <1>3, <1>5

\* At the end of a rotation the leg that was held back is the one that speaks.
LEMMA SpeaksAtLast ==
  ASSUME livePhase # "disposed", NEW g, IsLeg(g), NEW w \in Nat, NEW q \in Nat \ {0}, HoldsBack(g, q, w),
         NEW s, NEW v \in Nat, IsSeam(s), Reaches(s, v), v < q + OverlapWords, v <= w
  PROVE  LET r == Release(Begin(s), g.held) IN
         /\ IsSeam(r.seam) /\ Reaches(r.seam, w)
         /\ Speaks([g EXCEPT !.mute = FALSE, !.held = <<>>, !.pending = r.pending], r.seam, g.st = "open", w)
<1>1. PICK at \in [1..(Len(g.held) + 1) -> Nat \ {0}], n \in Nat :
        LET p == at[Len(g.held) + 1] IN
        /\ at[1] = q /\ Kept(g.held, at, w)
        /\ g.held # <<>> /\ g.held[Len(g.held)][1] = "partial" => Len(g.held[Len(g.held)][2]) <= n
        /\ g.heard = Run(p, n) /\ p + n <= w + 1 /\ (g.st = "open" => p + n = w + 1)
  BY DEF HoldsBack
<1> DEFINE N == Len(g.held)
           p == at[N + 1]
           r == Release(Begin(s), g.held)
           h == [g EXCEPT !.mute = FALSE, !.held = <<>>, !.pending = r.pending]
<1>2. g.held \in Seq(Events) /\ N \in Nat
  <2>1. g.held \in Seq(Events)
    BY <1>1 DEF Kept, Events
  <2> QED BY <2>1, LenProperties
<1>3. p \in Nat \ {0} /\ p \in Nat
  <2>1. N + 1 \in 1..(N + 1)
    BY <1>2
  <2> QED BY <2>1
<1>4. IsSeam(Begin(s)) /\ Fits(Begin(s), q) /\ Reaches(Begin(s), w)
  <2>1. v < q + SeamWords
    BY LiveNumbers
  <2>2. IsSeam(Begin(s)) /\ Fits(Begin(s), q) /\ Reaches(Begin(s), v)
    BY <2>1, BeginFits
  <2>3. Reaches(Begin(s), v) => Reaches(Begin(s), w)
    <3>1. Begin(s).out \in Seq(Nat)
      BY <2>2 DEF IsSeam
    <3>2. Len(Begin(s).out) \in Nat
      BY <3>1, LenProperties
    <3> QED BY <3>2 DEF Reaches
  <2> QED BY <2>2, <2>3
<1>5. /\ IsSeam(r.seam) /\ Fits(r.seam, p) /\ Reaches(r.seam, w)
      /\ \/ r.pending = <<>>
         \/ g.held # <<>> /\ g.held[N][1] = "partial" /\ r.pending = g.held[N][2]
  <2>1. Kept(g.held, at, w) /\ Fits(Begin(s), at[1])
    BY <1>1, <1>4
  <2> QED BY <1>4, <2>1, Released
<1>6. ASSUME g.held # <<>>, g.held[N][1] = "partial"
      PROVE  \E k \in Nat : ShortestText <= k /\ k <= n /\ g.held[N][2] = Run(p, k)
  <2>1. N \in 1..N
    BY <1>2, <1>6, EmptySeq
  <2>2. KeptFinal(g.held[N], at[N], at[N + 1], w) \/ KeptPartial(g.held[N], at[N], at[N + 1], w)
    BY <1>1, <2>1 DEF Kept
  <2>3. ~KeptFinal(g.held[N], at[N], at[N + 1], w)
    BY <1>6 DEF KeptFinal
  <2>4. PICK k \in Nat : k >= ShortestText /\ g.held[N] = <<"partial", Run(at[N], k)>> /\ p = at[N]
    BY <2>2, <2>3 DEF KeptPartial
  <2>5. g.held[N][2] = Run(p, k)
    BY <2>4
  <2>6. Len(g.held[N][2]) = k
    <3> HIDE DEF p
    <3> QED BY <1>3, <2>5, RunIs
  <2>7. k <= n
    BY <1>1, <1>6, <2>6
  <2>8. ShortestText <= k
    BY <2>4, LiveNumbers
  <2> QED BY <2>5, <2>7, <2>8
<1>7. h.heard = g.heard /\ h.pending = r.pending
  BY DEF IsLeg
<1>8. g.heard = Run(p, n) /\ p + n <= w + 1 /\ (g.st = "open" => p + n = w + 1)
  BY <1>1
<1> HIDE DEF p, h, r
<1>9. h.pending = <<>> \/ \E k \in Nat : ShortestText <= k /\ k <= n /\ h.pending = Run(p, k)
  BY <1>5, <1>6, <1>7
<1>10. Speaks(h, r.seam, g.st = "open", w)
  BY <1>3, <1>5, <1>7, <1>8, <1>9 DEF Speaks
<1> QED BY <1>5, <1>10 DEF h, r

\* A leg is held back while the one it replaces says its last words.
Mutes ==
  \A l \in Legs :
    /\ legs[l].st \in {"open", "dropped", "closed"} =>
         legs[l].mute = IF l = active /\ working = "flushing" THEN TRUE ELSE FALSE
    /\ legs[l].st = "opening" /\ livePhase # "disposed" =>
         legs[l] = Leg("opening", IF working = "rotating" THEN TRUE ELSE FALSE)

\* While the old leg flushes, the new one goes back to a word that it is allowed to go back to.
Flushes(s, old, new, u) ==
  \E q \in Nat \ {0}, w \in Nat :
    /\ w < q + OverlapWords /\ w <= u /\ Reaches(s, w)
    /\ Speaks(old, s, FALSE, w) /\ HoldsBack(new, q, u)

WordsInv ==
  /\ IsSeam(seam) /\ said \in Nat /\ Reaches(seam, said)
  /\ Mutes
  /\ livePhase = "starting" => seam.expected = <<>>
  /\ livePhase = "flushing" => active # 0
  /\ working \in {"none", "rotating"} /\ active # 0 => Speaks(legs[active], seam, legs[active].st = "open", said)
  /\ working = "flushing" => Flushes(seam, legs[retiring], legs[active], said)

OrderInv == LiveInv /\ WordsInv

IsLate == oldLeg = [words |-> oldLeg.words, spoke |-> oldLeg.spoke] /\ oldLeg.spoke \in BOOLEAN

LEMMA WordsInit == LiveInit => WordsInv
<1> SUFFICES ASSUME LiveInit PROVE WordsInv
  OBVIOUS
<1>1. seam = [out |-> <<>>, expected |-> <<>>, engaged |-> FALSE] /\ said = 0
      /\ active = 0 /\ working = "none" /\ livePhase = "starting"
  BY DEF LiveInit
<1>2. <<>> \in Seq(Nat) /\ Len(<<>>) = 0
  BY EmptySeq
<1>3. IsSeam(seam) /\ Reaches(seam, said)
  <2>1. InOrder(<<>>)
    BY <1>2 DEF InOrder
  <2> QED BY <1>1, <1>2, <2>1 DEF IsSeam, Reaches
<1>4. Mutes
  <2>1. \A l \in Legs : legs[l] = IF l = 1 THEN Leg("opening", FALSE) ELSE NoLeg
    BY DEF LiveInit
  <2>2. \A l \in Legs : legs[l].st \in {"opening", "none"}
    BY <2>1, LegIsLeg, NoLegIsLeg DEF LegStates
  <2>3. \A l \in Legs : legs[l].st = "opening" => legs[l] = Leg("opening", FALSE)
    BY <2>1, NoLegIsLeg
  <2> QED BY <1>1, <2>2, <2>3 DEF Mutes
<1> QED BY <1>1, <1>3, <1>4 DEF WordsInv

\* When a stream is disposed only what was delivered is left.
LEMMA DisposedWords ==
  ASSUME NEW lg, AreLegs(lg), Dispose(lg), IsSeam(seam'), said' \in Nat, Reaches(seam', said')
  PROVE  WordsInv'
<1>1. \A l \in Legs : legs'[l].st \in {"opening", "none"}
  BY NoLegIsLeg DEF Dispose
<1>2. Mutes'
  BY <1>1 DEF Mutes, Dispose
<1> QED BY <1>2 DEF WordsInv, Dispose

LEMMA RecoverWords ==
  ASSUME NEW lg, AreLegs(lg), NEW dead \in Legs, NEW s, Recover(lg, dead, s), livePhase \in {"running", "stopping"},
         \A l \in Legs \ {dead} : lg[l].st = "none",
         said \in Nat, said' = said, IsSeam(LegSettled(s, lg[dead])), Reaches(LegSettled(s, lg[dead]), said)
  PROVE  WordsInv'
<1>1. seam' = LegSettled(s, lg[dead])
  BY DEF Recover
<1>2. CASE soon
  BY <1>1, <1>2, DisposedWords DEF Recover
<1>3. CASE ~soon
  <2> DEFINE cleared == [lg EXCEPT ![dead] = NoLeg]
  <2>1. AreLegs(cleared) /\ \A l \in Legs : cleared[l].st = "none"
    BY NoLegIsLeg DEF AreLegs
  <2>2. PICK k \in Legs : Opening(cleared, FALSE) = [cleared EXCEPT ![k] = Leg("opening", FALSE)]
    BY <2>1, OpeningTakesOne
  <2>3. legs' = Opening(cleared, FALSE) /\ active' = 0 /\ working' = "recovering" /\ livePhase' = livePhase
    BY <1>3 DEF Recover
  <2> HIDE DEF cleared
  <2>4. \A l \in Legs : legs'[l] = IF l = k THEN Leg("opening", FALSE) ELSE cleared[l]
    BY <2>1, <2>2, <2>3 DEF AreLegs
  <2>5. Leg("opening", FALSE).st = "opening"
    BY LegIsLeg DEF LegStates
  <2>6. Mutes'
    <3>1. \A l \in Legs : legs'[l].st \in {"opening", "none"}
      BY <2>1, <2>4, <2>5
    <3>2. \A l \in Legs : legs'[l].st = "opening" => legs'[l] = Leg("opening", FALSE)
      BY <2>1, <2>4
    <3> QED BY <2>3, <3>1, <3>2 DEF Mutes
  <2> QED BY <1>1, <2>3, <2>6 DEF WordsInv
<1> QED BY <1>2, <1>3

\* What leaves every leg as it is, or a connected leg connected and as audible as before.
LEMMA MutesStay ==
  ASSUME Mutes, UNCHANGED <<active, working>>, livePhase' # "disposed" => livePhase # "disposed",
         \A l \in Legs : \/ legs'[l] = legs[l]
                         \/ legs'[l].st = "none"
                         \/ /\ legs[l].st \in {"open", "dropped", "closed"} /\ legs'[l].st \in {"open", "dropped", "closed"}
                            /\ legs'[l].mute = legs[l].mute
  PROVE  Mutes'
BY DEF Mutes

LEMMA LegFacts ==
  ASSUME LiveInv, NEW l \in Legs
  PROVE  IsLeg(legs[l]) /\ \A g : [legs EXCEPT ![l] = g][l] = g /\ \A k \in Legs \ {l} : [legs EXCEPT ![l] = g][k] = legs[k]
BY DEF LiveInv, AreLegs

\* Who is connected in which work.
LEMMA Connected ==
  ASSUME LiveInv, Mutes, NEW l \in Legs, legs[l].st \in {"open", "dropped", "closed"}
  PROVE  \/ /\ working \in {"none", "rotating"} /\ l = active /\ legs[l].mute = FALSE
         \/ /\ working = "flushing" /\ l = active /\ retiring \in Legs /\ retiring # active /\ legs[l].mute = TRUE
         \/ /\ working = "flushing" /\ l = retiring /\ active \in Legs /\ retiring # active /\ legs[l].mute = FALSE
<1>1. l \in {active, retiring}
  BY ConnectedIsNamed
<1>2. l # 0
  BY LegsAre
<1>3. legs[l].mute = IF l = active /\ working = "flushing" THEN TRUE ELSE FALSE
  BY DEF Mutes
<1>4. CASE working \in {"none", "rotating"}
  <2>1. retiring = 0
    BY <1>4 DEF LiveInv, WorkInv
  <2> QED BY <1>1, <1>2, <1>3, <1>4, <2>1
<1>5. CASE working = "flushing"
  <2>1. active # 0 /\ retiring # 0 /\ active # retiring /\ active \in Legs /\ retiring \in Legs
    BY <1>5 DEF LiveInv, WorkInv, NamedLegs
  <2> QED BY <1>1, <1>3, <1>5, <2>1
<1>6. CASE working = "recovering"
  BY <1>1, <1>2, <1>6 DEF LiveInv, WorkInv
<1> QED BY <1>4, <1>5, <1>6 DEF LiveInv, WorkInv

\* A connected leg's words or state change and nothing else does but the transcript.
LEMMA OneLegSpeaks ==
  ASSUME OrderInv, NEW l \in Legs, NEW g, legs' = [legs EXCEPT ![l] = g], g.mute = legs[l].mute,
         legs[l].st \in {"open", "dropped", "closed"}, g.st \in {"open", "dropped", "closed"},
         UNCHANGED <<active, retiring, working, livePhase, said>>,
         IsSeam(seam'), Reaches(seam', said), livePhase = "starting" => seam' = seam,
         working \in {"none", "rotating"} /\ l = active => Speaks(g, seam', g.st = "open", said),
         working = "flushing" => Flushes(seam', IF l = retiring THEN g ELSE legs[retiring],
                                                IF l = active THEN g ELSE legs[active], said)
  PROVE  WordsInv'
<1>1. legs'[l] = g /\ \A k \in Legs \ {l} : legs'[k] = legs[k]
  BY LegFacts DEF OrderInv
<1>2. Mutes'
  <2>1. \A k \in Legs : \/ legs'[k] = legs[k]
                        \/ /\ legs[k].st \in {"open", "dropped", "closed"} /\ legs'[k].st \in {"open", "dropped", "closed"}
                           /\ legs'[k].mute = legs[k].mute
    BY <1>1
  <2> QED BY <2>1, MutesStay DEF OrderInv, WordsInv
<1>3. working \in {"none", "rotating"} /\ active # 0 => l = active
  BY Connected DEF OrderInv, WordsInv
<1>4. working = "flushing" => active \in Legs /\ retiring \in Legs
  BY DEF OrderInv, LiveInv, WorkInv, NamedLegs
<1>5. working \in {"none", "rotating"} /\ active # 0 => Speaks(legs'[active], seam', legs'[active].st = "open", said)
  BY <1>1, <1>3
<1>6. working = "flushing" => Flushes(seam', legs'[retiring], legs'[active], said)
  <2>1. working = "flushing" => /\ legs'[retiring] = (IF l = retiring THEN g ELSE legs[retiring])
                                /\ legs'[active] = (IF l = active THEN g ELSE legs[active])
    BY <1>1, <1>4
  <2> QED BY <2>1
<1>7. said \in Nat /\ (livePhase = "starting" => seam'.expected = <<>>) /\ (livePhase = "flushing" => active # 0)
  BY DEF OrderInv, WordsInv
<1> QED BY <1>2, <1>5, <1>6, <1>7 DEF WordsInv

LEMMA InterimWords == ASSUME OrderInv, NEW l \in Legs, Interim(l) PROVE WordsInv'
<1> DEFINE g == legs[l]
           after == IF g.held # <<>> /\ Last(g.held)[1] = "partial" THEN Front(g.held) ELSE g.held
           held == [g EXCEPT !.held = Append(after, <<"partial", g.heard>>)]
           told == [g EXCEPT !.pending = g.heard]
<1>1. /\ legs' = [legs EXCEPT ![l] = IF g.mute THEN held ELSE told]
      /\ UNCHANGED <<active, retiring, working, livePhase, said, seam>>
      /\ g.st = "open" /\ Len(g.heard) >= ShortestText
  BY DEF Interim
<1>2. IsLeg(g)
  BY LegFacts DEF OrderInv
<1>3. held.st = "open" /\ held.mute = g.mute /\ told.st = "open" /\ told.mute = g.mute
  <2> HIDE DEF after
  <2> QED BY <1>1, <1>2 DEF IsLeg
<1>4. IsSeam(seam) /\ Reaches(seam, said) /\ said \in Nat
  BY DEF OrderInv, WordsInv
<1>5. \/ /\ working \in {"none", "rotating"} /\ l = active /\ g.mute = FALSE
      \/ /\ working = "flushing" /\ l = active /\ retiring \in Legs /\ retiring # active /\ g.mute = TRUE
      \/ /\ working = "flushing" /\ l = retiring /\ active \in Legs /\ retiring # active /\ g.mute = FALSE
  BY <1>1, Connected DEF OrderInv, WordsInv
<1> DEFINE h == IF g.mute THEN held ELSE told
<1>6. h.st = "open" /\ h.mute = g.mute
  BY <1>3
<1>7. working \in {"none", "rotating"} /\ l = active => Speaks(h, seam, h.st = "open", said)
  <2> SUFFICES ASSUME working \in {"none", "rotating"}, l = active PROVE Speaks(h, seam, h.st = "open", said)
    OBVIOUS
  <2>1. h = told /\ active # 0
    BY <1>5, LegsAre
  <2>2. Speaks(g, seam, TRUE, said)
    BY <1>1, <2>1 DEF OrderInv, WordsInv
  <2>3. Speaks(told, seam, TRUE, said)
    BY <1>1, <1>2, <1>4, <2>2, InterimSpeaks
  <2>4. (h.st = "open") = TRUE
    BY <1>6
  <2> HIDE DEF told, h
  <2> QED BY <2>1, <2>3, <2>4
<1>8. working = "flushing" => Flushes(seam, IF l = retiring THEN h ELSE legs[retiring],
                                            IF l = active THEN h ELSE legs[active], said)
  <2> SUFFICES ASSUME working = "flushing"
               PROVE  Flushes(seam, IF l = retiring THEN h ELSE legs[retiring], IF l = active THEN h ELSE legs[active], said)
    OBVIOUS
  <2>1. PICK q \in Nat \ {0}, w \in Nat :
          /\ w < q + OverlapWords /\ w <= said /\ Reaches(seam, w)
          /\ Speaks(legs[retiring], seam, FALSE, w) /\ HoldsBack(legs[active], q, said)
    BY DEF OrderInv, WordsInv, Flushes
  <2>2. CASE l = active /\ retiring # active /\ g.mute = TRUE
    <3>1. HoldsBack(g, q, said)
      BY <2>1, <2>2
    <3>2. HoldsBack(held, q, said)
      BY <1>1, <1>2, <1>4, <3>1, InterimHolds
    <3>3. h = held
      BY <2>2
    <3> HIDE DEF h, held, told
    <3> QED BY <2>1, <2>2, <3>2, <3>3 DEF Flushes
  <2>3. CASE l = retiring /\ retiring # active /\ g.mute = FALSE
    <3>1. Speaks(g, seam, FALSE, w)
      BY <2>1, <2>3
    <3>2. Speaks(told, seam, FALSE, w)
      BY <1>1, <1>2, <3>1, InterimSpeaks
    <3>3. h = told
      BY <2>3
    <3> HIDE DEF h, held, told
    <3> QED BY <2>1, <2>3, <3>2, <3>3 DEF Flushes
  <2> QED BY <1>5, <2>2, <2>3
<1> HIDE DEF h, held, told
<1>9. legs' = [legs EXCEPT ![l] = h]
  BY <1>1 DEF h
<1>10. IsSeam(seam') /\ Reaches(seam', said) /\ (livePhase = "starting" => seam' = seam)
  BY <1>1, <1>4
<1>11. working \in {"none", "rotating"} /\ l = active => Speaks(h, seam', h.st = "open", said)
  BY <1>1, <1>7
<1>12. working = "flushing" => Flushes(seam', IF l = retiring THEN h ELSE legs[retiring],
                                            IF l = active THEN h ELSE legs[active], said)
  BY <1>1, <1>8
<1>13. legs[l].st \in {"open", "dropped", "closed"} /\ h.st \in {"open", "dropped", "closed"} /\ h.mute = legs[l].mute
  BY <1>1, <1>6
<1> QED BY <1>1, <1>9, <1>10, <1>11, <1>12, <1>13, OneLegSpeaks

LEMMA FinalWords == ASSUME OrderInv, NEW l \in Legs, LiveFinal(l) PROVE WordsInv'
<1> DEFINE g == legs[l]
           text(n) == SubSeq(g.heard, 1, n)
           left(n) == SubSeq(g.heard, n + 1, Len(g.heard))
           held(n) == [g EXCEPT !.heard = left(n), !.held = Append(g.held, <<"final", text(n)>>)]
           told(n) == [g EXCEPT !.heard = left(n), !.pending = <<>>]
<1>1. g.st = "open" /\ UNCHANGED <<active, retiring, working, livePhase, said>>
  BY DEF LiveFinal
<1>2. IsLeg(g) /\ legs = [k \in Legs |-> legs[k]]
  BY LegFacts DEF OrderInv, LiveInv, AreLegs
<1>3. PICK n \in ShortestText..Len(g.heard) :
        IF g.mute THEN legs' = [legs EXCEPT ![l] = held(n)] /\ seam' = seam
                  ELSE legs' = [legs EXCEPT ![l] = told(n)] /\ seam' = FilterFinal(seam, text(n))
  <2>1. PICK n \in ShortestText..Len(g.heard) :
          IF g.mute THEN legs' = [legs EXCEPT ![l].heard = left(n), ![l].held = Append(@, <<"final", text(n)>>)] /\ seam' = seam
                    ELSE legs' = [legs EXCEPT ![l].heard = left(n), ![l].pending = <<>>] /\ seam' = FilterFinal(seam, text(n))
    BY DEF LiveFinal
  <2> DEFINE once == [legs EXCEPT ![l].heard = left(n)]
             x == <<"final", text(n)>>
             h == [g EXCEPT !.heard = left(n)]
  <2>2. once = [legs EXCEPT ![l] = h] /\ once[l] = h /\ once = [k \in Legs |-> once[k]]
    BY <1>2
  <2>3. [legs EXCEPT ![l].heard = left(n), ![l].held = Append(@, x)] = [once EXCEPT ![l].held = Append(@, x)]
    OBVIOUS
  <2>4. [legs EXCEPT ![l].heard = left(n), ![l].pending = <<>>] = [once EXCEPT ![l].pending = <<>>]
    OBVIOUS
  <2> HIDE DEF once, x
  <2>5. [once EXCEPT ![l].held = Append(@, x)] = [once EXCEPT ![l] = [h EXCEPT !.held = Append(@, x)]]
    BY <2>2
  <2>6. [once EXCEPT ![l].pending = <<>>] = [once EXCEPT ![l] = [h EXCEPT !.pending = <<>>]]
    BY <2>2
  <2>7. \A y : [once EXCEPT ![l] = y] = [legs EXCEPT ![l] = y]
    BY <1>2, <2>2
  <2>8. [h EXCEPT !.held = Append(@, x)] = [g EXCEPT !.heard = left(n), !.held = Append(g.held, x)]
    <3>1. h.held = g.held
      BY <1>2 DEF IsLeg
    <3> QED BY <3>1
  <2>9. [h EXCEPT !.pending = <<>>] = told(n)
    OBVIOUS
  <2>10. [legs EXCEPT ![l].heard = left(n), ![l].held = Append(@, x)] = [legs EXCEPT ![l] = held(n)]
    <3> HIDE DEF h
    <3> QED BY <2>3, <2>5, <2>7, <2>8 DEF x
  <2>11. [legs EXCEPT ![l].heard = left(n), ![l].pending = <<>>] = [legs EXCEPT ![l] = told(n)]
    <3> HIDE DEF h
    <3> QED BY <2>4, <2>6, <2>7, <2>9
  <2> HIDE DEF held, told, h
  <2> QED BY <2>1, <2>10, <2>11 DEF x
<1>4. IsSeam(seam) /\ Reaches(seam, said) /\ said \in Nat
  BY DEF OrderInv, WordsInv
<1>5. \/ /\ working \in {"none", "rotating"} /\ l = active /\ g.mute = FALSE
      \/ /\ working = "flushing" /\ l = active /\ retiring \in Legs /\ retiring # active /\ g.mute = TRUE
      \/ /\ working = "flushing" /\ l = retiring /\ active \in Legs /\ retiring # active /\ g.mute = FALSE
  BY <1>1, Connected DEF OrderInv, WordsInv
<1> DEFINE h == IF g.mute THEN held(n) ELSE told(n)
<1>6. h.st = "open" /\ h.mute = g.mute
  <2>1. held(n).st = "open" /\ held(n).mute = g.mute /\ told(n).st = "open" /\ told(n).mute = g.mute
    <3> HIDE DEF text, left
    <3> QED BY <1>1, <1>2 DEF IsLeg
  <2> HIDE DEF held, told
  <2> QED BY <2>1
<1>7. legs' = [legs EXCEPT ![l] = h] /\ seam' = IF g.mute THEN seam ELSE FilterFinal(seam, text(n))
  <2> HIDE DEF held, told, text
  <2> QED BY <1>3
<1>8. livePhase = "starting" => seam' = seam
  BY <1>5, LegsAre DEF OrderInv, LiveInv, PhaseInv
<1>9. CASE working \in {"none", "rotating"} /\ l = active /\ g.mute = FALSE
  <2>1. active # 0 /\ h = told(n) /\ seam' = FilterFinal(seam, text(n))
    BY <1>7, <1>9, LegsAre
  <2>2. Speaks(g, seam, TRUE, said)
    BY <1>1, <1>9, <2>1 DEF OrderInv, WordsInv
  <2>3. IsSeam(seam') /\ Reaches(seam', said) /\ Speaks(told(n), seam', TRUE, said)
    BY <1>2, <1>3, <1>4, <2>1, <2>2, FinalSpeaks
  <2>4. (h.st = "open") = TRUE
    BY <1>6
  <2> HIDE DEF h, told, held, text
  <2>5. Speaks(h, seam', h.st = "open", said) /\ working # "flushing"
    BY <1>9, <2>1, <2>3, <2>4
  <2> QED BY <1>1, <1>6, <1>7, <1>8, <2>3, <2>5, OneLegSpeaks
<1>10. CASE working = "flushing" /\ l = active /\ retiring \in Legs /\ retiring # active /\ g.mute = TRUE
  <2>1. h = held(n) /\ seam' = seam
    BY <1>7, <1>10
  <2>2. PICK q \in Nat \ {0}, w \in Nat :
          /\ w < q + OverlapWords /\ w <= said /\ Reaches(seam, w)
          /\ Speaks(legs[retiring], seam, FALSE, w) /\ HoldsBack(g, q, said)
    BY <1>10 DEF OrderInv, WordsInv, Flushes
  <2>3. HoldsBack(held(n), q, said)
    BY <1>2, <1>3, <1>4, <2>2, FinalHolds
  <2> HIDE DEF h, told, held, text
  <2>4. Flushes(seam', IF l = retiring THEN h ELSE legs[retiring], IF l = active THEN h ELSE legs[active], said)
    BY <1>10, <2>1, <2>2, <2>3 DEF Flushes
  <2> QED BY <1>1, <1>4, <1>6, <1>7, <1>8, <1>10, <2>1, <2>4, OneLegSpeaks
<1>11. CASE working = "flushing" /\ l = retiring /\ active \in Legs /\ retiring # active /\ g.mute = FALSE
  <2>1. h = told(n) /\ seam' = FilterFinal(seam, text(n))
    BY <1>7, <1>11
  <2>2. PICK q \in Nat \ {0}, w \in Nat :
          /\ w < q + OverlapWords /\ w <= said /\ Reaches(seam, w)
          /\ Speaks(g, seam, FALSE, w) /\ HoldsBack(legs[active], q, said)
    BY <1>11 DEF OrderInv, WordsInv, Flushes
  <2>3. IsSeam(seam') /\ Reaches(seam', w) /\ Speaks(told(n), seam', FALSE, w)
    BY <1>2, <1>3, <1>4, <2>1, <2>2, FinalSpeaks
  <2> HIDE DEF h, told, held, text
  <2>4. Flushes(seam', IF l = retiring THEN h ELSE legs[retiring], IF l = active THEN h ELSE legs[active], said)
    BY <1>11, <2>1, <2>2, <2>3 DEF Flushes
  <2>5. Reaches(seam', said)
    <3>1. seam'.out \in Seq(Nat)
      BY <2>3 DEF IsSeam
    <3>2. Len(seam'.out) \in Nat
      BY <3>1, LenProperties
    <3> QED BY <1>4, <2>2, <2>3, <3>2 DEF Reaches
  <2> QED BY <1>1, <1>6, <1>7, <1>8, <1>11, <2>3, <2>4, <2>5, OneLegSpeaks
<1> QED BY <1>5, <1>9, <1>10, <1>11

\* The state of a connected leg changes: what it hears ends here.
LEMMA GoneWords ==
  ASSUME OrderInv, NEW l \in Legs, NEW st \in {"dropped", "closed"}, legs[l].st \in {"open", "dropped", "closed"},
         legs' = [legs EXCEPT ![l] = [legs[l] EXCEPT !.st = st]],
         UNCHANGED <<active, retiring, working, livePhase, said, seam>>
  PROVE  WordsInv'
<1> DEFINE g == legs[l]
           h == [g EXCEPT !.st = st]
<1>1. IsLeg(g)
  BY LegFacts DEF OrderInv
<1>2. h.st = st /\ h.heard = g.heard /\ h.pending = g.pending /\ h.held = g.held /\ h.mute = g.mute
  BY <1>1 DEF IsLeg
<1>3. IsSeam(seam) /\ Reaches(seam, said) /\ said \in Nat
  BY DEF OrderInv, WordsInv
<1>4. \/ /\ working \in {"none", "rotating"} /\ l = active
      \/ /\ working = "flushing" /\ l = active /\ retiring \in Legs /\ retiring # active
      \/ /\ working = "flushing" /\ l = retiring /\ active \in Legs /\ retiring # active
  BY Connected DEF OrderInv, WordsInv
<1> HIDE DEF h
<1>5. working \in {"none", "rotating"} /\ l = active => Speaks(h, seam, h.st = "open", said)
  <2> SUFFICES ASSUME working \in {"none", "rotating"}, l = active PROVE Speaks(h, seam, h.st = "open", said)
    OBVIOUS
  <2>1. Speaks(g, seam, g.st = "open", said)
    BY LegsAre DEF OrderInv, WordsInv
  <2>2. said <= said
    BY <1>3
  <2>3. Speaks(h, seam, FALSE, said)
    <3> HIDE DEF g
    <3> QED BY <1>2, <1>3, <2>1, <2>2, MissesNext
  <2>4. (h.st = "open") = FALSE
    BY <1>2
  <2> QED BY <2>3, <2>4
<1>6. working = "flushing" => Flushes(seam, IF l = retiring THEN h ELSE legs[retiring],
                                            IF l = active THEN h ELSE legs[active], said)
  <2> SUFFICES ASSUME working = "flushing"
               PROVE  Flushes(seam, IF l = retiring THEN h ELSE legs[retiring], IF l = active THEN h ELSE legs[active], said)
    OBVIOUS
  <2>1. PICK q \in Nat \ {0}, w \in Nat :
          /\ w < q + OverlapWords /\ w <= said /\ Reaches(seam, w)
          /\ Speaks(legs[retiring], seam, FALSE, w) /\ HoldsBack(legs[active], q, said)
    BY DEF OrderInv, WordsInv, Flushes
  <2>2. CASE l = active /\ retiring # active
    <3>1. HoldsBack(g, q, said) /\ said <= said /\ h.st # "open"
      BY <1>2, <1>3, <2>1, <2>2
    <3>2. HoldsBack(h, q, said)
      <4> HIDE DEF g
      <4> QED BY <1>2, <1>3, <3>1, HoldsOn
    <3> QED BY <2>1, <2>2, <3>2 DEF Flushes
  <2>3. CASE l = retiring /\ retiring # active
    <3>0. Speaks(g, seam, FALSE, w)
      BY <2>1, <2>3
    <3>1. w <= w
      OBVIOUS
    <3>2. Speaks(h, seam, FALSE, w)
      <4> HIDE DEF g
      <4> QED BY <1>2, <3>0, <3>1, MissesNext
    <3> QED BY <2>1, <2>3, <3>2 DEF Flushes
  <2> QED BY <1>4, <2>2, <2>3
<1>7. IsSeam(seam') /\ Reaches(seam', said) /\ (livePhase = "starting" => seam' = seam)
      /\ (working \in {"none", "rotating"} /\ l = active => Speaks(h, seam', h.st = "open", said))
      /\ (working = "flushing" => Flushes(seam', IF l = retiring THEN h ELSE legs[retiring],
                                            IF l = active THEN h ELSE legs[active], said))
  BY <1>3, <1>5, <1>6
<1>8. h.st \in {"open", "dropped", "closed"} /\ h.mute = legs[l].mute
  BY <1>2
<1>9. legs' = [legs EXCEPT ![l] = h]
  BY DEF h
<1> HIDE DEF g
<1> QED BY <1>7, <1>8, <1>9, OneLegSpeaks

LEMMA DropWords == ASSUME OrderInv, NEW l \in Legs, Drop(l) PROVE WordsInv'
<1>1. legs[l].st = "open" /\ legs' = [legs EXCEPT ![l].st = "dropped"]
      /\ UNCHANGED <<active, retiring, working, livePhase, said, seam>>
  BY DEF Drop
<1>2. [legs EXCEPT ![l].st = "dropped"] = [legs EXCEPT ![l] = [legs[l] EXCEPT !.st = "dropped"]]
  BY DEF OrderInv, LiveInv, AreLegs
<1> QED BY <1>1, <1>2, GoneWords

LEMMA OnCloseWords == ASSUME OrderInv, NEW l \in Legs, OnClose(l) PROVE WordsInv'
<1> DEFINE g == [legs[l] EXCEPT !.st = "closed"]
           lg == [legs EXCEPT ![l] = g]
<1>0. [legs EXCEPT ![l] = Closed(@)] = lg
  BY DEF Closed
<1>1. legs[l].st = "dropped" /\ said' = said /\ said \in Nat
  BY DEF OnClose, OrderInv, WordsInv
<1>2. IsLeg(legs[l])
  BY LegFacts DEF OrderInv
<1>3. IsLeg(g) /\ g.st = "closed" /\ g.pending = legs[l].pending /\ g.heard = legs[l].heard
  BY <1>2 DEF IsLeg, LegStates
<1> HIDE DEF g
<1>4. AreLegs(lg) /\ lg[l] = g /\ \A k \in Legs : lg[k].st = IF k = l THEN "closed" ELSE legs[k].st
  BY <1>3 DEF OrderInv, LiveInv, AreLegs
<1>5. CASE livePhase = "running" /\ l = active /\ working = "none"
  <2>1. Recover(lg, l, seam)
    BY <1>0, <1>5 DEF OnClose
  <2>2. \A k \in Legs \ {l} : lg[k].st = "none"
    BY <1>4, <1>5, LegsAre DEF OrderInv, LiveInv, NamedLegs, WorkInv, SomeOpening
  <2>3. Speaks(legs[l], seam, legs[l].st = "open", said) /\ IsSeam(seam) /\ Reaches(seam, said)
    BY <1>5, LegsAre DEF OrderInv, WordsInv
  <2>4. Speaks(g, seam, FALSE, said)
    <3>1. said <= said
      BY <1>1
    <3> QED BY <1>1, <1>3, <2>3, <3>1, MissesNext
  <2>5. IsSeam(LegSettled(seam, lg[l])) /\ Reaches(LegSettled(seam, lg[l]), said)
    BY <1>1, <1>4, <2>3, <2>4, SettledFits
  <2> HIDE DEF lg
  <2> QED BY <1>1, <1>4, <1>5, <2>1, <2>2, <2>5, RecoverWords
<1>6. CASE ~(livePhase = "running" /\ l = active /\ working = "none")
  <2>1. legs' = [legs EXCEPT ![l] = [legs[l] EXCEPT !.st = "closed"]]
        /\ UNCHANGED <<active, retiring, working, livePhase, said, seam>>
    BY <1>0, <1>6 DEF OnClose, g
  <2> QED BY <1>1, <2>1, GoneWords
<1> QED BY <1>5, <1>6

LEMMA PushWords == ASSUME OrderInv, PushAudio PROVE WordsInv'
<1>1. /\ said \in Nat /\ said' = said + 1 /\ said + 1 \in Nat /\ said <= said + 1
      /\ UNCHANGED <<active, retiring, working, livePhase, seam>> /\ livePhase = "running"
      /\ IsSeam(seam) /\ Reaches(seam, said)
  BY DEF PushAudio, OrderInv, WordsInv
<1>2. Reaches(seam', said')
  <2>1. seam.out \in Seq(Nat)
    BY <1>1 DEF IsSeam
  <2>2. Len(seam.out) \in Nat
    BY <2>1, LenProperties
  <2> QED BY <1>1, <2>2 DEF Reaches
<1>3. active # 0 => active \in Legs /\ IsLeg(legs[active])
  BY LegFacts DEF OrderInv, LiveInv, NamedLegs
<1>4. working = "flushing" => active \in Legs /\ retiring \in Legs /\ retiring # active
  BY DEF OrderInv, LiveInv, WorkInv, NamedLegs
<1> DEFINE g == legs[active]
           h == [g EXCEPT !.heard = Append(g.heard, said + 1)]
<1>5. CASE active # 0 /\ g.st = "open"
  <2>1. legs' = [legs EXCEPT ![active] = h]
    BY <1>3, <1>5 DEF PushAudio, OrderInv, LiveInv, AreLegs
  <2>2. legs'[active] = h /\ \A k \in Legs \ {active} : legs'[k] = legs[k]
    <3> HIDE DEF h
    <3> QED BY <1>3, <1>5, <2>1, LegFacts DEF OrderInv
  <2>3. h.st = "open" /\ h.mute = g.mute
    BY <1>3, <1>5 DEF IsLeg
  <2>4. Mutes'
    <3> HIDE DEF h
    <3>1. \A k \in Legs : \/ legs'[k] = legs[k]
                          \/ /\ legs[k].st \in {"open", "dropped", "closed"} /\ legs'[k].st \in {"open", "dropped", "closed"}
                             /\ legs'[k].mute = legs[k].mute
      BY <1>5, <2>2, <2>3
    <3> QED BY <1>1, <3>1, MutesStay DEF OrderInv, WordsInv
  <2>5. working \in {"none", "rotating"} => Speaks(legs'[active], seam, TRUE, said + 1)
    <3> SUFFICES ASSUME working \in {"none", "rotating"} PROVE Speaks(legs'[active], seam, TRUE, said + 1)
      OBVIOUS
    <3>1. Speaks(g, seam, TRUE, said)
      BY <1>5 DEF OrderInv, WordsInv
    <3>2. IsLeg(g)
      BY <1>3, <1>5
    <3>3. Speaks(h, seam, TRUE, said + 1)
      <4> HIDE DEF g
      <4> QED BY <1>1, <3>1, <3>2, HearsNext
    <3> HIDE DEF h, g
    <3> QED BY <2>2, <3>3
  <2>6. working = "flushing" => Flushes(seam, legs'[retiring], legs'[active], said + 1)
    <3> SUFFICES ASSUME working = "flushing" PROVE Flushes(seam, legs'[retiring], legs'[active], said + 1)
      OBVIOUS
    <3>1. PICK q \in Nat \ {0}, w \in Nat :
            /\ w < q + OverlapWords /\ w <= said /\ Reaches(seam, w)
            /\ Speaks(legs[retiring], seam, FALSE, w) /\ HoldsBack(g, q, said)
      BY DEF OrderInv, WordsInv, Flushes
    <3>2. HoldsBack(h, q, said + 1)
      BY <1>1, <1>3, <1>5, <3>1, HoldsNext
    <3>3. w <= said + 1 /\ legs'[retiring] = legs[retiring] /\ legs'[active] = h
      BY <1>1, <1>4, <2>2, <3>1
    <3> HIDE DEF h, g
    <3> QED BY <3>1, <3>2, <3>3 DEF Flushes
  <2>7. (legs'[active].st = "open") = TRUE
    BY <2>2, <2>3
  <2> HIDE DEF h, g
  <2>8. working' \in {"none", "rotating"} /\ active' # 0 => Speaks(legs'[active'], seam', legs'[active'].st = "open", said')
    BY <1>1, <2>5, <2>7
  <2>9. working' = "flushing" => Flushes(seam', legs'[retiring'], legs'[active'], said')
    BY <1>1, <2>6
  <2> QED BY <1>1, <1>2, <2>4, <2>8, <2>9 DEF WordsInv
<1>6. CASE ~(active # 0 /\ g.st = "open")
  <2>1. legs' = legs
    BY <1>6 DEF PushAudio
  <2>2. Mutes'
    BY <1>1, <2>1, MutesStay DEF OrderInv, WordsInv
  <2>3. working \in {"none", "rotating"} /\ active # 0 => Speaks(g, seam, g.st = "open", said + 1)
    <3> SUFFICES ASSUME working \in {"none", "rotating"}, active # 0 PROVE Speaks(g, seam, g.st = "open", said + 1)
      OBVIOUS
    <3>1. Speaks(g, seam, g.st = "open", said)
      BY DEF OrderInv, WordsInv
    <3>2. Speaks(g, seam, FALSE, said + 1)
      <4> HIDE DEF g
      <4> QED BY <1>1, <3>1, MissesNext
    <3>3. (g.st = "open") = FALSE
      BY <1>6
    <3> QED BY <3>2, <3>3
  <2>4. working = "flushing" => Flushes(seam, legs[retiring], g, said + 1)
    <3> SUFFICES ASSUME working = "flushing" PROVE Flushes(seam, legs[retiring], g, said + 1)
      OBVIOUS
    <3>1. PICK q \in Nat \ {0}, w \in Nat :
            /\ w < q + OverlapWords /\ w <= said /\ Reaches(seam, w)
            /\ Speaks(legs[retiring], seam, FALSE, w) /\ HoldsBack(g, q, said)
      BY DEF OrderInv, WordsInv, Flushes
    <3>2. g.st # "open"
      BY <1>4, <1>6, LegsAre
    <3>3. HoldsBack(g, q, said + 1) /\ w <= said + 1
      <4> HIDE DEF g
      <4>1. HoldsBack(g, q, said + 1)
        BY <1>1, <3>1, <3>2, HoldsOn
      <4> QED BY <1>1, <3>1, <4>1
    <3> HIDE DEF g
    <3> QED BY <3>1, <3>3 DEF Flushes
  <2>5. working' \in {"none", "rotating"} /\ active' # 0 => Speaks(legs'[active'], seam', legs'[active'].st = "open", said')
    BY <1>1, <2>1, <2>3
  <2>6. working' = "flushing" => Flushes(seam', legs'[retiring'], legs'[active'], said')
    BY <1>1, <2>1, <2>4
  <2> HIDE DEF g
  <2> QED BY <1>1, <1>2, <2>2, <2>5, <2>6 DEF WordsInv
<1> QED BY <1>5, <1>6

\* What opening a leg and letting it speak leave as it was.
LEMMA LegOpened ==
  ASSUME NEW g, IsLeg(g), NEW x
  PROVE  LET h == [[g EXCEPT !.st = "open"] EXCEPT !.heard = x] IN
         IsLeg(h) /\ h.st = "open" /\ h.heard = x /\ h.pending = g.pending /\ h.held = g.held /\ h.mute = g.mute
<1> DEFINE o == [g EXCEPT !.st = "open"]
<1>1. IsLeg(o) /\ o.st = "open"
  BY LegUpdates DEF LegStates
<1>2. o.pending = g.pending /\ o.held = g.held /\ o.mute = g.mute
  BY DEF IsLeg
<1> HIDE DEF o
<1>3. IsLeg([o EXCEPT !.heard = x]) /\ [o EXCEPT !.heard = x].st = "open"
  BY <1>1, LegUpdates
<1>4. /\ [o EXCEPT !.heard = x].heard = x /\ [o EXCEPT !.heard = x].pending = o.pending
      /\ [o EXCEPT !.heard = x].held = o.held /\ [o EXCEPT !.heard = x].mute = o.mute
  BY <1>1 DEF IsLeg
<1> QED BY <1>2, <1>3, <1>4 DEF o

LEMMA LegReleased ==
  ASSUME NEW g, IsLeg(g), NEW x
  PROVE  LET h == [g EXCEPT !.mute = FALSE, !.held = <<>>, !.pending = x] IN IsLeg(h) /\ h.st = g.st /\ h.mute = FALSE
<1> DEFINE a == [g EXCEPT !.mute = FALSE]
           b == [a EXCEPT !.held = <<>>]
           h == [b EXCEPT !.pending = x]
<1>1. IsLeg(a) /\ a.st = g.st
  BY LegUpdates
<1>2. a.mute = FALSE
  BY DEF IsLeg
<1> HIDE DEF a
<1>3. IsLeg(b) /\ b.st = a.st
  BY <1>1, LegUpdates
<1>4. b.mute = a.mute
  BY <1>1 DEF IsLeg
<1> HIDE DEF b
<1>5. IsLeg(h) /\ h.st = b.st
  BY <1>3, LegUpdates
<1>6. h.mute = b.mute
  BY <1>3 DEF IsLeg
<1>7. [g EXCEPT !.mute = FALSE, !.held = <<>>, !.pending = x] = h
  BY DEF a, b, h
<1> HIDE DEF h
<1> QED BY <1>1, <1>2, <1>3, <1>4, <1>5, <1>6, <1>7

LEMMA RotateLegWords == ASSUME OrderInv, RotateLeg PROVE WordsInv'
<1>1. livePhase = "running" /\ working = "none" /\ active # 0 /\ active \in Legs /\ retiring = 0
      /\ legs[active].st \in {"open", "dropped"} /\ \A k \in Legs \ {active} : legs[k].st = "none"
  BY LegsAre DEF RotateLeg, OrderInv, LiveInv, NamedLegs, WorkInv, PhaseInv, SomeOpening
<1>2. legs' = Opening(legs, TRUE) /\ working' = "rotating" /\ UNCHANGED <<active, livePhase, said, seam>>
  BY DEF RotateLeg
<1>3. \E k \in Legs : legs[k].st = "none"
  BY <1>1, LegsAre
<1>4. PICK k \in Legs : legs[k].st = "none" /\ Opening(legs, TRUE) = [legs EXCEPT ![k] = Leg("opening", TRUE)]
  BY <1>3, OpeningTakesOne DEF OrderInv, LiveInv
<1>5. Leg("opening", TRUE).st = "opening"
  BY LegIsLeg DEF LegStates
<1>6. legs'[k] = Leg("opening", TRUE) /\ \A l \in Legs \ {k} : legs'[l] = legs[l]
  <2> DEFINE fresh == Leg("opening", TRUE)
  <2>1. legs' = [legs EXCEPT ![k] = fresh]
    BY <1>2, <1>4
  <2>2. LiveInv
    BY DEF OrderInv
  <2> HIDE DEF fresh
  <2>3. legs'[k] = fresh /\ \A l \in Legs \ {k} : legs'[l] = legs[l]
    BY <2>1, <2>2, LegFacts
  <2> QED BY <2>3 DEF fresh
<1>7. k # active
  BY <1>1, <1>4
<1>8. Mutes'
  <2>1. \A l \in Legs : /\ legs'[l].st \in {"open", "dropped", "closed"} => l # k /\ legs'[l] = legs[l]
                        /\ legs'[l].st = "opening" => l = k
    BY <1>1, <1>5, <1>6
  <2> QED BY <1>1, <1>2, <1>6, <2>1 DEF Mutes, OrderInv, WordsInv
<1>9. Speaks(legs[active], seam, legs[active].st = "open", said) /\ legs'[active] = legs[active]
  BY <1>1, <1>6, <1>7 DEF OrderInv, WordsInv
<1> QED BY <1>1, <1>2, <1>8, <1>9 DEF OrderInv, WordsInv

LEMMA TakeOverWords ==
  ASSUME OrderInv, NEW lg, AreLegs(lg), NEW old \in Legs, NEW new \in Legs, NEW s, TakeOver(lg, old, new, s),
         old # new, lg[new].st \in {"open", "dropped", "closed"}, livePhase \in {"running", "stopping"},
         \A l \in Legs \ {old, new} : lg[l].st = "none", said' = said,
         NEW q \in Nat \ {0}, NEW v \in Nat, HoldsBack(lg[new], q, said), IsSeam(s), Reaches(s, v),
         v < q + OverlapWords, v <= said
  PROVE  WordsInv'
<1> DEFINE rel == Release(Begin(s), lg[new].held)
           g == [lg[new] EXCEPT !.mute = FALSE, !.held = <<>>, !.pending = rel.pending]
           done == [lg EXCEPT ![old] = NoLeg, ![new] = [@ EXCEPT !.mute = FALSE, !.held = <<>>, !.pending = rel.pending]]
<1>0. said \in Nat
  BY DEF OrderInv, WordsInv
<1>1. IsLeg(lg[new])
  BY DEF AreLegs
<1>2. IsLeg(g) /\ g.st = lg[new].st /\ g.mute = FALSE
  <2> HIDE DEF rel
  <2> QED BY <1>1, LegReleased
<1>3. IsSeam(rel.seam) /\ Reaches(rel.seam, said) /\ Speaks(g, rel.seam, g.st = "open", said)
  <2>1. livePhase # "disposed"
    OBVIOUS
  <2>2. /\ IsSeam(rel.seam) /\ Reaches(rel.seam, said)
        /\ Speaks(g, rel.seam, lg[new].st = "open", said)
    BY <1>0, <1>1, <2>1, SpeaksAtLast
  <2>3. (lg[new].st = "open") = (g.st = "open")
    BY <1>2
  <2> HIDE DEF g, rel
  <2> QED BY <2>2, <2>3
<1>4. AreLegs(done) /\ done[new] = g /\ done[old] = NoLeg /\ \A l \in Legs \ {old, new} : done[l] = lg[l]
  <2>1. done = [[lg EXCEPT ![old] = NoLeg] EXCEPT ![new] = g]
    BY DEF AreLegs
  <2>2. AreLegs([lg EXCEPT ![old] = NoLeg])
    BY OneLegUpdated, NoLegIsLeg
  <2> HIDE DEF done, g
  <2>3. AreLegs(done)
    BY <1>2, <2>1, <2>2, OneLegUpdated
  <2> QED BY <2>1, <2>3 DEF AreLegs
<1> HIDE DEF g, done
<1>5. CASE lg[new].st = "closed"
  <2>1. Recover(done, new, rel.seam)
    BY <1>5 DEF TakeOver, done
  <2> HIDE DEF rel
  <2>2. IsSeam(LegSettled(rel.seam, g)) /\ Reaches(LegSettled(rel.seam, g), said)
    BY <1>0, <1>3, SettledFits
  <2>3. \A l \in Legs \ {new} : done[l].st = "none"
    BY <1>4, NoLegIsLeg
  <2> QED BY <1>0, <1>4, <2>1, <2>2, <2>3, RecoverWords
<1>6. CASE lg[new].st # "closed"
  <2>1. legs' = done /\ seam' = rel.seam /\ active' = new /\ working' = "none" /\ livePhase' = livePhase
    BY <1>6 DEF TakeOver, done
  <2> HIDE DEF rel
  <2>2. \A l \in Legs : legs'[l].st = IF l = new THEN lg[new].st ELSE "none"
    BY <1>2, <1>4, <2>1, NoLegIsLeg
  <2>3. legs'[new] = g
    BY <1>4, <2>1
  <2>4. Mutes'
    BY <1>2, <2>1, <2>2, <2>3 DEF Mutes
  <2>5. Speaks(legs'[active'], seam', legs'[active'].st = "open", said')
    BY <1>3, <2>1, <2>3
  <2>6. IsSeam(seam') /\ Reaches(seam', said') /\ said' \in Nat
    BY <1>0, <1>3, <2>1
  <2> QED BY <2>1, <2>4, <2>5, <2>6 DEF WordsInv
<1> QED BY <1>5, <1>6

LEMMA RotateFlushedWords == ASSUME OrderInv, RotateFlushed PROVE WordsInv'
<1>1. working = "flushing" /\ active \in Legs /\ retiring \in Legs /\ active # retiring
      /\ legs[active].st \in {"open", "dropped", "closed"} /\ livePhase \in {"running", "stopping"}
      /\ \A l \in Legs \ {active, retiring} : legs[l].st = "none"
  BY LegsAre DEF RotateFlushed, OrderInv, LiveInv, NamedLegs, WorkInv, PhaseInv, SomeOpening
<1> DEFINE s == LegSettled(seam, legs[retiring])
<1>2. TakeOver(legs, retiring, active, s) /\ said' = said
  BY DEF RotateFlushed
<1>3. PICK q \in Nat \ {0}, w \in Nat :
        /\ w < q + OverlapWords /\ w <= said /\ Reaches(seam, w)
        /\ Speaks(legs[retiring], seam, FALSE, w) /\ HoldsBack(legs[active], q, said)
  BY <1>1 DEF OrderInv, WordsInv, Flushes
<1>4. IsSeam(seam)
  BY DEF OrderInv, WordsInv
<1>5. IsSeam(s) /\ Reaches(s, w)
  BY <1>3, <1>4, SettledFits
<1> HIDE DEF s
<1>6. AreLegs(legs)
  BY DEF OrderInv, LiveInv
<1> QED BY <1>1, <1>2, <1>3, <1>5, <1>6, TakeOverWords

LEMMA RotateOpenedWords == ASSUME OrderInv, NEW l \in Legs, RotateOpened(l) PROVE WordsInv'
<1> DEFINE g == [[legs[l] EXCEPT !.st = "open"] EXCEPT !.heard = Replay(OverlapWords)]
           lg == [legs EXCEPT ![l] = g]
<1>1. working = "rotating" /\ legs[l].st = "opening" /\ active \in Legs /\ active # 0 /\ retiring = 0 /\ active # l
      /\ legs[active].st \in {"open", "dropped", "closed"} /\ livePhase \in {"running", "stopping"}
  BY LegsAre DEF RotateOpened, OrderInv, LiveInv, NamedLegs, WorkInv, PhaseInv
<1>2. \A k \in Legs \ {l, active} : legs[k].st = "none"
  BY <1>1, LegsAre DEF OrderInv, LiveInv, NamedLegs
<1>3. legs[l] = Leg("opening", TRUE)
  BY <1>1 DEF OrderInv, WordsInv, Mutes
<1>4. IsLeg(g) /\ g.st = "open" /\ g.heard = Replay(OverlapWords) /\ g.held = <<>> /\ g.pending = <<>> /\ g.mute = TRUE
  <2>1. legs[l] = [st |-> "opening", heard |-> <<>>, pending |-> <<>>, held |-> <<>>, mute |-> TRUE]
    BY <1>3 DEF Leg
  <2>2. IsLeg(legs[l]) /\ legs[l].pending = <<>> /\ legs[l].held = <<>> /\ legs[l].mute = TRUE
    BY <2>1 DEF OrderInv, LiveInv, AreLegs
  <2>3. IsLeg(legs[l])
    BY <2>2
  <2>4. /\ IsLeg(g) /\ g.st = "open" /\ g.heard = Replay(OverlapWords)
        /\ g.pending = legs[l].pending /\ g.held = legs[l].held /\ g.mute = legs[l].mute
    BY <2>3, LegOpened, ZenonT(60)
  <2> HIDE DEF g
  <2> QED BY <2>2, <2>4, Zenon
<1> HIDE DEF g
<1>5. AreLegs(lg) /\ lg[l] = g /\ \A k \in Legs : lg[k] = IF k = l THEN g ELSE legs[k]
  BY <1>4, OneLegUpdated DEF OrderInv, LiveInv
<1>6. [legs EXCEPT ![l].st = "open", ![l].heard = Replay(OverlapWords)] = lg
  <2>1. [legs EXCEPT ![l].st = "open", ![l].heard = Replay(OverlapWords)]
          = [[legs EXCEPT ![l].st = "open"] EXCEPT ![l].heard = Replay(OverlapWords)]
    OBVIOUS
  <2>2. [legs EXCEPT ![l].st = "open"] = [legs EXCEPT ![l] = [legs[l] EXCEPT !.st = "open"]]
    BY DEF OrderInv, LiveInv, AreLegs
  <2>3. [[legs EXCEPT ![l].st = "open"] EXCEPT ![l].heard = Replay(OverlapWords)]
          = [legs EXCEPT ![l] = [[legs[l] EXCEPT !.st = "open"] EXCEPT !.heard = Replay(OverlapWords)]]
    BY <2>2 DEF OrderInv, LiveInv, AreLegs
  <2> QED BY <2>1, <2>3 DEF g
<1> HIDE DEF lg
<1>7. IsSeam(seam) /\ said \in Nat /\ Reaches(seam, said) /\ said' = said
      /\ Speaks(legs[active], seam, legs[active].st = "open", said)
  BY <1>1 DEF OrderInv, WordsInv, RotateOpened
<1>8. PICK q \in Nat \ {0} : said < q + OverlapWords /\ HoldsBack(g, q, said)
  BY <1>4, <1>7, ReplayHolds
<1>9. CASE legs[active].st = "closed"
  <2>1. TakeOver(lg, active, l, seam)
    BY <1>6, <1>9 DEF RotateOpened
  <2>2. \A k \in Legs \ {active, l} : lg[k].st = "none"
    BY <1>2, <1>5
  <2>3. HoldsBack(lg[l], q, said) /\ lg[l].st \in {"open", "dropped", "closed"}
    BY <1>4, <1>5, <1>8
  <2>4. said <= said
    BY <1>7
  <2> QED BY <1>1, <1>5, <1>7, <1>8, <2>1, <2>2, <2>3, <2>4, TakeOverWords
<1>10. CASE legs[active].st # "closed"
  <2>1. legs' = lg /\ active' = l /\ retiring' = active /\ working' = "flushing" /\ UNCHANGED <<livePhase, seam>>
    BY <1>6, <1>10 DEF RotateOpened
  <2>2. Mutes'
    <3>1. legs[active].mute = FALSE
      BY <1>1, Connected DEF OrderInv, WordsInv
    <3>2. \A k \in Legs : /\ legs'[k].st \in {"open", "dropped", "closed"} => k = l \/ k = active
                          /\ legs'[k].st # "opening"
      BY <1>1, <1>2, <1>4, <1>5, <2>1
    <3>3. legs'[l].mute = TRUE /\ legs'[active].mute = FALSE
      BY <1>1, <1>4, <1>5, <2>1, <3>1
    <3> QED BY <1>1, <2>1, <3>2, <3>3 DEF Mutes
  <2>3. Flushes(seam', legs'[retiring'], legs'[active'], said')
    <3>1. said <= said
      BY <1>7
    <3>2. Speaks(legs[active], seam, FALSE, said)
      BY <1>7, <3>1, MissesNext
    <3>3. legs'[retiring'] = legs[active] /\ legs'[active'] = g
      BY <1>1, <1>5, <2>1
    <3> QED BY <1>7, <1>8, <2>1, <3>1, <3>2, <3>3 DEF Flushes
  <2> QED BY <1>1, <1>7, <2>1, <2>2, <2>3 DEF WordsInv
<1> QED BY <1>9, <1>10

LEMMA RecoverOpenedWords == ASSUME OrderInv, NEW l \in Legs, RecoverOpened(l) PROVE WordsInv'
<1> DEFINE g == [[legs[l] EXCEPT !.st = "open"] EXCEPT !.heard = Replay(RingWords)]
           lg == [legs EXCEPT ![l] = g]
<1>1. working = "recovering" /\ legs[l].st = "opening" /\ l # 0
      /\ livePhase \in {"running", "stopping"} /\ \A k \in Legs \ {l} : legs[k].st = "none"
  BY LegsAre DEF RecoverOpened, OrderInv, LiveInv, NamedLegs, WorkInv, PhaseInv
<1>2. legs[l] = Leg("opening", FALSE)
  BY <1>1 DEF OrderInv, WordsInv, Mutes
<1>3. IsLeg(g) /\ g.st = "open" /\ g.heard = Replay(RingWords) /\ g.pending = <<>> /\ g.mute = FALSE
  <2>1. legs[l] = [st |-> "opening", heard |-> <<>>, pending |-> <<>>, held |-> <<>>, mute |-> FALSE]
    BY <1>2 DEF Leg
  <2>2. IsLeg(legs[l]) /\ legs[l].pending = <<>> /\ legs[l].held = <<>> /\ legs[l].mute = FALSE
    BY <2>1 DEF OrderInv, LiveInv, AreLegs
  <2>3. IsLeg(legs[l])
    BY <2>2
  <2>4. /\ IsLeg(g) /\ g.st = "open" /\ g.heard = Replay(RingWords)
        /\ g.pending = legs[l].pending /\ g.held = legs[l].held /\ g.mute = legs[l].mute
    BY <2>3, LegOpened, ZenonT(60)
  <2> HIDE DEF g
  <2> QED BY <2>2, <2>4, Zenon
<1> HIDE DEF g
<1>4. AreLegs(lg) /\ lg[l] = g /\ \A k \in Legs : lg[k] = IF k = l THEN g ELSE legs[k]
  BY <1>3, OneLegUpdated DEF OrderInv, LiveInv
<1>5. [legs EXCEPT ![l].st = "open", ![l].heard = Replay(RingWords)] = lg
  <2>1. [legs EXCEPT ![l].st = "open", ![l].heard = Replay(RingWords)]
          = [[legs EXCEPT ![l].st = "open"] EXCEPT ![l].heard = Replay(RingWords)]
    OBVIOUS
  <2>2. [legs EXCEPT ![l].st = "open"] = [legs EXCEPT ![l] = [legs[l] EXCEPT !.st = "open"]]
    BY DEF OrderInv, LiveInv, AreLegs
  <2>3. [[legs EXCEPT ![l].st = "open"] EXCEPT ![l].heard = Replay(RingWords)]
          = [legs EXCEPT ![l] = [[legs[l] EXCEPT !.st = "open"] EXCEPT !.heard = Replay(RingWords)]]
    BY <2>2 DEF OrderInv, LiveInv, AreLegs
  <2> QED BY <2>1, <2>3 DEF g
<1> HIDE DEF lg
<1>6. legs' = lg /\ active' = l /\ working' = "none" /\ seam' = Begin(seam) /\ UNCHANGED <<livePhase, said>>
  BY <1>5 DEF RecoverOpened
<1>7. IsSeam(seam) /\ said \in Nat /\ Reaches(seam, said)
  BY DEF OrderInv, WordsInv
<1>8. IsSeam(seam') /\ Reaches(seam', said) /\ Speaks(g, seam', TRUE, said)
  <2>1. RingWords \in Nat /\ RingWords <= SeamWords
    BY LiveNumbers
  <2> QED BY <1>3, <1>6, <1>7, <2>1, ReplaySpeaks
<1>9. \A k \in Legs : legs'[k].st = IF k = l THEN "open" ELSE "none"
  BY <1>1, <1>3, <1>4, <1>6
<1>10. Mutes'
  BY <1>3, <1>4, <1>6, <1>9 DEF Mutes
<1>11. legs'[active'] = g /\ (legs'[active'].st = "open") = TRUE
  BY <1>3, <1>4, <1>6
<1>12. Speaks(legs'[active'], seam', legs'[active'].st = "open", said')
  BY <1>6, <1>8, <1>11
<1> QED BY <1>1, <1>6, <1>7, <1>8, <1>10, <1>12 DEF WordsInv

LEMMA LegOpenFailsWords == ASSUME OrderInv, NEW l \in Legs, LegOpenFails(l) PROVE WordsInv'
<1> DEFINE lg == [legs EXCEPT ![l] = NoLeg]
<1>1. legs[l].st = "opening" /\ UNCHANGED <<said, seam>> /\ livePhase # "starting"
  BY DEF LegOpenFails
<1>2. IsSeam(seam) /\ said \in Nat /\ Reaches(seam, said)
  BY DEF OrderInv, WordsInv
<1>3. AreLegs(lg) /\ \A k \in Legs : lg[k] = IF k = l THEN NoLeg ELSE legs[k]
  BY NoLegIsLeg, OneLegUpdated DEF OrderInv, LiveInv
<1>4. CASE Dispose(lg)
  BY <1>1, <1>2, <1>3, <1>4, DisposedWords
<1>5. CASE working = "rotating" /\ legs' = lg /\ working' = "none" /\ UNCHANGED <<active, livePhase>>
  <2> HIDE DEF lg
  <2>1. active \in Legs /\ active # 0 /\ active # l /\ retiring = 0
        /\ \A k \in Legs \ {l, active} : legs[k].st = "none"
    BY <1>1, <1>5, LegsAre DEF OrderInv, LiveInv, WorkInv, NamedLegs
  <2>2. Mutes'
    <3>1. \A k \in Legs : /\ legs'[k].st # "opening"
                          /\ legs'[k].st \in {"open", "dropped", "closed"} => legs'[k] = legs[k] /\ legs[k].mute = FALSE
      <4> TAKE k \in Legs
      <4>1. CASE k = l
        BY <1>3, <1>5, <4>1, NoLegIsLeg
      <4>2. CASE k # l
        <5>1. legs'[k] = legs[k]
          BY <1>3, <1>5, <4>2
        <5>2. legs[k].st # "opening"
          BY <1>1, <4>2 DEF OrderInv, LiveInv, NamedLegs
        <5>3. legs[k].st \in {"open", "dropped", "closed"} => legs[k].mute = FALSE
          BY <1>5, Connected DEF OrderInv, WordsInv
        <5> QED BY <5>1, <5>2, <5>3
      <4> QED BY <4>1, <4>2
    <3> QED BY <1>5, <3>1 DEF Mutes
  <2>3. legs'[active] = legs[active]
    BY <1>3, <1>5, <2>1
  <2>4. Speaks(legs[active], seam, legs[active].st = "open", said)
    BY <1>5, <2>1 DEF OrderInv, WordsInv
  <2>5. livePhase \notin {"starting", "flushing"}
    BY <1>5 DEF OrderInv, LiveInv, PhaseInv
  <2> QED BY <1>1, <1>2, <1>5, <2>2, <2>3, <2>4, <2>5 DEF WordsInv
<1> QED BY <1>4, <1>5 DEF LegOpenFails

LEMMA OpenedTooLateWords == ASSUME OrderInv, NEW l \in Legs, OpenedTooLate(l) PROVE WordsInv'
<1>1. livePhase = "disposed" /\ legs' = [legs EXCEPT ![l] = NoLeg]
      /\ UNCHANGED <<active, retiring, working, livePhase, said, seam>>
  BY DEF OpenedTooLate
<1>2. working = "none" /\ active = 0
  BY <1>1 DEF OrderInv, LiveInv, PhaseInv
<1>3. \A k \in Legs : legs'[k] = IF k = l THEN NoLeg ELSE legs[k]
  BY <1>1, NoLegIsLeg, OneLegUpdated DEF OrderInv, LiveInv
<1>4. \A k \in Legs : legs'[k] = legs[k] \/ legs'[k].st = "none"
  BY <1>3, NoLegIsLeg
<1>5. Mutes'
  BY <1>1, <1>4, MutesStay DEF OrderInv, WordsInv
<1> QED BY <1>1, <1>2, <1>5 DEF OrderInv, WordsInv

LEMMA FirstOpenedWords == ASSUME OrderInv, FirstOpened PROVE WordsInv'
<1>1. livePhase = "starting" /\ 1 \in Legs /\ legs[1].st = "opening" /\ working = "none" /\ active = 0
      /\ UNCHANGED <<working, said, seam>>
  BY LegsAre DEF FirstOpened, OrderInv, LiveInv, PhaseInv
<1>2. \A k \in Legs \ {1} : legs[k].st = "none"
  BY <1>1, LegsAre DEF OrderInv, LiveInv, NamedLegs, WorkInv
<1>3. IsSeam(seam) /\ said \in Nat /\ Reaches(seam, said) /\ seam.expected = <<>>
  BY <1>1 DEF OrderInv, WordsInv
<1>4. CASE legs' = [legs EXCEPT ![1].st = "open"] /\ active' = 1 /\ livePhase' = "running"
  <2> DEFINE g == [legs[1] EXCEPT !.st = "open"]
  <2>1. legs[1] = [st |-> "opening", heard |-> <<>>, pending |-> <<>>, held |-> <<>>, mute |-> FALSE]
    <3>1. legs[1] = Leg("opening", FALSE)
      BY <1>1 DEF OrderInv, WordsInv, Mutes
    <3> QED BY <3>1 DEF Leg
  <2>2. IsLeg(legs[1])
    BY <1>1, LegFacts DEF OrderInv
  <2>3. IsLeg(g) /\ g.st = "open"
    BY <2>2, LegUpdates DEF LegStates
  <2>4. g.heard = <<>> /\ g.pending = <<>>
    BY <2>1
  <2>5. g.mute = FALSE
    BY <2>1
  <2>6. legs' = [legs EXCEPT ![1] = g]
    BY <1>4 DEF OrderInv, LiveInv, AreLegs
  <2> HIDE DEF g
  <2>7. legs'[1] = g /\ \A k \in Legs \ {1} : legs'[k] = legs[k]
    BY <1>1, <2>6, LegFacts DEF OrderInv
  <2>8. Mutes'
    <3>1. \A k \in Legs : legs'[k].st = IF k = 1 THEN "open" ELSE "none"
      BY <1>2, <2>3, <2>7
    <3> QED BY <1>1, <2>5, <2>7, <3>1 DEF Mutes
  <2>9. Fits(seam, said + 1)
    <3>1. Len(<<>>) = 0
      BY EmptySeq
    <3>2. Exact(seam.out) => Len(seam.out) \in Nat /\ Len(seam.out) <= said
      BY <1>3, LenProperties DEF IsSeam, Reaches
    <3>3. Exact(seam.out) => <<>> = Run(Len(seam.out) - 0 + 1, 0)
      <4>1. Exact(seam.out) => Len(seam.out) - 0 + 1 \in Nat
        BY <3>2
      <4> QED BY <4>1, NoRun
    <3>4. Exact(seam.out) => 0 <= Len(seam.out) /\ said + 1 > Len(seam.out) - 0
      BY <1>3, <3>2
    <3> QED BY <1>3, <3>1, <3>3, <3>4 DEF Fits
  <2>10. Speaks(g, seam, TRUE, said)
    <3>1. said + 1 \in Nat \ {0} /\ 0 \in Nat /\ (said + 1) + 0 <= said + 1 /\ (said + 1) + 0 = said + 1
      BY <1>3
    <3>2. g.heard = Run(said + 1, 0)
      BY <2>4, <3>1, NoRun
    <3> QED BY <2>4, <2>9, <3>1, <3>2 DEF Speaks
  <2>11. legs'[active'] = g /\ (legs'[active'].st = "open") = TRUE
    BY <1>4, <2>3, <2>7
  <2>12. Speaks(legs'[active'], seam', legs'[active'].st = "open", said')
    BY <1>1, <2>10, <2>11
  <2> QED BY <1>1, <1>3, <1>4, <2>8, <2>12 DEF WordsInv
<1>5. CASE legs' = [legs EXCEPT ![1] = NoLeg] /\ livePhase' = "disposed" /\ UNCHANGED active
  <2>1. \A k \in Legs : legs'[k].st = "none"
    BY <1>1, <1>2, <1>5, NoLegIsLeg, OneLegUpdated DEF OrderInv, LiveInv
  <2>2. Mutes'
    BY <2>1 DEF Mutes
  <2> QED BY <1>1, <1>3, <1>5, <2>2 DEF WordsInv
<1> QED BY <1>4, <1>5 DEF FirstOpened

LEMMA StopsWords == ASSUME OrderInv, Stop \/ StopFlush \/ StopDone \/ Disposed PROVE WordsInv'
<1>1. AreLegs(legs) /\ IsSeam(seam) /\ said \in Nat /\ Reaches(seam, said) /\ Mutes
  BY DEF OrderInv, LiveInv, WordsInv
<1>2. CASE Dispose(legs) /\ UNCHANGED <<said, seam>>
  BY <1>1, <1>2, DisposedWords
<1>3. CASE StopDone
  <2>1. livePhase = "flushing" /\ Dispose(legs) /\ seam' = LegSettled(seam, legs[active]) /\ said' = said
    BY <1>3 DEF StopDone
  <2>2. working = "none" /\ active # 0
    BY <2>1 DEF OrderInv, LiveInv, PhaseInv, WordsInv
  <2>3. Speaks(legs[active], seam, legs[active].st = "open", said)
    BY <2>2 DEF OrderInv, WordsInv
  <2>4. IsSeam(LegSettled(seam, legs[active])) /\ Reaches(LegSettled(seam, legs[active]), said)
    BY <1>1, <2>3, SettledFits
  <2> QED BY <1>1, <2>1, <2>4, DisposedWords
<1>4. CASE (Stop \/ StopFlush) /\ ~Dispose(legs)
  <2>1. UNCHANGED <<legs, active, retiring, working, said, seam>> /\ livePhase \in {"running", "stopping"}
        /\ livePhase' \in {"flushing", "stopping"}
    BY <1>4 DEF Stop, StopFlush
  <2>2. livePhase' = "flushing" => active # 0
    BY <1>4 DEF Stop, StopFlush, OrderInv, LiveInv, PhaseInv
  <2>3. Mutes'
    BY <1>1, <2>1, MutesStay
  <2> QED BY <1>1, <2>1, <2>2, <2>3 DEF OrderInv, WordsInv
<1> QED BY <1>2, <1>3, <1>4 DEF Stop, StopFlush, Disposed

LEMMA OrderInvStep == OrderInv /\ [LiveNext]_liveVars /\ ~LateFinal => OrderInv'
<1> SUFFICES ASSUME OrderInv, [LiveNext]_liveVars, ~LateFinal PROVE WordsInv'
  BY LiveInvStep DEF OrderInv
<1>1. CASE UNCHANGED liveVars \/ Elapse
  <2>1. UNCHANGED <<legs, active, retiring, working, livePhase, said, seam>>
    BY <1>1 DEF liveVars, Elapse
  <2>2. Mutes'
    BY <2>1, MutesStay DEF OrderInv, WordsInv
  <2> QED BY <2>1, <2>2 DEF OrderInv, WordsInv
<1>2. CASE FirstOpened \/ PushAudio \/ RotateLeg \/ RotateFlushed
  BY <1>2, FirstOpenedWords, PushWords, RotateLegWords, RotateFlushedWords
<1>3. CASE Stop \/ StopFlush \/ StopDone \/ Disposed
  BY <1>3, StopsWords
<1>4. ASSUME NEW l \in Legs, Interim(l) \/ LiveFinal(l) \/ Drop(l) \/ OnClose(l) PROVE WordsInv'
  BY <1>4, InterimWords, FinalWords, DropWords, OnCloseWords
<1>5. ASSUME NEW l \in Legs, RotateOpened(l) \/ RecoverOpened(l) \/ LegOpenFails(l) \/ OpenedTooLate(l)
      PROVE  WordsInv'
  BY <1>5, RotateOpenedWords, RecoverOpenedWords, LegOpenFailsWords, OpenedTooLateWords
<1> QED BY <1>1, <1>2, <1>3, <1>4, <1>5 DEF LiveNext

\* The order is followed until a closed leg speaks, which is never forgotten.
HeardInTime == LiveInv /\ IsLate /\ (~oldLeg.spoke => WordsInv)

LEMMA LateIs == IsLate /\ [LiveNext]_liveVars => IsLate' /\ (oldLeg.spoke => oldLeg'.spoke) /\ (LateFinal => oldLeg'.spoke)
<1> SUFFICES ASSUME IsLate, [LiveNext]_liveVars
             PROVE  IsLate' /\ (oldLeg.spoke => oldLeg'.spoke) /\ (LateFinal => oldLeg'.spoke)
  OBVIOUS
<1>1. CASE LateFinal
  BY <1>1 DEF LateFinal, IsLate
<1>2. ASSUME NEW lg, NEW old, NEW new, NEW s, TakeOver(lg, old, new, s)
      PROVE  IsLate' /\ oldLeg'.spoke = oldLeg.spoke
  BY <1>2 DEF TakeOver, IsLate
<1>3. CASE RotateFlushed
  BY <1>1, <1>2, <1>3 DEF RotateFlushed
<1>4. ASSUME NEW l \in Legs, RotateOpened(l) PROVE IsLate' /\ oldLeg'.spoke = oldLeg.spoke
  <2>1. CASE UNCHANGED oldLeg
    BY <2>1 DEF IsLate
  <2>2. CASE ~UNCHANGED oldLeg
    BY <1>2, <1>4, <2>2 DEF RotateOpened
  <2> QED BY <2>1, <2>2
<1>5. CASE UNCHANGED oldLeg /\ ~LateFinal
  BY <1>5 DEF IsLate
<1>6. CASE UNCHANGED liveVars
  BY <1>1, <1>5, <1>6 DEF liveVars
<1>7. CASE FirstOpened \/ PushAudio \/ RotateLeg \/ Elapse \/ Stop \/ StopFlush \/ StopDone \/ Disposed
  <2>1. UNCHANGED oldLeg
    BY <1>7 DEF FirstOpened, PushAudio, RotateLeg, Elapse, Stop, StopFlush, StopDone, Disposed
  <2> QED BY <1>1, <1>5, <2>1
<1>8. ASSUME NEW l \in Legs,
             Interim(l) \/ LiveFinal(l) \/ Drop(l) \/ OnClose(l) \/ RecoverOpened(l) \/ LegOpenFails(l) \/ OpenedTooLate(l)
      PROVE  UNCHANGED oldLeg
  BY <1>8 DEF Interim, LiveFinal, Drop, OnClose, RecoverOpened, LegOpenFails, OpenedTooLate
<1> QED BY <1>1, <1>3, <1>4, <1>5, <1>6, <1>7, <1>8 DEF LiveNext

(* As long as a client's transcript is exact and no session has spoken     *)
(* after it was closed, it goes on in the order spoken, back by at most    *)
(* the one word a seam may take for a coincidence (LiveStream.SpokenOrder),*)
(* for any number of words, rotations, drops and replays, any ring,        *)
(* overlap and seam.                                                       *)
THEOREM SpokenOrderCorrect == LiveSpec => []SpokenOrder
<1>1. HeardInTime => SpokenOrder
  BY DEF HeardInTime, WordsInv, IsSeam, InOrder, SpokenOrder, FirstFinalsMatched
<1>2. LiveInit => HeardInTime
  BY LiveInvInit, WordsInit DEF HeardInTime, IsLate, LiveInit
<1>3. HeardInTime /\ [LiveNext]_liveVars => HeardInTime'
  BY LiveInvStep, LateIs, OrderInvStep DEF HeardInTime, OrderInv
<1> QED BY <1>1, <1>2, <1>3, PTL DEF LiveSpec

------------------------------------------------------------------------------
(* The calls to Gemini.  A place passes from call to call: PlacesInv       *)
(* follows it, and Leave, the one step that hands it on, is a lemma.       *)

Inside(k) == {c \in Callers : k[c].st \in InSlot}
Queued(k) == {c \in Callers : k[c].st = "waiting"}

CallRecords ==
  /\ calls = [c \in Callers |-> calls[c]]
  /\ \A c \in Callers :
       /\ calls[c].st \in CallStates
       /\ calls[c] = [st |-> calls[c].st, key |-> calls[c].key, failures |-> calls[c].failures]

\* The calls in states s hold n places and wait in w.
Placed(k, n, w) ==
  /\ n = Cardinality(Inside(k)) /\ n <= MaxConcurrency
  /\ w # <<>> => n = MaxConcurrency
  /\ w \in Seq(Callers) /\ IsInjective(w)
  /\ \A c \in Callers : k[c].st = "waiting" <=> \E i \in DOMAIN w : w[i] = c

PlacesInv == CallRecords /\ Placed(calls, inside, waiting)

LEMMA Counted == \A k : IsFiniteSet(Inside(k)) /\ Cardinality(Inside(k)) \in Nat
<1> SUFFICES ASSUME NEW k  PROVE IsFiniteSet(Inside(k)) /\ Cardinality(Inside(k)) \in Nat
  OBVIOUS
<1>1. Inside(k) \subseteq Callers
  BY DEF Inside
<1>q. QED  BY <1>1, CallsAssumption, FS_Subset, FS_CardinalityType

\* A step that moves one call only.
Moved(c, st) ==
  /\ calls' = [d \in Callers |-> calls'[d]]
  /\ \A d \in Callers :
       /\ calls'[d].st = IF d = c THEN st ELSE calls[d].st
       /\ calls'[d] = [st |-> calls'[d].st, key |-> calls'[d].key, failures |-> calls'[d].failures]

LEMMA BecomesMoves ==
  ASSUME CallRecords, NEW c \in Callers, NEW st, calls' = Becomes(c, st)  PROVE Moved(c, st)
  BY DEF CallRecords, Becomes, Moved

\* A call that neither takes nor gives a place.
LEMMA StaysIn ==
  ASSUME PlacesInv, NEW c \in Callers, NEW st \in CallStates, Moved(c, st), UNCHANGED <<inside, waiting>>,
         calls[c].st # "waiting", st # "waiting", calls[c].st \in InSlot <=> st \in InSlot
  PROVE  PlacesInv'
<1>1. CallRecords'
  BY DEF PlacesInv, CallRecords, Moved
<1>2. Inside(calls') = Inside(calls)
  BY DEF Inside, Moved
<1>3. Placed(calls', inside', waiting')
  BY <1>2 DEF PlacesInv, Placed, Moved
<1>q. QED  BY <1>1, <1>3 DEF PlacesInv

LEMMA CallsStart == CallsInit => PlacesInv
<1> SUFFICES ASSUME CallsInit PROVE PlacesInv
  OBVIOUS
<1>1. CallRecords
  BY DEF CallsInit, CallRecords, CallStates
<1>2. Inside(calls) = {}
  BY DEF CallsInit, Inside, InSlot
<1>3. /\ inside = 0 /\ waiting = <<>> /\ Cardinality(Inside(calls)) = 0 /\ MaxConcurrency \in Nat \ {0}
      /\ \A c \in Callers : calls[c].st = "new"
  BY <1>2, FS_EmptySet, CallsAssumption DEF CallsInit
<1>4. waiting \in Seq(Callers) /\ DOMAIN waiting = {} /\ IsInjective(waiting)
  BY <1>3 DEF IsInjective
<1>5. Placed(calls, inside, waiting)
  BY <1>3, <1>4 DEF Placed
<1>q. QED  BY <1>1, <1>5 DEF PlacesInv

LEMMA CallPlaces == ASSUME PlacesInv, NEW c \in Callers, Call(c)  PROVE PlacesInv'
<1>1. CASE calls' = Becomes(c, "failed") /\ UNCHANGED <<inside, waiting>>
  BY <1>1, BecomesMoves, StaysIn DEF PlacesInv, Call, CallStates, InSlot
<1>2. CASE inside >= MaxConcurrency /\ calls' = Becomes(c, "waiting") /\ waiting' = Append(waiting, c)
           /\ UNCHANGED inside
  <2>1. Moved(c, "waiting") /\ calls[c].st = "new"
    BY <1>2, BecomesMoves DEF PlacesInv, Call
  <2>2. CallRecords'
    BY <2>1 DEF PlacesInv, CallRecords, Moved, CallStates
  <2>3. Inside(calls') = Inside(calls)
    BY <2>1 DEF Inside, Moved, InSlot
  <2>4. inside = MaxConcurrency
    BY <1>2, Counted, CallsAssumption DEF PlacesInv, Placed
  <2>5. /\ waiting \in Seq(Callers) /\ waiting' \in Seq(Callers) /\ waiting'[Len(waiting) + 1] = c
        /\ DOMAIN waiting' = DOMAIN waiting \cup {Len(waiting) + 1}
        /\ \A i \in DOMAIN waiting : waiting'[i] = waiting[i] /\ waiting[i] # c
    BY <1>2, <2>1 DEF PlacesInv, Placed
  <2>6. IsInjective(waiting')
    BY <2>5 DEF PlacesInv, Placed, IsInjective
  <2>7. \A d \in Callers : calls'[d].st = "waiting" <=> \E i \in DOMAIN waiting' : waiting'[i] = d
    BY <2>1, <2>5 DEF PlacesInv, Placed, Moved
  <2>q. QED  BY <1>2, <2>2, <2>3, <2>4, <2>5, <2>6, <2>7 DEF PlacesInv, Placed
<1>3. CASE ~(inside >= MaxConcurrency) /\ calls' = Becomes(c, "ready") /\ inside' = inside + 1
           /\ UNCHANGED waiting
  <2>1. Moved(c, "ready") /\ calls[c].st = "new"
    BY <1>3, BecomesMoves DEF PlacesInv, Call
  <2>2. CallRecords'
    BY <2>1 DEF PlacesInv, CallRecords, Moved, CallStates
  <2>3. Inside(calls') = Inside(calls) \cup {c} /\ c \notin Inside(calls)
    BY <2>1 DEF Inside, Moved, InSlot
  <2>4. inside \in Nat /\ inside + 1 = Cardinality(Inside(calls'))
    BY <2>3, Counted, FS_AddElement DEF PlacesInv, Placed
  <2>5. waiting = <<>> /\ inside + 1 <= MaxConcurrency
    BY <1>3, <2>4, CallsAssumption DEF PlacesInv, Placed
  <2>6. \A d \in Callers : calls'[d].st # "waiting"
    BY <2>1, <2>5 DEF PlacesInv, Placed, Moved
  <2>q. QED  BY <1>3, <2>2, <2>4, <2>5, <2>6 DEF PlacesInv, Placed
<1>q. QED  BY <1>1, <1>2, <1>3 DEF Call

\* A place is given back, or handed to the first that waits.
LEMMA LeavePlaces ==
  ASSUME PlacesInv, NEW c \in Callers, NEW st \in {"failed", "answered"}, calls[c].st \in InSlot, Leave(c, st)
  PROVE  PlacesInv'
<1>1. CASE waiting = <<>>
  <2>1. Moved(c, st) /\ inside' = inside - 1 /\ waiting' = waiting
    BY <1>1, BecomesMoves DEF PlacesInv, Leave
  <2>2. CallRecords'
    BY <2>1 DEF PlacesInv, CallRecords, Moved, CallStates
  <2>3. Inside(calls') = Inside(calls) \ {c} /\ c \in Inside(calls)
    BY <2>1 DEF Inside, Moved, InSlot
  <2>4. inside \in Nat /\ inside - 1 = Cardinality(Inside(calls')) /\ inside - 1 <= inside
    <3>1. IsFiniteSet(Inside(calls)) /\ Cardinality(Inside(calls)) \in Nat
      BY Counted
    <3>2. Cardinality(Inside(calls) \ {c}) = Cardinality(Inside(calls)) - 1
      BY <3>1, <2>3, FS_RemoveElement
    <3>q. QED  BY <3>1, <3>2, <2>3 DEF PlacesInv, Placed
  <2>5. inside - 1 <= MaxConcurrency
    BY <2>4, CallsAssumption DEF PlacesInv, Placed
  <2>6. \A d \in Callers : calls'[d].st = "waiting" <=> calls[d].st = "waiting"
    BY <2>1 DEF Moved, InSlot
  <2>q. QED  BY <1>1, <2>1, <2>2, <2>4, <2>5, <2>6 DEF PlacesInv, Placed
<1>2. CASE waiting # <<>>
  <2> DEFINE h == Head(waiting)
  <2>1. /\ calls' = [Becomes(c, st) EXCEPT ![h].st = "ready"]
        /\ waiting' = Tail(waiting) /\ inside' = inside
    BY <1>2 DEF Leave
  <2>2. /\ waiting \in Seq(Callers) /\ 1 \in DOMAIN waiting /\ h = waiting[1] /\ h \in Callers
        /\ waiting' \in Seq(Callers)
        /\ \A i \in DOMAIN waiting' : i + 1 \in DOMAIN waiting /\ waiting'[i] = waiting[i + 1] /\ i \in Nat
                                      /\ i + 1 # 1
        /\ \A i \in DOMAIN waiting : i # 1 => i - 1 \in DOMAIN waiting' /\ waiting'[i - 1] = waiting[i]
    BY <1>2, <2>1 DEF PlacesInv, Placed
  <2>3. calls[h].st = "waiting" /\ h # c
    BY <2>2 DEF PlacesInv, Placed, InSlot
  <2> HIDE DEF h
  <2>4. /\ calls' = [d \in Callers |-> calls'[d]]
        /\ \A d \in Callers :
             /\ calls'[d].st = IF d = c THEN st ELSE IF d = h THEN "ready" ELSE calls[d].st
             /\ calls'[d] = [st |-> calls'[d].st, key |-> calls'[d].key, failures |-> calls'[d].failures]
    <3>1. PICK m : m = Becomes(c, st)
      OBVIOUS
    <3>2. /\ m = [d \in Callers |-> m[d]]
          /\ \A d \in Callers :
               /\ m[d].st = IF d = c THEN st ELSE calls[d].st
               /\ m[d] = [st |-> m[d].st, key |-> m[d].key, failures |-> m[d].failures]
      BY <3>1 DEF PlacesInv, CallRecords, Becomes
    <3>3. calls' = [m EXCEPT ![h].st = "ready"]
      BY <2>1, <3>1
    <3>4. calls' = [d \in Callers |-> IF d = h THEN [m[d] EXCEPT !.st = "ready"] ELSE m[d]]
      BY <3>2, <3>3
    <3>5. ASSUME NEW d \in Callers
          PROVE  /\ calls'[d].st = IF d = c THEN st ELSE IF d = h THEN "ready" ELSE calls[d].st
                 /\ calls'[d] = [st |-> calls'[d].st, key |-> calls'[d].key, failures |-> calls'[d].failures]
      BY <3>2, <3>4, <2>3
    <3>q. QED  BY ONLY <3>4, <3>5
  <2>5. CallRecords'
    BY <2>4 DEF PlacesInv, CallRecords, CallStates
  <2>6. /\ Inside(calls') = (Inside(calls) \ {c}) \cup {h} /\ c \in Inside(calls)
        /\ h \notin Inside(calls) \ {c}
    BY <2>2, <2>3, <2>4 DEF Inside, InSlot
  <2>7. Cardinality(Inside(calls')) = Cardinality(Inside(calls))
    <3>1. IsFiniteSet(Inside(calls)) /\ Cardinality(Inside(calls)) \in Nat
      BY Counted
    <3>2. IsFiniteSet(Inside(calls) \ {c})
          /\ Cardinality(Inside(calls) \ {c}) = Cardinality(Inside(calls)) - 1
      BY <3>1, <2>6, FS_RemoveElement
    <3>3. Cardinality((Inside(calls) \ {c}) \cup {h}) = (Cardinality(Inside(calls)) - 1) + 1
      BY <3>2, <2>6, FS_AddElement
    <3>q. QED  BY <3>1, <3>3, <2>6
  <2>8. IsInjective(waiting')
    BY <2>2 DEF PlacesInv, Placed, IsInjective
  <2>9. \A d \in Callers : calls'[d].st = "waiting" <=> \E i \in DOMAIN waiting' : waiting'[i] = d
    <3>1. ASSUME NEW d \in Callers, calls'[d].st = "waiting"
          PROVE  \E i \in DOMAIN waiting' : waiting'[i] = d
      <4>1. calls[d].st = "waiting" /\ d # h
        BY <2>4, <3>1
      <4>2. PICK i \in DOMAIN waiting : waiting[i] = d
        BY <4>1 DEF PlacesInv, Placed
      <4>q. QED  BY <2>2, <4>1, <4>2 DEF h
    <3>2. ASSUME NEW i \in DOMAIN waiting', NEW d \in Callers, waiting'[i] = d
          PROVE  calls'[d].st = "waiting"
      <4>1. i + 1 \in DOMAIN waiting /\ waiting[i + 1] = d /\ i + 1 # 1
        BY <2>2, <3>2
      <4>2. calls[d].st = "waiting" /\ d # h
        BY <4>1, <2>2 DEF PlacesInv, Placed, IsInjective, h
      <4>q. QED  BY <4>2, <2>4 DEF InSlot
    <3>q. QED  BY <3>1, <3>2
  <2>q. QED  BY <1>2, <2>1, <2>2, <2>5, <2>7, <2>8, <2>9 DEF PlacesInv, Placed
<1>q. QED  BY <1>1, <1>2

LEMMA AcquirePlaces == ASSUME PlacesInv, NEW c \in Callers, Acquire(c)  PROVE PlacesInv'
<1>1. CASE Leave(c, "failed")
  BY <1>1, LeavePlaces DEF Acquire, InSlot
<1>2. ASSUME NEW k, 
             calls' = [calls EXCEPT ![c] = [st |-> "calling", key |-> k, failures |-> @.failures]],
             UNCHANGED <<inside, waiting>>
      PROVE  PlacesInv'
  <2>1. Moved(c, "calling")
    BY <1>2 DEF PlacesInv, CallRecords, Moved
  <2>q. QED  BY <1>2, <2>1, StaysIn DEF Acquire, CallStates, InSlot
<1>q. QED  BY <1>1, <1>2 DEF Acquire

LEMMA ServerFailsPlaces == ASSUME PlacesInv, NEW c \in Callers, ServerFails(c)  PROVE PlacesInv'
<1>1. CASE Leave(c, "failed")
  BY <1>1, LeavePlaces DEF ServerFails, InSlot
<1>2. CASE /\ calls' = [calls EXCEPT ![c] = [st |-> "backoff", key |-> @.key, failures |-> @.failures + 1]]
           /\ UNCHANGED <<inside, waiting>>
  <2>1. Moved(c, "backoff")
    BY <1>2 DEF PlacesInv, CallRecords, Moved
  <2>q. QED  BY <1>2, <2>1, StaysIn DEF ServerFails, CallStates, InSlot
<1>q. QED  BY <1>1, <1>2 DEF ServerFails

\* The steps that move one call and leave the places alone.
LEMMA OthersPlaces ==
  ASSUME PlacesInv, NEW c \in Callers, Busy(c) \/ InvalidKey(c) \/ BackoffEnds(c) \/ Record(c)
  PROVE  PlacesInv'
<1>1. CASE Busy(c) \/ InvalidKey(c) \/ BackoffEnds(c)
  <2>1. Moved(c, "ready") /\ calls[c].st \in {"calling", "backoff"} /\ UNCHANGED <<inside, waiting>>
    BY <1>1, BecomesMoves DEF PlacesInv, Busy, InvalidKey, BackoffEnds
  <2>q. QED  BY <2>1, StaysIn DEF CallStates, InSlot
<1>2. CASE Record(c)
  <2>1. \E st \in {"done", "failed"} : Moved(c, st)
    BY <1>2, BecomesMoves DEF PlacesInv, Record
  <2>2. calls[c].st = "answered" /\ UNCHANGED <<inside, waiting>>
    BY <1>2 DEF Record
  <2>q. QED  BY <2>1, <2>2, StaysIn DEF CallStates, InSlot
<1>q. QED  BY <1>1, <1>2

LEMMA RemovedAt ==
  ASSUME NEW s \in Seq(Callers), NEW p \in 1 .. Len(s)
  PROVE  /\ RemoveAt(s, p) \in Seq(Callers) /\ Len(RemoveAt(s, p)) = Len(s) - 1
         /\ DOMAIN RemoveAt(s, p) = 1 .. (Len(s) - 1)
         /\ \A i \in 1 .. (Len(s) - 1) : RemoveAt(s, p)[i] = IF i < p THEN s[i] ELSE s[i + 1]
<1> DEFINE a == SubSeq(s, 1, p - 1)
           b == SubSeq(s, p + 1, Len(s))
<1>1. s \in Seq(Callers) /\ Len(s) \in Nat /\ p \in Nat /\ p >= 1 /\ p <= Len(s)
  OBVIOUS
<1>2. a \in Seq(Callers) /\ Len(a) = p - 1 /\ \A i \in 1 .. (p - 1) : a[i] = s[i]
  BY ONLY <1>1
<1>3. b \in Seq(Callers) /\ Len(b) = Len(s) - p /\ \A i \in 1 .. (Len(s) - p) : b[i] = s[p + i]
  BY ONLY <1>1
<1> HIDE DEF a, b
<1>4. a \o b \in Seq(Callers) /\ Len(a \o b) = Len(s) - 1
  <2>1. a \in Seq(Callers) /\ b \in Seq(Callers)
    BY <1>2, <1>3
  <2>2. a \o b \in Seq(Callers) /\ Len(a \o b) = Len(a) + Len(b)
    BY ONLY <2>1
  <2>3. Len(a) = p - 1 /\ Len(b) = Len(s) - p
    BY <1>2, <1>3
  <2>q. QED  BY ONLY <2>2, <2>3, <1>1
<1>5. ASSUME NEW i \in 1 .. (Len(s) - 1)  PROVE (a \o b)[i] = IF i < p THEN s[i] ELSE s[i + 1]
  <2>1. CASE i < p
    BY ONLY <2>1, <1>1, <1>2, <1>3
  <2>2. CASE ~(i < p)
    <3>1. i - (p - 1) \in 1 .. (Len(s) - p) /\ p + (i - (p - 1)) = i + 1
      BY ONLY <2>2, <1>1, i \in 1 .. (Len(s) - 1)
    <3>2. (a \o b)[i] = b[i - (p - 1)]
      BY ONLY <2>2, <3>1, <1>1, <1>2, <1>3, i \in 1 .. (Len(s) - 1)
    <3>q. QED  BY <2>2, <3>1, <3>2, <1>3
  <2>q. QED  BY <2>1, <2>2
<1>6. RemoveAt(s, p) = a \o b
  BY DEF RemoveAt, a, b
<1>7. DOMAIN (a \o b) = 1 .. (Len(s) - 1)
  BY <1>4
<1>q. QED  BY ONLY <1>4, <1>5, <1>6, <1>7

LEMMA AbortPlaces == ASSUME PlacesInv, NEW c \in Callers, Abort(c)  PROVE PlacesInv'
<1>1. CASE calls[c].st # "waiting"
  BY <1>1, ZenonT(60) DEF Abort, PlacesInv, CallRecords, Placed, Inside
<1>2. CASE calls[c].st = "waiting"
  <2>1. /\ calls' = Becomes(c, "failed") /\ inside' = inside
        /\ \E i \in DOMAIN waiting : waiting[i] = c /\ waiting' = RemoveAt(waiting, i)
    BY <1>2 DEF Abort
  <2>2. PICK p \in DOMAIN waiting : waiting[p] = c /\ waiting' = RemoveAt(waiting, p)
    BY <2>1
  <2>3. Moved(c, "failed")
    BY <2>1, BecomesMoves DEF PlacesInv
  <2>4. CallRecords' /\ Inside(calls') = Inside(calls)
    BY <1>2, <2>3 DEF PlacesInv, CallRecords, Moved, CallStates, Inside, InSlot
  <2>5. /\ waiting \in Seq(Callers) /\ Len(waiting) \in Nat /\ DOMAIN waiting = 1 .. Len(waiting)
        /\ p \in 1 .. Len(waiting)
    BY DEF PlacesInv, Placed
  <2>6. /\ waiting' \in Seq(Callers) /\ Len(waiting') = Len(waiting) - 1
        /\ DOMAIN waiting' = 1 .. (Len(waiting) - 1)
        /\ \A i \in 1 .. (Len(waiting) - 1) : waiting'[i] = IF i < p THEN waiting[i] ELSE waiting[i + 1]
    BY <2>2, <2>5, RemovedAt
  <2>7. IsInjective(waiting')
    <3>1. ASSUME NEW i \in 1 .. (Len(waiting) - 1), NEW j \in 1 .. (Len(waiting) - 1), waiting'[i] = waiting'[j]
          PROVE  i = j
      <4>1. \A k, l \in 1 .. Len(waiting) : waiting[k] = waiting[l] => k = l
        BY <2>5 DEF PlacesInv, Placed, IsInjective
      <4>2. /\ waiting'[i] = IF i < p THEN waiting[i] ELSE waiting[i + 1]
            /\ waiting'[j] = IF j < p THEN waiting[j] ELSE waiting[j + 1]
        BY <2>6
      <4>3. /\ Len(waiting) \in Nat /\ p \in 1 .. Len(waiting)
            /\ i \in 1 .. (Len(waiting) - 1) /\ j \in 1 .. (Len(waiting) - 1)
        BY <2>5
      <4> DEFINE shift(k) == IF k < p THEN k ELSE k + 1
      <4>4. shift(i) \in 1 .. Len(waiting) /\ shift(j) \in 1 .. Len(waiting)
        BY ONLY <4>3
      <4>5. waiting'[i] = waiting[shift(i)] /\ waiting'[j] = waiting[shift(j)]
        BY ONLY <4>2
      <4>6. shift(i) = shift(j)
        <5> HIDE DEF shift
        <5>q. QED  BY ONLY <3>1, <4>1, <4>4, <4>5
      <4>q. QED  BY ONLY <4>3, <4>6
    <3>q. QED  BY <2>6, <3>1 DEF IsInjective
  <2>8. waiting # <<>>
    BY <2>5
  <2>9. ASSUME NEW d \in Callers
        PROVE  calls'[d].st = "waiting" <=> \E i \in DOMAIN waiting' : waiting'[i] = d
    <3>1. calls'[d].st = "waiting" <=> d # c /\ \E i \in DOMAIN waiting : waiting[i] = d
      BY <2>3 DEF PlacesInv, Placed, Moved
    <3>2. ASSUME NEW i \in DOMAIN waiting', waiting'[i] = d
          PROVE  d # c /\ \E j \in DOMAIN waiting : waiting[j] = d
      <4>1. CASE i < p
        BY <4>1, <3>2, <2>2, <2>5, <2>6 DEF PlacesInv, Placed, IsInjective
      <4>2. CASE ~(i < p)
        <5>1. i + 1 \in DOMAIN waiting /\ waiting[i + 1] = d /\ i + 1 # p
          BY <4>2, <3>2, <2>5, <2>6
        <5>q. QED  BY <5>1, <2>2 DEF PlacesInv, Placed, IsInjective
      <4>q. QED  BY <4>1, <4>2
    <3>3. ASSUME d # c, NEW j \in DOMAIN waiting, waiting[j] = d
          PROVE  \E i \in DOMAIN waiting' : waiting'[i] = d
      <4>1. CASE j < p
        BY <4>1, <3>3, <2>5, <2>6
      <4>2. CASE j > p
        <5>1. j - 1 \in 1 .. (Len(waiting) - 1) /\ ~(j - 1 < p) /\ (j - 1) + 1 = j
          BY <4>2, <2>5
        <5>q. QED  BY <5>1, <2>6, <3>3
      <4>q. QED  BY <4>1, <4>2, <3>3, <2>2, <2>5
    <3>q. QED  BY <3>1, <3>2, <3>3
  <2>q. QED  BY <2>1, <2>4, <2>6, <2>7, <2>8, <2>9 DEF PlacesInv, Placed
<1>q. QED  BY <1>1, <1>2

LEMMA PlacesStep == PlacesInv /\ [CallsNext]_callVars => PlacesInv'
<1> SUFFICES ASSUME PlacesInv, [CallsNext]_callVars PROVE PlacesInv'
  OBVIOUS
<1>1. CASE ClockTicks \/ UNCHANGED callVars
  BY <1>1 DEF ClockTicks, callVars, PlacesInv, CallRecords, Placed, Inside
<1>2. ASSUME NEW c \in Callers, Answered(c) \/ Refused403(c)  PROVE PlacesInv'
  BY <1>2, LeavePlaces DEF Answered, Refused403, InSlot
<1>q. QED
  BY <1>1, <1>2, CallPlaces, AcquirePlaces, ServerFailsPlaces, OthersPlaces, AbortPlaces DEF CallsNext

\* However a call to Gemini ends, its place is given back exactly once, and the queue holds exactly
\* the calls that wait.
THEOREM PlacesAddUpCorrect == CallsSpec => []PlacesAddUp
<1>1. PlacesInv => PlacesAddUp
  BY DEF PlacesInv, Placed, PlacesAddUp, Inside
<1>q. QED  BY <1>1, CallsStart, PlacesStep, PTL DEF CallsSpec

==============================================================================

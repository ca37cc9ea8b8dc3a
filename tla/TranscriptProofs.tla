---------------------------- MODULE TranscriptProofs ----------------------------
(***************************************************************************)
(* Theorems about what becomes of a transcript: what a screen that follows  *)
(* a meeting shows (MeetingRoom), what an answer cites (Answers), the       *)
(* translations of its lines (Translations) and how it is cut (Chunker).    *)
(***************************************************************************)
EXTENDS MeetingRoom, Answers, Translations, Chunker,
        FiniteSetTheorems, WellFoundedInduction, TLAPS

(* MeetingRoom: what a screen that follows a meeting shows.                *)

Pages == [v : Int, old : BOOLEAN]
Fetches == [st : {"none", "asked", "answered"}, v : Int]

RoomTypes ==
  /\ progress \in Nat /\ announced \in Nat /\ announced <= progress
  /\ wire \in Seq(Nat) /\ room \in BOOLEAN /\ missed \in BOOLEAN /\ raced \in BOOLEAN
  /\ page \in Pages
  /\ fetch \in Fetches

\* Data as of status v is not behind what was announced, or the latest announcement is on its way.
UpToDate(v) == v >= announced \/ (wire # <<>> /\ wire[Len(wire)] = announced)

ShownInv ==
  /\ page.v <= progress
  /\ fetch.st = "answered" => fetch.v <= progress /\ (~missed /\ ~raced => UpToDate(fetch.v))
  /\ fetch.st = "none" /\ ~missed /\ ~raced /\ ~page.old => UpToDate(page.v)

FollowInv == RoomTypes /\ ShownInv

------------------------------------------------------------------------------

LEMMA PageFields ==
  ASSUME NEW p \in Pages
  PROVE  /\ p.v \in Int /\ p.old \in BOOLEAN
         /\ [p EXCEPT !.old = TRUE] \in Pages
         /\ [p EXCEPT !.old = TRUE].v = p.v /\ [p EXCEPT !.old = TRUE].old
BY DEF Pages

LEMMA FetchFields ==
  /\ Asked \in Fetches /\ Asked.st = "asked"
  /\ NoFetch \in Fetches /\ NoFetch.st = "none"
  /\ \A f \in Fetches : f.v \in Int /\ f.st \in {"none", "asked", "answered"}
BY DEF Fetches, Asked, NoFetch

LEMMA FollowInit == RoomInit => FollowInv
<1> SUFFICES ASSUME RoomInit PROVE FollowInv
  OBVIOUS
<1>1. page \in Pages /\ page.v = -1
  BY DEF RoomInit, Pages
<1>2. wire \in Seq(Nat)
  BY DEF RoomInit
<1>3. fetch \in Fetches /\ fetch.st = "asked" /\ room \in BOOLEAN /\ missed \in BOOLEAN /\ raced \in BOOLEAN /\ progress = 0 /\ announced = 0
  BY FetchFields DEF RoomInit
<1> QED BY <1>1, <1>2, <1>3 DEF FollowInv, RoomTypes, ShownInv

\* Losing what is on the wire is a miss, unless nothing was.
LEMMA WireLost ==
  ASSUME FollowInv, OutOfRoom, UNCHANGED <<progress, announced>>
  PROVE  /\ wire' \in Seq(Nat) /\ room' \in BOOLEAN /\ missed' \in BOOLEAN
         /\ ~missed' => UNCHANGED wire /\ ~missed
<1>1. wire' = <<>> /\ room' = FALSE /\ missed' = (missed \/ wire # <<>>)
  BY DEF OutOfRoom
<1>2. wire' \in Seq(Nat)
  BY <1>1
<1>3. missed' \in BOOLEAN /\ room' \in BOOLEAN
  BY <1>1 DEF FollowInv, RoomTypes
<1> QED BY <1>1, <1>2, <1>3

\* What the screen has and asked for stays, and what the room tells it.
LEMMA SocketKeeps ==
  ASSUME FollowInv, UNCHANGED <<progress, announced, page, raced>>, fetch' = fetch \/ fetch' = Asked,
         wire' \in Seq(Nat), room' \in BOOLEAN, missed' \in BOOLEAN,
         ~missed' => UNCHANGED wire /\ ~missed
  PROVE  FollowInv'
<1>1. \A v \in Int : ~missed' /\ UpToDate(v) => UpToDate(v)'
  BY DEF UpToDate
<1>2. RoomTypes'
  BY PageFields, FetchFields DEF FollowInv, RoomTypes
<1>3. page.v \in Int /\ fetch.v \in Int
  BY PageFields, FetchFields DEF FollowInv, RoomTypes
<1>4. ShownInv'
  <2>1. CASE fetch' = fetch
    <3>1. /\ page' = page /\ fetch' = fetch /\ progress' = progress
          /\ ~missed' /\ UpToDate(page.v) => UpToDate(page.v)'
          /\ ~missed' /\ UpToDate(fetch.v) => UpToDate(fetch.v)'
      BY <1>1, <1>3, <2>1
    <3> QED BY <3>1 DEF FollowInv, ShownInv
  <2>2. CASE fetch' = Asked
    BY <2>2, PageFields, FetchFields DEF FollowInv, ShownInv
  <2> QED BY <2>1, <2>2
<1> QED BY <1>2, <1>4 DEF FollowInv

LEMMA ServerKeeps ==
  ASSUME FollowInv, StatusChanges \/ Announce \/ ServerRestarts
  PROVE  FollowInv'
<1>0. RoomTypes /\ ShownInv /\ page.v \in Int /\ fetch.v \in Int /\ UNCHANGED <<page, fetch, raced>>
  BY PageFields, FetchFields DEF FollowInv, RoomTypes, StatusChanges, Announce, ServerRestarts
<1>1. CASE StatusChanges
  <2>1. RoomTypes'
    BY <1>0, <1>1 DEF StatusChanges, RoomTypes
  <2>2. progress' = progress + 1 /\ UNCHANGED <<announced, wire, missed>> /\ progress \in Nat
    BY <1>0, <1>1 DEF StatusChanges, RoomTypes
  <2>3. \A v \in Int : UpToDate(v)' = UpToDate(v)
    BY <2>2 DEF UpToDate
  <2> QED BY <1>0, <2>1, <2>2, <2>3 DEF FollowInv, ShownInv
<1>2. CASE Announce
  <2>1. announced' = progress /\ UNCHANGED progress /\ wire' = (IF room THEN Append(wire, progress) ELSE wire)
        /\ missed' = (missed \/ ~room)
    BY <1>2 DEF Announce
  <2>2. wire' \in Seq(Nat) /\ missed' \in BOOLEAN /\ room' \in BOOLEAN
    BY <1>0, <1>2, <2>1 DEF RoomTypes, Announce
  <2>3. RoomTypes'
    BY <1>0, <1>2, <2>1, <2>2 DEF Announce, RoomTypes
  <2>4. ASSUME NEW v \in Int, ~missed' PROVE UpToDate(v)'
    <3>1. wire' = Append(wire, progress) /\ wire \in Seq(Nat) /\ progress \in Nat
      BY <1>0, <2>1, <2>4 DEF RoomTypes
    <3>2. wire' # <<>> /\ wire'[Len(wire')] = progress
      BY <3>1
    <3> QED BY <2>1, <3>2 DEF UpToDate
  <2>5. UpToDate(page.v)' \/ missed'
    <3>1. PICK v \in Int : v = page.v
      BY <1>0
    <3> QED BY <1>0, <2>4, <3>1
  <2>6. UpToDate(fetch.v)' \/ missed'
    <3>1. PICK v \in Int : v = fetch.v
      BY <1>0
    <3> QED BY <1>0, <2>4, <3>1
  <2> QED BY <1>0, <2>1, <2>3, <2>5, <2>6 DEF FollowInv, ShownInv
<1>3. CASE ServerRestarts
  <2>1. announced' = progress /\ UNCHANGED progress /\ wire' = <<>> /\ missed' = (missed \/ wire # <<>> \/ announced < progress)
        /\ room' = FALSE
    BY <1>3 DEF ServerRestarts
  <2>2. wire' \in Seq(Nat)
    BY <2>1
  <2>a. ~missed' => ~missed /\ wire = <<>> /\ ~(announced < progress)
    BY <2>1
  <2>b. missed' \in BOOLEAN
    BY <2>1
  <2>3. RoomTypes'
    <3>1. progress' \in Nat /\ announced' \in Nat /\ announced' <= progress' /\ page' \in Pages /\ fetch' \in Fetches
      BY <1>0, <2>1 DEF RoomTypes
    <3>2. room' \in BOOLEAN /\ raced' \in BOOLEAN
      BY <1>0, <1>3, <2>1 DEF RoomTypes, ServerRestarts
    <3> QED BY <2>2, <2>b, <3>1, <3>2 DEF RoomTypes
  <2>c. ~(announced < progress) => announced = progress
    BY <1>0 DEF RoomTypes
  <2>4. ~missed' => UNCHANGED <<announced, wire>> /\ ~missed
    BY <2>1, <2>a, <2>c
  <2>5. \A v \in Int : ~missed' /\ UpToDate(v) => UpToDate(v)'
    BY <2>4 DEF UpToDate
  <2>6. (~missed' /\ UpToDate(page.v) => UpToDate(page.v)') /\ (~missed' /\ UpToDate(fetch.v) => UpToDate(fetch.v)')
    BY <1>0, <2>5
  <2> QED BY <1>0, <2>1, <2>3, <2>4, <2>6 DEF FollowInv, ShownInv
<1> QED BY <1>1, <1>2, <1>3

LEMMA SocketStepsKeep ==
  ASSUME FollowInv,
         \/ Handshake \/ Disconnected \/ TokenExpires \/ RequestRefreshes \/ LeaveScreen \/ VisitScreen
         \/ \E ok \in BOOLEAN : Joined(ok) \/ Recovered(ok) \/ Focus(ok)
  PROVE  FollowInv'
<1>1. UNCHANGED <<progress, announced, page, raced>> /\ (fetch' = fetch \/ fetch' = Asked)
  BY DEF Handshake, Disconnected, TokenExpires, RequestRefreshes, LeaveScreen, VisitScreen, Joined, Recovered, Focus
<1>2. OutOfRoom \/ (UNCHANGED <<wire, missed>> /\ room' \in BOOLEAN)
  BY DEF Handshake, Disconnected, TokenExpires, RequestRefreshes, LeaveScreen, VisitScreen, Joined, Recovered, Focus,
         FollowInv, RoomTypes
<1>3. CASE OutOfRoom
  BY <1>1, <1>3, WireLost, SocketKeeps
<1>4. CASE UNCHANGED <<wire, missed>> /\ room' \in BOOLEAN
  BY <1>1, <1>4, SocketKeeps DEF FollowInv, RoomTypes
<1> QED BY <1>2, <1>3, <1>4

\* What is heard is asked for, or was the first answer's already, or races it.
LEMMA HearKeeps == FollowInv /\ Hear => FollowInv'
<1> SUFFICES ASSUME FollowInv, Hear PROVE FollowInv'
  OBVIOUS
<1>0. RoomTypes /\ ShownInv /\ page.v \in Int /\ fetch.v \in Int /\ wire \in Seq(Nat) /\ wire # <<>> /\ wire' = Tail(wire)
  BY PageFields, FetchFields DEF FollowInv, RoomTypes, Hear
<1>1. page' = [page EXCEPT !.old = TRUE] /\ UNCHANGED <<progress, announced, room>>
      /\ fetch' = (IF page.v = -1 /\ fetch.st # "none" THEN fetch ELSE Asked)
      /\ raced' = (raced \/ (page.v = -1 /\ fetch.st = "answered" /\ fetch.v < Head(wire)))
      /\ UNCHANGED missed
  BY DEF Hear, Invalidated
<1>2. page'.v = page.v /\ page'.old /\ page' \in Pages
  BY <1>0, <1>1, PageFields, FetchFields DEF RoomTypes
<1>3. wire' \in Seq(Nat) /\ raced' \in BOOLEAN
  BY <1>0, <1>1 DEF RoomTypes
<1>4. RoomTypes'
  BY <1>0, <1>1, <1>2, <1>3, PageFields, FetchFields DEF RoomTypes
<1>5. ASSUME fetch' = fetch, fetch.st = "answered", ~missed', ~raced', page.v = -1 PROVE UpToDate(fetch.v)'
  <2>a. ~missed /\ ~raced /\ ~(fetch.v < Head(wire))
    BY <1>1, <1>5
  <2>b. Head(wire) = wire[1] /\ Len(wire) \in Nat /\ Len(wire) > 0
    BY <1>0
  <2>1. ~missed /\ ~raced /\ ~(fetch.v < Head(wire)) /\ Head(wire) = wire[1] /\ Len(wire) \in Nat /\ Len(wire) > 0
    BY <2>a, <2>b
  <2>2. UpToDate(fetch.v)
    BY <1>0, <1>5, <2>1 DEF ShownInv
  <2>3. CASE fetch.v >= announced
    BY <1>1, <1>5, <2>3 DEF UpToDate
  <2>4. CASE ~(fetch.v >= announced)
    <3>1. wire[Len(wire)] = announced
      BY <2>2, <2>4 DEF UpToDate
    <3>2. Len(wire) # 1
      BY <1>0, <2>1, <2>4, <3>1 DEF RoomTypes
    <3>3. Tail(wire) # <<>> /\ Len(Tail(wire)) = Len(wire) - 1 /\ Tail(wire)[Len(wire) - 1] = wire[Len(wire)]
      <4>0. PICK k \in Nat : k = Len(wire) /\ k > 0 /\ k # 1
        BY <2>b, <3>2
      <4>1. PICK n \in Nat : k = n + 1 /\ n >= 1
        <5>1. k - 1 \in Nat /\ k - 1 >= 1 /\ k = (k - 1) + 1
          BY <4>0
        <5> QED BY <5>1
      <4>2. wire \in Seq(Nat) /\ Len(wire) = n + 1 /\ n = Len(wire) - 1
        BY <1>0, <4>0, <4>1
      <4>3. Len(Tail(wire)) = n /\ Tail(wire)[n] = wire[n + 1]
        BY <4>1, <4>2
      <4>4. Tail(wire) # <<>>
        BY <4>1, <4>3
      <4> QED BY <4>1, <4>2, <4>3, <4>4
    <3> QED BY <1>0, <1>1, <3>1, <3>3 DEF UpToDate
  <2> QED BY <2>3, <2>4
<1>6. ShownInv'
  <2>1. CASE page.v = -1 /\ fetch.st # "none"
    <3>1. fetch' = fetch
      BY <1>1, <2>1
    <3> QED BY <1>0, <1>1, <1>2, <1>5, <2>1, <3>1 DEF ShownInv
  <2>2. CASE ~(page.v = -1 /\ fetch.st # "none")
    BY <1>0, <1>1, <1>2, <2>2, PageFields, FetchFields DEF ShownInv
  <2> QED BY <2>1, <2>2
<1> QED BY <1>4, <1>6 DEF FollowInv

LEMMA QueryKeeps ==
  ASSUME FollowInv, FetchServed \/ FetchDone \/ FetchFails
  PROVE  FollowInv'
<1>0. /\ RoomTypes /\ ShownInv /\ page.v \in Int /\ fetch.v \in Int /\ UNCHANGED <<progress, announced, wire, room>>
  BY PageFields, FetchFields DEF FollowInv, RoomTypes, FetchServed, FetchDone, FetchFails
<1>1. CASE FetchServed
  <2>1. fetch' = [st |-> "answered", v |-> progress] /\ UNCHANGED page /\ missed' = FALSE /\ raced' = FALSE
    BY <1>1 DEF FetchServed
  <2>2. fetch'.st = "answered" /\ fetch'.v = progress
    BY <2>1
  <2>3. fetch' \in Fetches
    BY <1>0, <2>1 DEF RoomTypes, Fetches
  <2>4. RoomTypes'
    BY <1>0, <2>1, <2>3 DEF RoomTypes
  <2>5. UpToDate(fetch.v)'
    BY <1>0, <2>2 DEF UpToDate, RoomTypes
  <2> QED BY <1>0, <2>1, <2>2, <2>4, <2>5 DEF FollowInv, ShownInv, RoomTypes
<1>2. CASE FetchDone
  <2>1. page' = [v |-> fetch.v, old |-> FALSE] /\ fetch' = NoFetch /\ UNCHANGED <<missed, raced>> /\ fetch.st = "answered"
    BY <1>2 DEF FetchDone
  <2>2. page'.v = fetch.v /\ page' \in Pages
    BY <1>0, <2>1 DEF Pages
  <2>3. RoomTypes'
    BY <1>0, <2>1, <2>2, PageFields, FetchFields DEF RoomTypes
  <2>4. UpToDate(page.v)' <=> UpToDate(fetch.v)
    BY <1>0, <2>2 DEF UpToDate
  <2> QED BY <1>0, <2>1, <2>2, <2>3, <2>4, PageFields, FetchFields DEF FollowInv, ShownInv
<1>3. CASE FetchFails
  <2>1. UNCHANGED page /\ fetch' = NoFetch /\ UNCHANGED raced /\ missed' = (missed \/ ~page.old)
    BY <1>3 DEF FetchFails
  <2>2. missed' \in BOOLEAN
    BY <1>0, <2>1 DEF RoomTypes
  <2>3. RoomTypes'
    BY <1>0, <2>1, <2>2, PageFields, FetchFields DEF RoomTypes
  <2> QED BY <1>0, <2>1, <2>3, PageFields, FetchFields DEF FollowInv, ShownInv
<1> QED BY <1>1, <1>2, <1>3

LEMMA FollowStep == FollowInv /\ [RoomNext]_roomVars => FollowInv'
<1> SUFFICES ASSUME FollowInv, [RoomNext]_roomVars PROVE FollowInv'
  OBVIOUS
<1>1. CASE UNCHANGED roomVars
  <2>1. UNCHANGED <<progress, announced, page, fetch, wire, room, missed, raced>>
    BY <1>1 DEF roomVars
  <2> QED BY <2>1, SocketKeeps DEF FollowInv, RoomTypes
<1>2. CASE RoomNext
  BY <1>2, ServerKeeps, SocketStepsKeep, HearKeeps, QueryKeeps DEF RoomNext
<1> QED BY <1>1, <1>2

\* Once all is quiet the screen shows the meeting's status, unless a change fell where the room does not
\* reach or was heard while the first answer, which is older, was on its way: a screen that has data ends
\* in no older answer than it heard of, for any number of changes, lost connections, expired tokens and
\* visits (use-meeting-room-socket.ts).
THEOREM HeardIsShownCorrect == RoomSpec => []HeardIsShown
<1>1. FollowInv => HeardIsShown
  <2> SUFFICES ASSUME FollowInv, Quiet, ~missed, ~raced, ~page.old PROVE page.v = progress
    BY DEF HeardIsShown
  <2>1. UpToDate(page.v) /\ wire = <<>> /\ announced = progress /\ page.v <= progress
    BY DEF FollowInv, ShownInv, Quiet
  <2>2. page.v \in Int /\ progress \in Nat
    BY PageFields DEF FollowInv, RoomTypes
  <2> QED BY <2>1, <2>2 DEF UpToDate
<1> QED BY <1>1, FollowInit, FollowStep, PTL DEF RoomSpec

------------------------------------------------------------------------------
(* Answers.  A citation is safe because a passage never changes what its   *)
(* id stands for: re-cutting deletes rows and inserts rows under new ids,  *)
(* and ids are never given twice.                                          *)

Passage == [id : Nat, talk : Talks, place : Spots, text : Nat, ready : BOOLEAN]
AsCited(p) == [id |-> p.id, talk |-> p.talk, place |-> p.place, text |-> p.text]

AskTypes ==
  /\ texts \in [Talks -> [Spots -> Nat]] /\ gone \subseteq Talks
  /\ asking = [a \in Asks |-> [st |-> asking[a].st, thread |-> asking[a].thread, found |-> asking[a].found]]
  /\ \A a \in Asks : asking[a].thread \in Threads

\* Rows are told apart by their ids, and those were given already.
RowsTold ==
  /\ rowIds \in Nat /\ passages \subseteq Passage
  /\ \A p \in passages : p.id <= rowIds /\ p.talk \notin gone
  /\ \A p, q \in passages : p.id = q.id => p = q

\* What was cited is that passage still, or no passage any more.
StillThat(c) == c.id <= rowIds /\ \A p \in passages : p.id = c.id => AsCited(p) = c

\* What a question under way has found, and what an answer cites, is in the scope of its thread.
FoundSound(a) ==
  asking[a].st = "answering" =>
    \A l \in DOMAIN asking[a].found :
      LET p == asking[a].found[l]
      IN p \in Passage /\ StillThat(AsCited(p)) /\ asking[a].thread \in {0, p.talk}
CitesSound(m) ==
  /\ m.thread \in Threads \ gone
  /\ \A c \in m.cites : c.id \in Nat /\ StillThat(c) /\ m.thread \in {0, c.talk}

CiteInv ==
  /\ AskTypes /\ RowsTold
  /\ \A a \in Asks : FoundSound(a)
  /\ \A m \in threads : CitesSound(m)

\* The number a fresh row of place s gets, counted from the last id given.
Nth(s) == Cardinality({q \in Spots : q <= s})

FreshRow(t, s) == [id |-> rowIds + Nth(s), talk |-> t, place |-> s, text |-> texts[t][s], ready |-> FALSE]

LEMMA NthType == \A s \in Spots : Nth(s) \in 1..Cardinality(Spots)
<1> TAKE s \in Spots
<1> DEFINE B == {q \in Spots : q <= s}
<1>1. IsFiniteSet(Spots) /\ B \in SUBSET Spots /\ s \in B  BY AnswersAssumption
<1>2. IsFiniteSet(B) /\ Cardinality(B) <= Cardinality(Spots)  BY <1>1, FS_Subset
<1>3. Cardinality(B) \in Nat /\ Cardinality(Spots) \in Nat  BY <1>1, <1>2, FS_CardinalityType
<1>4. Cardinality(B) # 0  BY <1>1, <1>2, FS_EmptySet
<1> QED BY <1>2, <1>3, <1>4 DEF Nth

LEMMA NthInjective == ASSUME NEW s \in Spots, NEW r \in Spots, Nth(s) = Nth(r) PROVE s = r
<1>1. ASSUME NEW x \in Spots, NEW y \in Spots, x < y, Nth(x) = Nth(y) PROVE FALSE
  <2> DEFINE B(z) == {q \in Spots : q <= z}
  <2>1. IsFiniteSet(B(y))  BY AnswersAssumption, FS_Subset
  <2>2. B(x) \in SUBSET B(y) /\ y \in B(y) \ B(x)
    <3>1. x \in Nat /\ y \in Nat /\ \A q \in Spots : q \in Nat  BY AnswersAssumption
    <3>2. \A q \in B(x) : q \in B(y)  BY <3>1, <1>1
    <3>3. y \in B(y) /\ y \notin B(x)  BY <3>1, <1>1
    <3> QED BY <3>2, <3>3
  <2>3. B(x) # B(y) /\ Cardinality(B(x)) = Cardinality(B(y))  BY <1>1, <2>2 DEF Nth
  <2> QED BY <2>1, <2>2, <2>3, FS_Subset
<1>2. s \in Nat /\ r \in Nat  BY AnswersAssumption
<1> QED BY <1>1, <1>2

LEMMA CiteInit == AnswersInit => CiteInv
<1> SUFFICES ASSUME AnswersInit PROVE CiteInv  OBVIOUS
<1>1. AskTypes  BY DEF AnswersInit, AskTypes, Threads
<1>2. RowsTold  BY DEF AnswersInit, RowsTold
<1>3. \A a \in Asks : FoundSound(a)  BY DEF AnswersInit, FoundSound
<1>4. \A m \in threads : CitesSound(m)  BY DEF AnswersInit
<1> QED BY <1>1, <1>2, <1>3, <1>4 DEF CiteInv

\* Cutting again keeps rows as they are or gives new ids.
LEMMA RechunkedTold ==
  ASSUME CiteInv, NEW t \in Talks, MeetingThere(t),
         NEW p \in Rechunked(t)
  PROVE  /\ p \in Passage /\ p.talk \notin gone /\ p.id <= rowIds + Cardinality(Spots)
         /\ p \notin passages => (p.id > rowIds /\ \E s \in Spots : p = FreshRow(t, s))
<1>0. Cardinality(Spots) \in Nat  BY AnswersAssumption, FS_CardinalityType
<1>1. CASE p \in passages
  <2>1. p \in Passage /\ p.id \in Nat /\ p.id <= rowIds /\ p.talk \notin gone /\ rowIds \in Nat
    BY <1>1 DEF CiteInv, RowsTold, Passage
  <2>2. p.id <= rowIds + Cardinality(Spots)  BY <1>0, <2>1
  <2> QED BY <1>1, <2>1, <2>2
<1>2. CASE p \in Fresh(t)
  <2>1. PICK s \in Spots : p = FreshRow(t, s)
    BY <1>2 DEF Fresh, Nth, FreshRow
  <2>2. Nth(s) \in Nat /\ 1 <= Nth(s) /\ Nth(s) <= Cardinality(Spots) /\ rowIds \in Nat
    BY <1>0, NthType DEF CiteInv, RowsTold
  <2>3. texts[t][s] \in Nat  BY DEF CiteInv, AskTypes
  <2>4. p \in Passage /\ p.talk \notin gone  BY <2>1, <2>2, <2>3 DEF Passage, MeetingThere, FreshRow
  <2>5. p.id = rowIds + Nth(s)  BY <2>1 DEF FreshRow
  <2> QED BY <1>0, <2>1, <2>2, <2>4, <2>5
<1> QED BY <1>1, <1>2 DEF Rechunked

LEMMA PartStep ==
  ASSUME CiteInv, NEW t \in Talks, Chunk(t) PROVE CiteInv'
<1>0. Cardinality(Spots) \in Nat  BY AnswersAssumption, FS_CardinalityType
<1>1. rowIds \in Nat /\ passages \subseteq Passage /\ rowIds' = rowIds + Cardinality(Spots) /\ passages' = Rechunked(t)
  BY DEF CiteInv, RowsTold, Chunk
<1>2. AskTypes'  BY DEF CiteInv, AskTypes, Chunk, Threads
<1>3. RowsTold'
  <2>1. \A p, q \in passages' : p.id = q.id => p = q
    <3> TAKE p, q \in passages'
    <3> HAVE p.id = q.id
    <3>1. CASE p \in passages /\ q \in passages  BY <3>1 DEF CiteInv, RowsTold
    <3>2. CASE p \in passages /\ q \notin passages  BY <3>2, <1>1, RechunkedTold DEF CiteInv, RowsTold, Chunk, Passage
    <3>3. CASE p \notin passages /\ q \in passages  BY <3>3, <1>1, RechunkedTold DEF CiteInv, RowsTold, Chunk, Passage
    <3>4. CASE p \notin passages /\ q \notin passages
      <4>1. PICK s \in Spots : p = FreshRow(t, s)
        BY <3>4, <1>1, RechunkedTold DEF Chunk
      <4>2. PICK r \in Spots : q = FreshRow(t, r)
        BY <3>4, <1>1, RechunkedTold DEF Chunk
      <4>3. Nth(s) = Nth(r)  BY <4>1, <4>2, <1>1, NthType DEF FreshRow
      <4> QED BY <4>1, <4>2, <4>3, NthInjective
    <3> QED BY <3>1, <3>2, <3>3, <3>4
  <2>2. \A p \in passages' : p \in Passage /\ p.id <= rowIds' /\ p.talk \notin gone'
    BY <1>1, RechunkedTold DEF Chunk
  <2> QED BY <1>0, <1>1, <2>1, <2>2 DEF RowsTold
<1>4. \A c : c.id \in Nat /\ StillThat(c) => StillThat(c)'
  <2> TAKE c
  <2> HAVE c.id \in Nat /\ StillThat(c)
  <2>1. c.id <= rowIds'  BY <1>0, <1>1 DEF StillThat
  <2>2. ASSUME NEW p \in passages', p.id = c.id PROVE AsCited(p) = c
    BY <1>1, <2>2, RechunkedTold DEF StillThat, Chunk
  <2> QED BY <2>1, <2>2 DEF StillThat, AsCited
<1>5. \A a \in Asks : FoundSound(a)'
  BY <1>4 DEF CiteInv, FoundSound, Chunk, Passage, AsCited
<1>6. \A m \in threads' : CitesSound(m)'
  BY <1>4 DEF CiteInv, CitesSound, Chunk
<1> QED BY <1>2, <1>3, <1>5, <1>6 DEF CiteInv

\* What is cited stays what it was as long as no row is given a new content.
LEMMA StillThatKept ==
  ASSUME RowsTold, rowIds' = rowIds,
         \A p \in passages' : \E q \in passages : AsCited(p) = AsCited(q)
  PROVE  \A c : StillThat(c) => StillThat(c)'
<1> TAKE c
<1> HAVE StillThat(c)
<1>1. ASSUME NEW p \in passages', p.id = c.id PROVE AsCited(p) = c
  <2>1. PICK q \in passages : AsCited(p) = AsCited(q)  OBVIOUS
  <2>2. q.id = c.id  BY <2>1, <1>1 DEF AsCited
  <2> QED BY <2>1, <2>2 DEF StillThat
<1> QED BY <1>1 DEF StillThat, AsCited

LEMMA SoundKept ==
  ASSUME CiteInv, \A c : StillThat(c) => StillThat(c)',
         asking' = asking, threads' \subseteq threads,
         \A m \in threads' : m.thread \notin gone'
  PROVE  (\A a \in Asks : FoundSound(a)') /\ (\A m \in threads' : CitesSound(m)')
<1>1. \A a \in Asks : FoundSound(a)'
  BY DEF CiteInv, FoundSound, AsCited
<1>2. \A m \in threads' : CitesSound(m)'
  BY DEF CiteInv, CitesSound
<1> QED BY <1>1, <1>2

LEMMA EmbedStep == ASSUME CiteInv, NEW t \in Talks, Embed(t) PROVE CiteInv'
<1> DEFINE Now(p) == IF p.talk = t THEN [p EXCEPT !.ready = TRUE] ELSE p
<1>1. passages' = {Now(p) : p \in passages} /\ rowIds' = rowIds /\ gone' = gone  BY DEF Embed
<1>2. \A p \in passages : Now(p) \in Passage /\ AsCited(Now(p)) = AsCited(p) /\ Now(p).id = p.id /\ Now(p).talk = p.talk
  BY DEF CiteInv, RowsTold, Passage, AsCited
<1>3. RowsTold'
  <2>1. \A p \in passages' : \E q \in passages : p = Now(q)  BY <1>1
  <2>2. \A p \in passages' : p \in Passage /\ p.id <= rowIds' /\ p.talk \notin gone'
    BY <1>1, <1>2, <2>1 DEF CiteInv, RowsTold
  <2>3. ASSUME NEW p \in passages', NEW q \in passages', p.id = q.id PROVE p = q
    <3>1. PICK x \in passages : p = Now(x)  BY <2>1
    <3>2. PICK y \in passages : q = Now(y)  BY <2>1
    <3>3. x.id = y.id  BY <2>3, <3>1, <3>2, <1>2
    <3>4. x = y  BY <3>3 DEF CiteInv, RowsTold
    <3> QED BY <3>1, <3>2, <3>4
  <2> QED BY <1>1, <2>2, <2>3 DEF CiteInv, RowsTold
<1>4. AskTypes'  BY DEF Embed, CiteInv, AskTypes, Threads
<1>5. \A c : StillThat(c) => StillThat(c)'  BY <1>1, <1>2, StillThatKept DEF CiteInv
<1>6. \A m \in threads' : m.thread \notin gone'  BY DEF Embed, CiteInv, CitesSound
<1> QED BY <1>3, <1>4, <1>5, <1>6, SoundKept DEF Embed, CiteInv

LEMMA CorrectStep == ASSUME CiteInv, NEW t \in Talks, CorrectText(t) PROVE CiteInv'
<1>1. RowsTold'  BY DEF CorrectText, CiteInv, RowsTold
<1>2. AskTypes'  BY DEF CorrectText, CiteInv, AskTypes, Threads
<1>3. \A c : StillThat(c) => StillThat(c)'  BY DEF CorrectText, StillThat, AsCited
<1>4. \A m \in threads' : m.thread \notin gone'  BY DEF CorrectText, CiteInv, CitesSound
<1> QED BY <1>1, <1>2, <1>3, <1>4, SoundKept DEF CorrectText, CiteInv

LEMMA DeleteTalkStep == ASSUME CiteInv, NEW t \in Talks, DeleteTalk(t) PROVE CiteInv'
<1>1. passages' \subseteq passages /\ \A p \in passages' : p.talk \notin gone'
  BY DEF DeleteTalk, CiteInv, RowsTold
<1>2. RowsTold'  BY <1>1 DEF DeleteTalk, CiteInv, RowsTold
<1>3. AskTypes'  BY DEF DeleteTalk, CiteInv, AskTypes, Threads
<1>4. \A c : StillThat(c) => StillThat(c)'  BY <1>1 DEF DeleteTalk, StillThat, AsCited
<1>5. threads' \subseteq threads /\ \A m \in threads' : m.thread \notin gone'
  BY DEF DeleteTalk, CiteInv, CitesSound
<1> QED BY <1>2, <1>3, <1>4, <1>5, SoundKept DEF DeleteTalk, CiteInv

\* A question changes only its own row of the table.
LEMMA AskKept ==
  ASSUME CiteInv, NEW a \in Asks, UNCHANGED <<passages, rowIds, texts, gone, threads>>,
         NEW r, asking' = [asking EXCEPT ![a] = r],
         r = [st |-> r.st, thread |-> r.thread, found |-> r.found], r.thread \in Threads,
         FoundSound(a)'
  PROVE  CiteInv'
<1>1. AskTypes'  BY DEF CiteInv, AskTypes, Threads
<1>2. RowsTold'  BY DEF CiteInv, RowsTold
<1>3. \A b \in Asks \ {a} : asking'[b] = asking[b]  BY DEF CiteInv, AskTypes
<1>4. \A b \in Asks : FoundSound(b)'  BY <1>3 DEF CiteInv, FoundSound, StillThat, AsCited
<1>5. \A m \in threads' : CitesSound(m)'  BY DEF CiteInv, CitesSound, StillThat, AsCited, Threads
<1> QED BY <1>1, <1>2, <1>4, <1>5 DEF CiteInv

LEMMA AskStep == ASSUME CiteInv, NEW a \in Asks, NEW thread \in Threads, AskQuestion(a, thread) PROVE CiteInv'
<1> DEFINE r == [st |-> IF thread # 0 /\ InScope(thread) = {} THEN "refused" ELSE "embedding",
                 thread |-> thread, found |-> <<>>]
<1>1. asking' = [asking EXCEPT ![a] = r]  BY DEF AskQuestion
<1>2. asking'[a] = r  BY <1>1 DEF CiteInv, AskTypes
<1>3. FoundSound(a)'  BY <1>2 DEF FoundSound
<1>4. r = [st |-> r.st, thread |-> r.thread, found |-> r.found] /\ r.thread \in Threads  OBVIOUS
<1> HIDE DEF r
<1> QED BY <1>1, <1>3, <1>4, AskKept DEF AskQuestion

LEMMA NoAnswerStep == ASSUME CiteInv, NEW a \in Asks, NoAnswer(a) PROVE CiteInv'
<1> DEFINE r == [asking[a] EXCEPT !.st = "refused"]
<1>1. asking' = [asking EXCEPT ![a] = r]  BY DEF NoAnswer
<1>2. r = [st |-> r.st, thread |-> r.thread, found |-> r.found] /\ r.thread \in Threads /\ r.st = "refused"
  BY DEF CiteInv, AskTypes
<1>3. asking'[a] = r  BY <1>1 DEF CiteInv, AskTypes
<1>4. FoundSound(a)'  BY <1>2, <1>3 DEF FoundSound
<1> HIDE DEF r
<1> QED BY <1>1, <1>2, <1>4, AskKept DEF NoAnswer

\* What is put before the model is in the scope of the question, and as it is stored.
LEMMA RetrieveStep == ASSUME CiteInv, NEW a \in Asks, Retrieve(a) PROVE CiteInv'
<1> DEFINE S == InScope(asking[a].thread)
           R(found) == [st |-> "answering", thread |-> asking[a].thread, found |-> found]
<1>1. PICK ranking \in SetToSeqs(S) : \E found \in SetToSeqs(Kept(ranking)) :
         asking' = [asking EXCEPT ![a] = R(found)]  BY DEF Retrieve
<1>2. PICK found \in SetToSeqs(Kept(ranking)) : asking' = [asking EXCEPT ![a] = R(found)]  BY <1>1
<1>3. \A n \in DOMAIN ranking : ranking[n] \in S  BY DEF SetToSeqs
<1>4. Kept(ranking) \subseteq S  BY <1>3 DEF Kept
<1>5. \A l \in DOMAIN found : found[l] \in S  BY <1>4 DEF SetToSeqs
<1>6. asking'[a] = R(found)  BY <1>2 DEF CiteInv, AskTypes
<1>7. \A p \in S : p \in Passage /\ StillThat(AsCited(p)) /\ asking[a].thread \in {0, p.talk}
  BY DEF InScope, CiteInv, RowsTold, StillThat, AsCited, Passage
<1>8. UNCHANGED <<passages, rowIds, texts, gone, threads>>  BY DEF Retrieve
<1>9. \A p \in S : p \in Passage /\ StillThat(AsCited(p))' /\ asking[a].thread \in {0, p.talk}
  BY <1>7, <1>8 DEF StillThat, AsCited
<1>10. FoundSound(a)'  BY <1>5, <1>6, <1>9 DEF FoundSound
<1>11. R(found).thread \in Threads  BY DEF CiteInv, AskTypes
<1> QED BY <1>2, <1>8, <1>10, <1>11, AskKept

LEMMA StoredStep == ASSUME CiteInv, NEW a \in Asks, AnswerStored(a) PROVE CiteInv'
<1>1. PICK labels \in SUBSET (1..(Cardinality(Talks) * Cardinality(Spots))) :
         LET m == [thread |-> asking[a].thread, ask |-> a,
                   cites |-> {AsCited(p) : p \in Cited(asking[a].found, labels)}]
         IN IF asking[a].thread \in gone
            THEN asking' = [asking EXCEPT ![a].st = "refused"] /\ UNCHANGED threads
            ELSE asking' = [asking EXCEPT ![a].st = "answered"] /\ threads' = threads \union {m}
  BY DEF AnswerStored, AsCited
<1> DEFINE m == [thread |-> asking[a].thread, ask |-> a,
                 cites |-> {AsCited(p) : p \in Cited(asking[a].found, labels)}]
<1>2. UNCHANGED <<passages, rowIds, texts, gone>> /\ asking[a].st = "answering"  BY DEF AnswerStored
<1>3. AskTypes'  BY <1>1, <1>2, ZenonT(60) DEF CiteInv, AskTypes, Threads
<1>4. RowsTold'  BY <1>2 DEF CiteInv, RowsTold
<1>5. \A b \in Asks : FoundSound(b)'
  <2>1. asking'[a].st # "answering" /\ \A b \in Asks \ {a} : asking'[b] = asking[b]
    BY <1>1 DEF CiteInv, AskTypes
  <2> QED BY <2>1, <1>2 DEF CiteInv, FoundSound, StillThat, AsCited
<1>6. CASE threads' = threads
  BY <1>6, <1>2, <1>3, <1>4, <1>5 DEF CiteInv, CitesSound, StillThat, AsCited, Threads
<1>7. CASE threads' = threads \union {m} /\ asking[a].thread \notin gone
  <2>1. \A c \in m.cites : c.id \in Nat /\ StillThat(c) /\ m.thread \in {0, c.talk}
    BY <1>2 DEF CiteInv, FoundSound, Cited, AsCited, Passage
  <2>2. m.thread \in Threads  BY DEF CiteInv, AskTypes
  <2>3. \A n : n.thread \in Threads \ gone /\ (\A c \in n.cites : c.id \in Nat /\ StillThat(c) /\ n.thread \in {0, c.talk})
               => CitesSound(n)'
    BY <1>2 DEF CitesSound, StillThat, AsCited, Threads
  <2>4. \A n \in threads : CitesSound(n)'  BY <1>2 DEF CiteInv, CitesSound, StillThat, AsCited, Threads
  <2>5. PICK n : n = m  OBVIOUS
  <2>6. n.thread \in Threads \ gone /\ \A c \in n.cites : c.id \in Nat /\ StillThat(c) /\ n.thread \in {0, c.talk}
    BY <2>1, <2>2, <2>5, <1>7
  <2>7. threads' = threads \union {n}  BY <2>5, <1>7
  <2> HIDE DEF m
  <2>8. CitesSound(n)'  BY <2>3, <2>6
  <2> QED BY <2>4, <2>7, <2>8, <1>3, <1>4, <1>5 DEF CiteInv
<1> QED BY <1>1, <1>6, <1>7

LEMMA ClearStep == ASSUME CiteInv, NEW thread \in Threads, ClearThread(thread) PROVE CiteInv'
<1>1. RowsTold'  BY DEF ClearThread, CiteInv, RowsTold
<1>2. AskTypes'  BY DEF ClearThread, CiteInv, AskTypes, Threads
<1>3. \A c : StillThat(c) => StillThat(c)'  BY DEF ClearThread, StillThat, AsCited
<1>4. threads' \subseteq threads /\ \A m \in threads' : m.thread \notin gone'
  BY DEF ClearThread, CiteInv, CitesSound
<1> QED BY <1>1, <1>2, <1>3, <1>4, SoundKept DEF ClearThread, CiteInv

LEMMA CiteStep == CiteInv /\ [AnswersNext]_answerVars => CiteInv'
<1> SUFFICES ASSUME CiteInv, [AnswersNext]_answerVars PROVE CiteInv'  OBVIOUS
<1>1. CASE UNCHANGED answerVars
  BY <1>1 DEF answerVars, CiteInv, AskTypes, RowsTold, FoundSound, CitesSound, StillThat, AsCited, Threads
<1>2. ASSUME NEW t \in Talks, Chunk(t) \/ Embed(t) \/ CorrectText(t) \/ DeleteTalk(t) PROVE CiteInv'
  BY <1>2, PartStep, EmbedStep, CorrectStep, DeleteTalkStep
<1>3. ASSUME NEW a \in Asks, (\E thread \in Threads : AskQuestion(a, thread)) \/ Retrieve(a) \/ AnswerStored(a) \/ NoAnswer(a)
      PROVE CiteInv'
  BY <1>3, AskStep, RetrieveStep, StoredStep, NoAnswerStep
<1>4. ASSUME NEW thread \in Threads, ClearThread(thread) PROVE CiteInv'  BY <1>4, ClearStep
<1> QED BY <1>1, <1>2, <1>3, <1>4 DEF AnswersNext

(* For any meetings, chunks, questions and answers of the model, a         *)
(* citation that is shown as available leads to what the model was shown   *)
(* (qa-history.ts:23).                                                     *)
THEOREM CitationsLeadCorrect == AnswersSpec => []CitationsLead
<1>1. CiteInv => CitationsLead
  BY DEF CiteInv, CitesSound, StillThat, AsCited, CitationsLead, Available, RowsTold
<1> QED BY <1>1, CiteInit, CiteStep, PTL DEF AnswersSpec

------------------------------------------------------------------------------
(* The translations of one meeting.  A line whose translation is due is    *)
(* followed from the chain to its row, to the pass that PUTs it, and to    *)
(* the server; no second job may write the row while the pass holds it.    *)

RowSet == [st : {"none", "pending", "dropped"}, of : Nat, tries : Nat]
JobSet == [seq : Spoken, of : Nat, due : BOOLEAN]
PutSet == [seq : Spoken, of : Nat]
ShownSet == {"none", "pending", "done", "failed"}
Texts == [Spoken -> Nat]

TransTypes ==
  /\ app \in {"recording", "settling", "ending", "idle"} /\ local \in {"recording", "ending", "none"}
  /\ spoken \in 0 .. TLines /\ unsent \subseteq Spoken /\ owed \subseteq Spoken
  /\ shownText \in Texts /\ text \in Texts /\ trans \in Texts /\ read \in Texts /\ dich \in Texts
  /\ shown \in [Spoken -> ShownSet] /\ rows \in [Spoken -> RowSet]
  /\ chain \in Seq(JobSet) /\ mark \in Nat /\ todo \in Seq(PutSet)

\* A line not yet spoken is nowhere; a row that waits has a text.
LinesSound ==
  \A s \in Spoken :
    /\ s > spoken => text[s] = 0 /\ shownText[s] = 0 /\ s \notin unsent /\ rows[s].st # "pending"
    /\ rows[s].st = "pending" => rows[s].of > 0

PhasesSound ==
  /\ local = "recording" => app # "ending"
  /\ local = "ending" => app \in {"ending", "idle"}
  /\ local = "none" => app = "idle" /\ todo = <<>>
  /\ app = "idle" /\ local # "none" => chain = <<>>
  /\ put # "none" => todo # <<>>

\* A job somebody waits for was made while recording, and end() waits for it.
DueSound ==
  /\ local # "recording" => \A i \in DOMAIN chain : ~chain[i].due
  /\ app = "settling" => \A i \in DOMAIN chain : chain[i].due => i <= mark

\* While a screen shows the meeting, a line has one job or one row that waits, not both.
JobsSound ==
  /\ \A i \in DOMAIN chain : chain[i].seq <= spoken /\ chain[i].of > 0
  /\ app # "idle" =>
       /\ \A i \in DOMAIN chain : shown[chain[i].seq] = "pending"
       /\ \A i, j \in DOMAIN chain : chain[i].seq = chain[j].seq => i = j
       /\ \A s \in Spoken : rows[s].st = "pending" => shown[s] = "done"

\* What the pass still has to PUT are rows that wait, each once.
TodoSound ==
  /\ \A i \in DOMAIN todo : rows[todo[i].seq].st = "pending" /\ todo[i].of > 0
  /\ \A i, j \in DOMAIN todo : todo[i].seq = todo[j].seq => i = j

\* The server holds what it answered 204 to, until a line is corrected or lost.
PutSound == put = "stored" /\ todo[1].seq \in owed => trans[todo[1].seq] > 0

EndSound ==
  ending # "none" => todo = <<>> /\ local = "ending" /\ \A s \in owed : trans[s] > 0

TransInv ==
  /\ TransTypes /\ LinesSound /\ PhasesSound /\ DueSound /\ JobsSound /\ TodoSound /\ PutSound
  /\ EndSound /\ TranslationsKept

(* Sequences. *)

LEMMA TailOf ==
  ASSUME NEW S, NEW q \in Seq(S), q # <<>>
  PROVE  /\ Head(q) = q[1] /\ q[1] \in S /\ 1 \in DOMAIN q /\ Tail(q) \in Seq(S)
         /\ \A i \in DOMAIN Tail(q) : i \in Nat /\ i + 1 \in DOMAIN q /\ Tail(q)[i] = q[i + 1] /\ i + 1 # 1
  OBVIOUS

LEMMA AppendOf ==
  ASSUME NEW S, NEW q \in Seq(S), NEW e \in S, NEW r, r = Append(q, e)
  PROVE  /\ r \in Seq(S) /\ Len(q) \in Nat /\ DOMAIN q = 1 .. Len(q)
         /\ DOMAIN r = DOMAIN q \cup {Len(q) + 1} /\ r[Len(q) + 1] = e
         /\ \A i \in DOMAIN q : r[i] = q[i]
  OBVIOUS

LEMMA BySeqOf ==
  ASSUME NEW S \in SUBSET Spoken, NEW order \in BySeq(S)
  PROVE  /\ order \in Seq(S) /\ \A i \in DOMAIN order : order[i] \in S
         /\ \A i, j \in DOMAIN order : order[i] = order[j] => i = j
<1>1. IsFiniteSet(S) /\ Cardinality(S) \in Nat
  <2>1. IsFiniteSet(Spoken)
    BY TranslationsAssumption, FS_Interval DEF Spoken
  <2>q. QED  BY <2>1, FS_Subset, FS_CardinalityType
<1>2. order \in [1 .. Cardinality(S) -> S]
      /\ \A i, j \in 1 .. Cardinality(S) : i # j => order[i] # order[j]
  BY DEF BySeq, SetToSeqs
<1>q. QED  BY <1>1, <1>2

(* The recording screen and the runner. *)

LEMMA JobIs ==
  ASSUME NEW s \in Spoken, NEW of \in Nat, NEW due \in BOOLEAN, NEW j, j = [seq |-> s, of |-> of, due |-> due]
  PROVE  j \in JobSet /\ j.seq = s /\ j.of = of /\ j.due = due
  BY DEF JobSet

LEMMA SpeakLineKeeps == ASSUME TransInv, SpeakLine  PROVE TransInv'
<1> USE DEF SpeakLine, serverT, passT, screenT
<1>1. PICK s \in Spoken : s = spoken + 1 /\ s > spoken
  BY TranslationsAssumption DEF TransInv, TransTypes, Spoken
<1>2. PICK j : j = [seq |-> s, of |-> 1, due |-> TRUE]
  OBVIOUS
<1>3. j \in JobSet /\ j.seq = s /\ j.of = 1 /\ j.due = TRUE
  BY <1>2 DEF JobSet
<1>4. /\ spoken' = s /\ unsent' = unsent \cup {s} /\ app = "recording" /\ app' = app /\ local' = local
      /\ shownText' = [shownText EXCEPT ![s] = 1] /\ shown' = [shown EXCEPT ![s] = "pending"]
      /\ chain' = Append(chain, j)
  BY <1>1, <1>2 DEF TransInv, TransTypes, Texts, Job
<1>5. /\ chain' \in Seq(JobSet) /\ Len(chain) \in Nat /\ DOMAIN chain = 1 .. Len(chain)
      /\ DOMAIN chain' = DOMAIN chain \cup {Len(chain) + 1} /\ chain'[Len(chain) + 1] = j
      /\ \A i \in DOMAIN chain : chain'[i] = chain[i] /\ chain[i] \in JobSet
  BY <1>3, <1>4, AppendOf DEF TransInv, TransTypes
<1>6. TransTypes'
  <2>1. spoken' \in 0 .. TLines /\ unsent' \subseteq Spoken
    BY <1>1, <1>4, TranslationsAssumption DEF TransInv, TransTypes, Spoken
  <2>2. shownText' \in Texts /\ shown' \in [Spoken -> ShownSet]
    BY <1>4 DEF TransInv, TransTypes, Texts, ShownSet
  <2>q. QED  BY <2>1, <2>2, <1>4, <1>5 DEF TransInv, TransTypes
<1>7. LinesSound'
  BY <1>1, <1>4 DEF TransInv, TransTypes, LinesSound, Texts, Spoken
<1>8. PhasesSound' /\ DueSound'
  <2>1. local = "recording"
    BY <1>4 DEF TransInv, TransTypes, PhasesSound
  <2>q. QED  BY <2>1, <1>4 DEF TransInv, PhasesSound, DueSound
<1>9. JobsSound'
  <2>1. \A i \in DOMAIN chain : chain[i].seq \in Nat /\ chain[i].seq <= spoken /\ chain[i].of > 0
    BY <1>5 DEF TransInv, JobsSound, JobSet, Spoken
  <2>2. \A i \in DOMAIN chain' : chain'[i].seq <= spoken' /\ chain'[i].of > 0
    BY <2>1, <1>1, <1>3, <1>4, <1>5 DEF TransInv, TransTypes
  <2>3. \A i \in DOMAIN chain' : shown'[chain'[i].seq] = "pending"
    BY <2>1, <1>3, <1>4, <1>5 DEF TransInv, TransTypes, JobsSound, JobSet
  <2>4. \A i, k \in DOMAIN chain' : chain'[i].seq = chain'[k].seq => i = k
    BY <2>1, <1>1, <1>3, <1>4, <1>5 DEF TransInv, TransTypes, JobsSound
  <2>5. \A r \in Spoken : rows'[r].st = "pending" => shown'[r] = "done"
    BY <1>1, <1>4 DEF TransInv, TransTypes, JobsSound, LinesSound
  <2>q. QED  BY <2>2, <2>3, <2>4, <2>5 DEF JobsSound
<1>10. TodoSound' /\ PutSound' /\ EndSound' /\ TranslationsKept'
  BY <1>4 DEF TransInv, TodoSound, PutSound, EndSound, TranslationsKept, Pending
<1>q. QED  BY <1>6, <1>7, <1>8, <1>9, <1>10 DEF TransInv

LEMMA RetryKeeps == ASSUME TransInv, NEW s \in Spoken, RetryTranslation(s)  PROVE TransInv'
<1> USE DEF RetryTranslation, phoneT, serverT, passT, screenT
<1>1. shownText[s] \in Nat /\ shownText[s] > 0 /\ shown[s] = "failed" /\ app # "idle"
  BY DEF TransInv, TransTypes, Texts
<1>2. PICK due \in BOOLEAN : due = (app = "recording")
  OBVIOUS
<1>3. PICK j : j = [seq |-> s, of |-> shownText[s], due |-> due]
  OBVIOUS
<1>4. j \in JobSet /\ j.seq = s /\ j.of = shownText[s] /\ j.due = due
  BY <1>1, <1>3, JobIs
<1>5. chain' = Append(chain, j) /\ shown' = [shown EXCEPT ![s] = "pending"]
  BY <1>2, <1>3 DEF Job
<1>6. /\ chain' \in Seq(JobSet) /\ Len(chain) \in Nat /\ DOMAIN chain = 1 .. Len(chain)
      /\ DOMAIN chain' = DOMAIN chain \cup {Len(chain) + 1} /\ chain'[Len(chain) + 1] = j
      /\ \A i \in DOMAIN chain : chain'[i] = chain[i] /\ chain[i] \in JobSet
  BY <1>4, <1>5, AppendOf DEF TransInv, TransTypes
<1>7. TransTypes'
  BY <1>5, <1>6 DEF TransInv, TransTypes, ShownSet
<1>8. LinesSound' /\ PhasesSound'
  BY <1>1 DEF TransInv, LinesSound, PhasesSound
<1>9. DueSound'
  BY <1>1, <1>2, <1>4, <1>6 DEF TransInv, PhasesSound, DueSound, TransTypes
<1>10. JobsSound'
  <2>1. \A i \in DOMAIN chain : chain[i].seq \in Spoken /\ shown[chain[i].seq] = "pending" /\ chain[i].seq # s
    BY <1>1, <1>6 DEF TransInv, JobsSound, JobSet
  <2>2. s <= spoken
    BY <1>1 DEF TransInv, TransTypes, LinesSound, Spoken
  <2>3. \A i \in DOMAIN chain' : chain'[i].seq <= spoken' /\ chain'[i].of > 0
    BY <2>2, <1>1, <1>4, <1>6 DEF TransInv, JobsSound
  <2>4. \A i \in DOMAIN chain' : shown'[chain'[i].seq] = "pending"
    BY <2>1, <1>4, <1>5, <1>6 DEF TransInv, TransTypes
  <2>5. \A i, k \in DOMAIN chain' : chain'[i].seq = chain'[k].seq => i = k
    BY <2>1, <1>1, <1>4, <1>6 DEF TransInv, JobsSound
  <2>6. \A r \in Spoken : rows'[r].st = "pending" => shown'[r] = "done"
    BY <1>1, <1>5 DEF TransInv, TransTypes, JobsSound
  <2>q. QED  BY <2>3, <2>4, <2>5, <2>6 DEF JobsSound
<1>11. TodoSound' /\ PutSound' /\ EndSound' /\ TranslationsKept'
  BY DEF TransInv, TodoSound, PutSound, EndSound, TranslationsKept, Pending
<1>q. QED  BY <1>7, <1>8, <1>9, <1>10, <1>11 DEF TransInv

LEMMA JobDoneKeeps == ASSUME TransInv, NEW ok \in BOOLEAN, JobDone(ok)  PROVE TransInv'
<1> USE DEF JobDone, phoneT, serverT, passT, screenT
<1> DEFINE job == chain[1]
           line == job.seq
<1>1. /\ Head(chain) = job /\ job \in JobSet /\ 1 \in DOMAIN chain /\ chain' \in Seq(JobSet)
      /\ \A i \in DOMAIN chain' : i \in Nat /\ i + 1 \in DOMAIN chain /\ chain'[i] = chain[i + 1] /\ i + 1 # 1
  BY TailOf DEF TransInv, TransTypes
<1>2. /\ line \in Spoken /\ line <= spoken /\ job.of \in Nat /\ job.of > 0
      /\ job.due => local = "recording"
      /\ app # "idle" => shown[line] = "pending" /\ rows[line].st # "pending"
  BY <1>1 DEF TransInv, TransTypes, DueSound, JobsSound, JobSet
<1>3. /\ shown' = IF app = "idle" THEN shown
                  ELSE [shown EXCEPT ![line] = IF ok THEN "done" ELSE "failed"]
      /\ owed' = IF ok /\ job.due THEN owed \cup {line} ELSE owed
      /\ mark' = IF mark > 0 THEN mark - 1 ELSE 0
  BY <1>1
<1>4. PICK row \in RowSet : row = [st |-> "pending", of |-> job.of, tries |-> 0] /\ row.st = "pending" /\ row.of > 0
  BY <1>2 DEF RowSet
<1>5. rows' = IF ok /\ local # "none" THEN [rows EXCEPT ![line] = row] ELSE rows
  BY <1>1, <1>4
<1>6. local # "none" => app # "idle"
  BY <1>1 DEF TransInv, PhasesSound
<1> HIDE DEF job, line
<1>7. TransTypes'
  <2>1. shown' \in [Spoken -> ShownSet]
    BY <1>2, <1>3 DEF TransInv, TransTypes, ShownSet
  <2>2. rows' \in [Spoken -> RowSet] /\ owed' \subseteq Spoken
    BY <1>2, <1>3, <1>4, <1>5 DEF TransInv, TransTypes
  <2>3. mark' \in Nat
    BY <1>3 DEF TransInv, TransTypes
  <2>q. QED  BY <1>1, <2>1, <2>2, <2>3 DEF TransInv, TransTypes
<1>8. LinesSound'
  <2>1. rows' = rows \/ (rows'[line] = row /\ \A s \in Spoken : s # line => rows'[s] = rows[s])
    BY <1>2, <1>5 DEF TransInv, TransTypes
  <2>2. line \in Int /\ spoken \in Int
    BY <1>2 DEF TransInv, TransTypes, Spoken
  <2>3. \A s \in Spoken : rows'[s].st = "pending" => rows'[s].of > 0
    BY <2>1, <1>4 DEF TransInv, LinesSound
  <2>4. \A s \in Spoken : s > spoken => rows'[s].st # "pending"
    BY <2>1, <2>2, <1>2 DEF TransInv, LinesSound
  <2>q. QED  BY <2>3, <2>4 DEF TransInv, LinesSound
<1>9. PhasesSound'
  BY <1>1, <1>6 DEF TransInv, PhasesSound
<1>10. DueSound'
  BY <1>1, <1>3 DEF TransInv, TransTypes, DueSound
<1>11. JobsSound'
  <2>1. \A i \in DOMAIN chain' : chain'[i].seq <= spoken' /\ chain'[i].of > 0
    BY <1>1 DEF TransInv, JobsSound
  <2>2. ASSUME app # "idle", NEW i \in DOMAIN chain'  PROVE shown'[chain'[i].seq] = "pending"
    <3>1. chain'[i].seq \in Spoken /\ chain'[i].seq # line /\ shown[chain'[i].seq] = "pending"
      <4>1. chain'[i] = chain[i + 1] /\ i + 1 \in DOMAIN chain /\ i + 1 # 1 /\ chain'[i] \in JobSet
        BY <1>1
      <4>q. QED  BY <4>1, <2>2, <1>1 DEF TransInv, JobsSound, JobSet, job, line
    <3>q. QED  BY <3>1, <1>2, <1>3 DEF TransInv, TransTypes
  <2>3. app # "idle" => \A i, k \in DOMAIN chain' : chain'[i].seq = chain'[k].seq => i = k
    BY <1>1 DEF TransInv, JobsSound
  <2>4. ASSUME app # "idle", NEW r \in Spoken, rows'[r].st = "pending"  PROVE shown'[r] = "done"
    BY <2>4, <1>2, <1>3, <1>5 DEF TransInv, TransTypes, JobsSound
  <2>q. QED  BY <2>1, <2>2, <2>3, <2>4 DEF JobsSound
<1>12. TodoSound'
  BY <1>2, <1>4, <1>5 DEF TransInv, TransTypes, TodoSound
<1>13. PutSound'
  <2>1. put # "none" => todo[1] \in PutSet /\ rows[todo[1].seq].st = "pending" /\ app # "idle"
    BY <1>6, TailOf DEF TransInv, TransTypes, PhasesSound, TodoSound
  <2>2. put # "none" => line # todo[1].seq
    BY <2>1, <1>2
  <2>q. QED  BY <2>2, <1>3 DEF TransInv, PutSound
<1>14. EndSound'
  BY <1>2, <1>3 DEF TransInv, EndSound
<1>15. TranslationsKept'
  BY <1>2, <1>3, <1>4, <1>5 DEF TransInv, TransTypes, TranslationsKept, Pending
<1>q. QED  BY <1>7, <1>8, <1>9, <1>10, <1>11, <1>12, <1>13, <1>14, <1>15 DEF TransInv

LEMMA EndKeeps == ASSUME TransInv, End \/ EndRecorded \/ EndUnfinished  PROVE TransInv'
<1> USE DEF End, EndRecorded, EndUnfinished, phoneT, runnerT, serverT, passT, screenT, Settled
<1>1. TransTypes'
  BY DEF TransInv, TransTypes
<1>2. LinesSound' /\ TodoSound' /\ TranslationsKept' /\ JobsSound'
  BY DEF TransInv, LinesSound, TodoSound, TranslationsKept, Pending, JobsSound
<1>3. PhasesSound'
  BY DEF TransInv, PhasesSound
<1>4. DueSound'
  BY DEF TransInv, TransTypes, DueSound, PhasesSound
<1>5. PutSound' /\ EndSound'
  BY DEF TransInv, PutSound, EndSound, PhasesSound
<1>q. QED  BY <1>1, <1>2, <1>3, <1>4, <1>5 DEF TransInv

LEMMA KillKeeps == ASSUME TransInv, KillApp  PROVE TransInv'
<1> USE DEF KillApp, serverT, screenT
<1>1. TransTypes'
  <2>1. shownText' \in Texts /\ shown' \in [Spoken -> ShownSet]
    BY DEF Texts, ShownSet
  <2>2. chain' \in Seq(JobSet) /\ todo' \in Seq(PutSet)
    OBVIOUS
  <2>q. QED  BY <2>1, <2>2 DEF TransInv, TransTypes
<1>2. LinesSound' /\ PhasesSound' /\ DueSound' /\ JobsSound'
  BY DEF TransInv, LinesSound, PhasesSound, DueSound, JobsSound
<1>3. TodoSound' /\ PutSound' /\ EndSound' /\ TranslationsKept'
  BY DEF TransInv, TodoSound, PutSound, EndSound, TranslationsKept, Pending
<1>q. QED  BY <1>1, <1>2, <1>3 DEF TransInv

\* After a death, only lines without a row that waits get a job again.
LEMMA ResumeKeeps == ASSUME TransInv, NEW loaded \in BOOLEAN, ResumeUnfinished(loaded)  PROVE TransInv'
<1> USE DEF ResumeUnfinished, serverT, passT, screenT
<1> DEFINE saved == {s \in Spoken : (loaded /\ trans[s] > 0) \/ rows[s].st = "pending"}
           again == {s \in Spoken : shownText'[s] > 0 /\ s \notin saved}
<1>1. /\ chain = <<>> /\ app' = local /\ local' = local /\ local \in {"recording", "ending"}
      /\ shownText' \in Texts
      /\ \A s \in Spoken : s > spoken => shownText'[s] = 0
  BY DEF TransInv, TransTypes, PhasesSound, LinesSound, Texts
<1>2. /\ shown' \in [Spoken -> ShownSet]
      /\ \A s \in Spoken : rows[s].st = "pending" => shown'[s] = "done"
  BY DEF ShownSet
<1>3. CASE local = "ending"
  <2>1. chain' = <<>>
    BY <1>1, <1>3
  <2>2. TransTypes'
    BY <2>1, <1>1, <1>2 DEF TransInv, TransTypes
  <2>3. LinesSound' /\ PhasesSound' /\ DueSound' /\ JobsSound'
    BY <2>1, <1>1, <1>2, <1>3 DEF TransInv, LinesSound, PhasesSound, DueSound, JobsSound
  <2>4. TodoSound' /\ PutSound' /\ EndSound' /\ TranslationsKept'
    BY DEF TransInv, TodoSound, PutSound, EndSound, TranslationsKept, Pending
  <2>q. QED  BY <2>2, <2>3, <2>4 DEF TransInv
<1>4. CASE local = "recording"
  <2>1. PICK order \in BySeq(again) : chain' = chain \o [i \in DOMAIN order |-> Job(order[i])]
    BY <1>4
  <2>2. \A s \in again : s \in Spoken /\ shown'[s] = "pending"
    BY <1>4
  <2>3. /\ order \in Seq(again) /\ \A i \in DOMAIN order : order[i] \in again
        /\ \A i, k \in DOMAIN order : order[i] = order[k] => i = k
    BY BySeqOf
  <2>4. \A s \in again : s <= spoken /\ shownText'[s] \in Nat /\ shownText'[s] > 0
    BY <1>1 DEF TransInv, TransTypes, Texts, Spoken
  <2> HIDE DEF again, saved
  <2>5. app' = "recording" /\ again \subseteq Spoken
    BY <1>1, <1>4, <2>2
  <2>6. PICK q : q = [i \in DOMAIN order |-> Job(order[i])]
    OBVIOUS
  <2>7. \A i \in DOMAIN order : /\ q[i] \in JobSet /\ q[i].seq = order[i] /\ q[i].of = shownText'[order[i]]
                                /\ q[i].due = TRUE
    BY <2>3, <2>4, <2>5, <2>6 DEF Job, JobSet
  <2>8. q \in Seq(JobSet) /\ DOMAIN q = DOMAIN order
    <3>1. Len(order) \in Nat /\ DOMAIN order = 1 .. Len(order) /\ DOMAIN q = DOMAIN order
      BY <2>3, <2>6
    <3>2. q \in [1 .. Len(order) -> JobSet]
      BY <3>1, <2>6, <2>7
    <3>q. QED  BY <3>1, <3>2
  <2>9. chain' = q
    BY <2>1, <2>6, <2>8, <1>1
  <2>10. TransTypes'
    BY <2>8, <2>9, <1>1, <1>2 DEF TransInv, TransTypes
  <2>11. LinesSound' /\ PhasesSound' /\ DueSound'
    BY <2>5, <1>1, <1>4 DEF TransInv, LinesSound, PhasesSound, DueSound
  <2>12. JobsSound'
    <3>1. \A i \in DOMAIN q : /\ q[i].seq = order[i] /\ q[i].seq <= spoken /\ q[i].of > 0
                             /\ shown'[q[i].seq] = "pending"
      <4>1. \A i \in DOMAIN q : q[i].seq = order[i] /\ q[i].of = shownText'[order[i]] /\ order[i] \in again
        BY ONLY <2>3, <2>7, <2>8
      <4>2. spoken' = spoken
        OBVIOUS
      <4>q. QED  BY ONLY <4>1, <4>2, <2>2, <2>4
    <3>2. \A i, k \in DOMAIN q : q[i].seq = q[k].seq => i = k
      BY <3>1, <2>3, <2>8
    <3>q. QED  BY <3>1, <3>2, <2>9, <1>2 DEF JobsSound
  <2>13. TodoSound' /\ PutSound' /\ EndSound' /\ TranslationsKept'
    BY DEF TransInv, TodoSound, PutSound, EndSound, TranslationsKept, Pending
  <2>q. QED  BY <2>10, <2>11, <2>12, <2>13 DEF TransInv
<1>q. QED  BY <1>1, <1>3, <1>4

(* The sync pass. *)

LEMMA AckedKeeps == ASSUME TransInv, NEW s \in Spoken, SegmentAcked(s)  PROVE TransInv'
<1> USE DEF SegmentAcked, runnerT, passT, screenT
<1>1. TransTypes' /\ LinesSound'
  BY DEF TransInv, TransTypes, LinesSound, Texts
<1>2. PhasesSound' /\ DueSound' /\ JobsSound'
  BY DEF TransInv, PhasesSound, DueSound, JobsSound
<1>3. TodoSound' /\ PutSound' /\ EndSound' /\ TranslationsKept'
  BY DEF TransInv, TodoSound, PutSound, EndSound, TranslationsKept, Pending
<1>q. QED  BY <1>1, <1>2, <1>3 DEF TransInv

LEMMA ReadsKeeps == ASSUME TransInv, PassReads  PROVE TransInv'
<1> USE DEF PassReads, phoneT, runnerT, serverT, screenT, Resting
<1>1. PICK order \in BySeq(Syncable) :
        todo' = [i \in DOMAIN order |-> [seq |-> order[i], of |-> rows[order[i]].of]]
  OBVIOUS
<1>2. Syncable \subseteq Spoken /\ \A s \in Syncable : rows[s].st = "pending"
  BY DEF Syncable, Pending
<1>3. /\ order \in Seq(Syncable) /\ \A i \in DOMAIN order : order[i] \in Syncable
      /\ \A i, k \in DOMAIN order : order[i] = order[k] => i = k
  BY <1>2, BySeqOf
<1>4. \A s \in Syncable : rows[s].of \in Nat /\ rows[s].of > 0
  BY <1>2 DEF TransInv, TransTypes, LinesSound, RowSet
<1>5. \A i \in DOMAIN order : todo'[i] \in PutSet /\ todo'[i].seq = order[i] /\ todo'[i].of = rows[order[i]].of
  BY <1>1, <1>2, <1>3, <1>4 DEF PutSet
<1>6. todo' \in Seq(PutSet) /\ DOMAIN todo' = DOMAIN order
  BY <1>1, <1>3, <1>5
<1>7. TransTypes'
  BY <1>6 DEF TransInv, TransTypes
<1>8. put = "none" /\ local # "none" /\ ending = "none"
  BY DEF TransInv, PhasesSound
<1>9. LinesSound' /\ PhasesSound' /\ DueSound' /\ JobsSound'
  BY <1>8 DEF TransInv, LinesSound, PhasesSound, DueSound, JobsSound
<1>10. TodoSound'
  BY <1>2, <1>3, <1>4, <1>5, <1>6 DEF TodoSound
<1>11. PutSound' /\ EndSound' /\ TranslationsKept'
  BY <1>8 DEF TransInv, PutSound, EndSound, TranslationsKept, Pending
<1>q. QED  BY <1>7, <1>9, <1>10, <1>11 DEF TransInv

\* What the server does with a PUT of a translation of version `of`.
LEMMA StoreIs ==
  ASSUME TransTypes, NEW s \in Spoken, NEW of \in Nat, of > 0, trans' = StoreTranslation(s, of)
  PROVE  /\ trans' \in Texts
         /\ \A r \in Spoken : trans[r] > 0 => trans'[r] > 0
         /\ Answer(s) = "stored" => trans'[s] > 0
  BY DEF TransTypes, StoreTranslation, Texts

LEMMA PutAppliedKeeps == ASSUME TransInv, PutApplied  PROVE TransInv'
<1> USE DEF PutApplied, phoneT, runnerT, screenT
<1>1. Head(todo) = todo[1] /\ todo[1] \in PutSet /\ 1 \in DOMAIN todo
  BY TailOf DEF TransInv, TransTypes
<1>2. todo[1].seq \in Spoken /\ todo[1].of \in Nat /\ todo[1].of > 0
  BY <1>1 DEF TransInv, TodoSound, PutSet
<1>3. /\ trans' \in Texts /\ \A r \in Spoken : trans[r] > 0 => trans'[r] > 0
      /\ put' = "stored" => trans'[todo[1].seq] > 0
  BY <1>1, <1>2, StoreIs DEF TransInv
<1>4. TransTypes'
  BY <1>3 DEF TransInv, TransTypes
<1>5. LinesSound' /\ PhasesSound' /\ DueSound' /\ JobsSound'
  BY DEF TransInv, LinesSound, PhasesSound, DueSound, JobsSound
<1>6. TodoSound' /\ PutSound' /\ EndSound' /\ TranslationsKept'
  BY <1>3 DEF TransInv, TransTypes, TodoSound, PutSound, EndSound, TranslationsKept, Pending
<1>q. QED  BY <1>4, <1>5, <1>6 DEF TransInv

\* The answer takes the first entry off what the pass has to PUT, and settles its row.
LEMMA AnsweredKeeps == ASSUME TransInv, PutAnswered  PROVE TransInv'
<1> USE DEF PutAnswered, phoneT, runnerT, serverT, screenT
<1> DEFINE t == todo[1]
           line == t.seq
<1>1. /\ Head(todo) = t /\ t \in PutSet /\ 1 \in DOMAIN todo /\ todo' \in Seq(PutSet)
      /\ \A i \in DOMAIN todo' : i \in Nat /\ i + 1 \in DOMAIN todo /\ todo'[i] = todo[i + 1] /\ i + 1 # 1
  BY TailOf DEF TransInv, TransTypes, PhasesSound
<1>2. /\ line \in Spoken /\ rows \in [Spoken -> RowSet] /\ rows[line].st = "pending"
      /\ \A i \in DOMAIN todo' : todo'[i].seq \in Spoken /\ todo'[i].seq # line
  <2>1. \A i \in DOMAIN todo' : todo'[i].seq # line
    BY <1>1 DEF TransInv, TodoSound
  <2>2. \A i \in DOMAIN todo' : todo'[i] \in PutSet
    BY <1>1
  <2>q. QED  BY <1>1, <2>1, <2>2 DEF TransInv, TransTypes, TodoSound, PutSet
<1>3. /\ rows' \in [Spoken -> RowSet] /\ owed' \subseteq owed
      /\ \A r \in Spoken : r # line => rows'[r] = rows[r]
      /\ rows'[line].st = "pending" => rows'[line].of = rows[line].of
      /\ line \in owed' => rows'[line].st = "pending" \/ put = "stored"
  <2> HIDE DEF line
  <2>1. NoRow \in RowSet /\ NoRow.st = "none"
    BY DEF NoRow, RowSet
  <2>2. CASE /\ put = "stored" /\ owed' = owed
             /\ rows' = IF rows[line].of = t.of THEN [rows EXCEPT ![line] = NoRow] ELSE rows
    BY <2>1, <2>2, <1>2
  <2>3. CASE Dropped(line)
    <3>1. rows' = [rows EXCEPT ![line].st = "dropped"] /\ owed' = owed \ {line}
      BY <2>3, <1>2 DEF Dropped
    <3>2. rows'[line].st = "dropped" /\ rows'[line] \in RowSet
      BY <3>1, <1>2 DEF RowSet
    <3>q. QED  BY <3>1, <3>2, <1>2
  <2>4. CASE rows' = [rows EXCEPT ![line].tries = @ + 1] /\ owed' = owed
    <3>1. /\ rows'[line].st = rows[line].st /\ rows'[line].of = rows[line].of
          /\ rows'[line] \in RowSet
      BY <2>4, <1>2 DEF RowSet
    <3>q. QED  BY <3>1, <2>4, <1>2
  <2>q. QED  BY <1>1, <2>2, <2>3, <2>4 DEF line
<1>4. put' = "none" /\ ending' = ending /\ todo # <<>>
  BY <1>1
<1> HIDE DEF t
<1> USE <1>2, <1>3, <1>4
<1>5. TransTypes'
  BY <1>1 DEF TransInv, TransTypes
<1>6. LinesSound'
  BY DEF TransInv, LinesSound
<1>7. PhasesSound' /\ DueSound'
  BY DEF TransInv, PhasesSound, DueSound
<1>8. JobsSound'
  BY DEF TransInv, JobsSound
<1>9. TodoSound'
  BY <1>1 DEF TransInv, TodoSound
<1>10. PutSound' /\ EndSound'
  BY DEF TransInv, PutSound, EndSound
<1>11. TranslationsKept'
  BY DEF TransInv, TransTypes, TranslationsKept, Pending, PutSound, t
<1>q. QED  BY <1>5, <1>6, <1>7, <1>8, <1>9, <1>10, <1>11 DEF TransInv

\* A pass that gives up, waits, or sends `end`.
LEMMA PassKeeps == ASSUME TransInv, PassFails \/ PassWaits \/ EndSent \/ EndApplied  PROVE TransInv'
<1> USE DEF PassFails, PassWaits, EndSent, EndApplied, phoneT, runnerT, serverT, screenT, Resting
<1>1. TransTypes' /\ LinesSound'
  <2>1. todo' \in Seq(PutSet)
    <3>1. todo' = <<>> \/ todo' = todo
      OBVIOUS
    <3>2. todo \in Seq(PutSet) /\ <<>> \in Seq(PutSet)
      BY DEF TransInv, TransTypes
    <3>q. QED  BY ONLY <3>1, <3>2
  <2>q. QED  BY <2>1 DEF TransInv, TransTypes, LinesSound
<1>2. PhasesSound' /\ DueSound' /\ JobsSound'
  BY DEF TransInv, PhasesSound, DueSound, JobsSound
<1>3. TodoSound' /\ PutSound' /\ TranslationsKept'
  BY DEF TransInv, TodoSound, PutSound, TranslationsKept, Pending
<1>4. EndSound'
  BY DEF TransInv, EndSound, TranslationsKept, AllTranslated
<1>q. QED  BY <1>1, <1>2, <1>3, <1>4 DEF TransInv

LEMMA EndAnsweredKeeps == ASSUME TransInv, EndAnswered  PROVE TransInv'
<1> USE DEF EndAnswered, serverT, screenT
<1>1. todo = <<>> /\ put = "none" /\ local = "ending" /\ \A s \in owed : trans[s] > 0
  BY DEF TransInv, EndSound, PhasesSound
<1>2. TransTypes'
  <2>1. shownText' \in Texts /\ shown' \in [Spoken -> ShownSet]
    BY DEF Texts, ShownSet
  <2>2. rows' \in [Spoken -> RowSet]
    BY DEF NoRow, RowSet
  <2>q. QED  BY <2>1, <2>2 DEF TransInv, TransTypes
<1>3. LinesSound' /\ PhasesSound' /\ DueSound' /\ JobsSound'
  BY <1>1 DEF TransInv, LinesSound, PhasesSound, DueSound, JobsSound, NoRow
<1>4. TodoSound' /\ PutSound' /\ EndSound' /\ TranslationsKept'
  BY <1>1 DEF TransInv, TodoSound, PutSound, EndSound, TranslationsKept
<1>q. QED  BY <1>2, <1>3, <1>4 DEF TransInv

(* The server, and the transcript screen. *)

LEMMA OthersKeep ==
  ASSUME TransInv, NEW s \in Spoken, ServerLoses(s) \/ CorrectLine(s)  PROVE TransInv'
<1> USE DEF ServerLoses, CorrectLine, phoneT, runnerT, passT, screenT
<1>1. /\ text' \in Texts /\ trans' \in Texts /\ owed' = owed \ {s}
      /\ \A r \in Spoken : /\ text[r] = 0 => text'[r] = 0
                           /\ r # s => trans'[r] = trans[r]
  <2>1. \E n \in Nat : text' = [text EXCEPT ![s] = n]
    BY DEF TransInv, TransTypes, Texts
  <2>2. text \in Texts /\ trans \in Texts /\ text[s] # 0 /\ trans' = [trans EXCEPT ![s] = 0] /\ owed' = owed \ {s}
    BY DEF TransInv, TransTypes, Texts
  <2>q. QED  BY ONLY <2>1, <2>2 DEF Texts
<1>2. TransTypes'
  BY <1>1 DEF TransInv, TransTypes
<1>3. LinesSound' /\ PhasesSound' /\ DueSound' /\ JobsSound'
  BY <1>1 DEF TransInv, LinesSound, PhasesSound, DueSound, JobsSound
<1>4. TodoSound' /\ PutSound' /\ EndSound' /\ TranslationsKept'
  BY <1>1 DEF TransInv, TransTypes, TodoSound, PutSound, EndSound, TranslationsKept, Pending
<1>q. QED  BY <1>2, <1>3, <1>4 DEF TransInv

LEMMA DichStoredKeeps == ASSUME TransInv, NEW s \in Spoken, DichStored(s)  PROVE TransInv'
<1> USE DEF DichStored, phoneT, runnerT, passT, serverT
<1>1. trans' \in Texts /\ \A r \in Spoken : trans[r] > 0 => trans'[r] > 0
  BY StoreIs DEF TransInv, TransTypes, Texts
<1>2. TransTypes'
  BY <1>1 DEF TransInv, TransTypes, Texts
<1>3. LinesSound' /\ PhasesSound' /\ DueSound' /\ JobsSound'
  BY DEF TransInv, LinesSound, PhasesSound, DueSound, JobsSound
<1>4. PutSound'
  <2>1. put # "none" => todo[1].seq \in Spoken
    <3>1. put # "none" => todo[1] \in PutSet
      BY TailOf DEF TransInv, TransTypes, PhasesSound
    <3>q. QED  BY <3>1 DEF PutSet
  <2>q. QED  BY <2>1, <1>1 DEF TransInv, PutSound
<1>5. TodoSound' /\ EndSound' /\ TranslationsKept'
  BY <1>1 DEF TransInv, TransTypes, TodoSound, EndSound, TranslationsKept, Pending
<1>q. QED  BY <1>2, <1>3, <1>4, <1>5 DEF TransInv

\* Steps of the server and of the transcript screen that change no line.
LEMMA ScreenKeeps ==
  ASSUME TransInv, ServerCloses \/ ChangeTarget \/ ReadTranscript \/ \E s \in Spoken : TapDich(s)  PROVE TransInv'
<1> USE DEF ServerCloses, ChangeTarget, ReadTranscript, TapDich, phoneT, runnerT, passT, serverT, screenT
<1>1. TransTypes'
  BY DEF TransInv, TransTypes, Texts
<1>2. LinesSound' /\ PhasesSound' /\ DueSound' /\ JobsSound'
  BY DEF TransInv, LinesSound, PhasesSound, DueSound, JobsSound
<1>3. TodoSound' /\ PutSound' /\ EndSound' /\ TranslationsKept'
  BY DEF TransInv, TodoSound, PutSound, EndSound, TranslationsKept, Pending
<1>q. QED  BY <1>1, <1>2, <1>3 DEF TransInv

LEMMA TransStart == ASSUME TransInit  PROVE TransInv
<1> USE DEF TransInit
<1>1. TransTypes
  <2>1. rows \in [Spoken -> RowSet] /\ shown \in [Spoken -> ShownSet]
    BY DEF NoRow, RowSet, ShownSet
  <2>2. spoken \in 0 .. TLines /\ chain \in Seq(JobSet) /\ todo \in Seq(PutSet)
    BY TranslationsAssumption
  <2>q. QED  BY <2>1, <2>2 DEF TransTypes, Texts
<1>2. LinesSound /\ PhasesSound /\ DueSound /\ JobsSound
  BY DEF LinesSound, PhasesSound, DueSound, JobsSound, NoRow
<1>3. TodoSound /\ PutSound /\ EndSound /\ TranslationsKept
  BY DEF TodoSound, PutSound, EndSound, TranslationsKept
<1>q. QED  BY <1>1, <1>2, <1>3 DEF TransInv

LEMMA TransStep == ASSUME TransInv, [TransNext]_transVars  PROVE TransInv'
<1>1. CASE UNCHANGED transVars
  <2> USE <1>1 DEF transVars, phoneT, runnerT, passT, serverT, screenT
  <2>1. TransTypes'
    BY DEF TransInv, TransTypes
  <2>2. LinesSound' /\ PhasesSound' /\ DueSound' /\ JobsSound'
    BY DEF TransInv, LinesSound, PhasesSound, DueSound, JobsSound
  <2>3. TodoSound' /\ PutSound' /\ EndSound' /\ TranslationsKept'
    BY DEF TransInv, TodoSound, PutSound, EndSound, TranslationsKept, Pending
  <2>q. QED  BY <2>1, <2>2, <2>3 DEF TransInv
<1>2. CASE TransNext
  BY <1>2, SpeakLineKeeps, RetryKeeps, JobDoneKeeps, EndKeeps, KillKeeps, ResumeKeeps, AckedKeeps,
     ReadsKeeps, PutAppliedKeeps, AnsweredKeeps, PassKeeps, EndAnsweredKeeps, OthersKeep,
     DichStoredKeeps, ScreenKeeps DEF TransNext
<1>q. QED  BY <1>1, <1>2

\* A translation that end() waited for stays on the phone or on the server, whatever is lost,
\* killed or deleted meanwhile.
THEOREM TranslationsKeptCorrect == TransSpec => []TranslationsKept
<1>1. TransInv => TranslationsKept
  BY DEF TransInv
<1>q. QED  BY <1>1, TransStart, TransStep, PTL DEF TransSpec

------------------------------------------------------------------------------
(* How a transcript is cut.  Induction is over sets of numbers: the set    *)
(* of those a fact holds of contains 0 and, with each number, the next.    *)

LEMMA LeastNumber ==
  ASSUME NEW S \in SUBSET Nat, S # {}
  PROVE  \E x \in S : \A y \in S : x <= y
<1> DEFINE R == OpToRel(<, Nat)
<1>1. IsWellFoundedOn(R, Nat)
  BY NatLessThanWellFounded
<1>2. PICK x \in S : \A y \in S : ~(<<y, x>> \in R)
  <2> HIDE DEF R
  <2>q. QED  BY <1>1, WFMin
<1>3. \A y \in S : ~(y < x)
  BY <1>2 DEF OpToRel
<1>q. QED  BY <1>3

LEMMA Upwards ==
  ASSUME NEW S, 0 \in S, \A n \in Nat : n \in S => n + 1 \in S
  PROVE  \A n \in Nat : n \in S
<1>1. SUFFICES ASSUME Nat \ S # {} PROVE FALSE
  OBVIOUS
<1>2. PICK x \in Nat \ S : \A y \in Nat \ S : x <= y
  BY <1>1, LeastNumber
<1>3. x # 0 /\ x - 1 \in Nat
  BY <1>2
<1>4. x - 1 \in S
  BY <1>2, <1>3
<1>q. QED  BY <1>2, <1>3, <1>4

LEMMA MinOf ==
  ASSUME NEW S \in SUBSET Nat, S # {}
  PROVE  Min(S) \in S /\ \A y \in S : Min(S) <= y
  BY LeastNumber DEF Min

LEMMA MaxOf ==
  ASSUME NEW b \in Nat, NEW S \in SUBSET (0 .. b), S # {}
  PROVE  Max(S) \in S /\ \A y \in S : y <= Max(S)
<1> DEFINE T == {b - y : y \in S}
<1>1. \A y \in S : y \in Int /\ b - y \in Nat
  OBVIOUS
<1>2. T \in SUBSET Nat /\ T # {}
  BY <1>1
<1>3. PICK x \in T : \A z \in T : x <= z
  BY <1>2, LeastNumber
<1>4. PICK m \in S : x = b - m
  BY <1>3
<1>5. ASSUME NEW y \in S  PROVE m >= y
  <2>1. b - y \in T
    OBVIOUS
  <2>2. b - m <= b - y
    BY <2>1, <1>3, <1>4
  <2>q. QED  BY <2>2, <1>1
<1>6. \E n \in S : \A y \in S : n >= y
  BY <1>5
<1>7. Max(S) \in S /\ \A y \in S : Max(S) >= y
  BY <1>6 DEF Max
<1>q. QED  BY <1>7, <1>1

Transcripts == [Lines -> [tokens : Sizes, pause : Pauses]]

LEMMA Numbers == NLines \in Nat /\ NLines # 0 /\ Target \in Nat /\ LongPause \in Nat /\ LongPause # 0 /\ OverlapPct \in Nat
  BY ChunkerAssumption

LEMMA LineIs ==
  ASSUME NEW line \in Transcripts, NEW k \in Lines
  PROVE  line[k].tokens \in Nat /\ line[k].pause \in Nat
  BY ChunkerAssumption DEF Transcripts

\* The sums exist, and satisfy their recursion.
LEMMA SumExists ==
  ASSUME NEW line \in Transcripts, NEW i \in 1 .. (NLines + 1)
  PROVE  \E f \in [0 .. NLines -> Nat] :
           f = [n \in 0 .. NLines |-> IF n < i THEN 0 ELSE f[n - 1] + line[n].tokens]
<1> DEFINE Sums(f, n) == f[n] = IF n < i THEN 0 ELSE f[n - 1] + line[n].tokens
           S == {k \in Nat : \E f \in [0 .. NLines -> Nat] : \A n \in 0 .. NLines : n <= k => Sums(f, n)}
<1>1. 0 \in S
  <2>1. [n \in 0 .. NLines |-> 0] \in [0 .. NLines -> Nat]
    OBVIOUS
  <2>2. PICK f \in [0 .. NLines -> Nat] : f = [n \in 0 .. NLines |-> 0]
    BY <2>1
  <2>3. \A n \in 0 .. NLines : n <= 0 => Sums(f, n)
    BY <2>2, Numbers
  <2>q. QED  BY <2>3
<1>2. ASSUME NEW k \in Nat, k \in S  PROVE k + 1 \in S
  <2>1. PICK f \in [0 .. NLines -> Nat] : \A n \in 0 .. NLines : n <= k => Sums(f, n)
    BY <1>2
  <2>2. CASE ~(k + 1 <= NLines)
    <3>1. \A n \in 0 .. NLines : n <= k
      BY <2>2, Numbers
    <3>2. \A n \in 0 .. NLines : n <= k + 1 => Sums(f, n)
      BY <2>1, <3>1
    <3>3. k + 1 \in Nat
      OBVIOUS
    <3> HIDE DEF Sums
    <3>q. QED  BY ONLY <3>2, <3>3, f \in [0 .. NLines -> Nat]
  <2>3. CASE k + 1 <= NLines
    <3>1. k + 1 \in Lines /\ k \in 0 .. NLines /\ k + 1 \in 0 .. NLines
      BY <2>3, Numbers DEF Lines
    <3>2. PICK v \in Nat : v = IF k + 1 < i THEN 0 ELSE f[k] + line[k + 1].tokens
      BY <3>1, LineIs
    <3>3. PICK g \in [0 .. NLines -> Nat] : g = [f EXCEPT ![k + 1] = v]
      BY <3>1
    <3>4. g[k + 1] = v /\ \A n \in 0 .. NLines : n # k + 1 => g[n] = f[n]
      BY <3>1, <3>3
    <3>5. ASSUME NEW n \in 0 .. NLines, n <= k + 1  PROVE Sums(g, n)
      <4>1. CASE n = k + 1
        BY <4>1, <3>1, <3>2, <3>4
      <4>2. CASE n # k + 1
        <5>1. n <= k /\ Sums(f, n) /\ g[n] = f[n]
          BY <4>2, <3>4, <3>5, <2>1
        <5>2. ~(n < i) => n - 1 \in 0 .. NLines /\ n - 1 # k + 1 /\ g[n - 1] = f[n - 1]
          BY <5>1, <3>4, Numbers
        <5>q. QED  BY <5>1, <5>2
      <4>q. QED  BY <4>1, <4>2
    <3>6. \A n \in 0 .. NLines : n <= k + 1 => Sums(g, n)
      BY <3>5
    <3>7. k + 1 \in Nat
      OBVIOUS
    <3> HIDE DEF Sums
    <3>q. QED  BY ONLY <3>6, <3>7, g \in [0 .. NLines -> Nat]
  <2>q. QED  BY <2>2, <2>3
<1>3. NLines \in S
  <2> HIDE DEF S
  <2>q. QED  BY <1>1, <1>2, Upwards, Numbers
<1>4. PICK f \in [0 .. NLines -> Nat] : \A n \in 0 .. NLines : n <= NLines => Sums(f, n)
  BY <1>3
<1>5. \A n \in 0 .. NLines : Sums(f, n)
  BY <1>4, Numbers
<1>q. QED  BY <1>5

LEMMA TokensIs ==
  ASSUME NEW line \in Transcripts, NEW i \in 1 .. (NLines + 1)
  PROVE  \E f \in [0 .. NLines -> Nat] :
           /\ \A j \in 0 .. NLines : f[j] = IF j < i THEN 0 ELSE f[j - 1] + line[j].tokens
           /\ \A j \in 0 .. NLines : Tokens(line, i, j) = f[j]
<1> DEFINE u == CHOOSE f : f = [n \in 0 .. NLines |-> IF n < i THEN 0 ELSE f[n - 1] + line[n].tokens]
<1>1. u = [n \in 0 .. NLines |-> IF n < i THEN 0 ELSE u[n - 1] + line[n].tokens]
  BY SumExists, ZenonT(60)
<1>2. \A j : Tokens(line, i, j) = u[j]
  BY DEF Tokens
<1> HIDE DEF u
<1>3. ASSUME NEW j \in 0 .. NLines  PROVE u[j] = IF j < i THEN 0 ELSE u[j - 1] + line[j].tokens
  BY <1>1
<1>4. \A j \in 0 .. NLines : u[j] \in Nat
  <2> DEFINE S == {n \in Nat : n \in 0 .. NLines => u[n] \in Nat}
  <2>1. 0 \in S
    BY <1>3, Numbers
  <2>2. ASSUME NEW n \in Nat, n \in S  PROVE n + 1 \in S
    <3>1. CASE ~(n + 1 \in 0 .. NLines)
      BY <3>1
    <3>2. CASE n + 1 \in 0 .. NLines
      <4>1. u[n] \in Nat /\ line[n + 1].tokens \in Nat
        BY <3>2, <2>2, LineIs, Numbers DEF Lines
      <4>2. u[n + 1] = IF n + 1 < i THEN 0 ELSE u[n] + line[n + 1].tokens
        BY <3>2, <1>3
      <4>q. QED  BY <4>1, <4>2
    <3>q. QED  BY <3>1, <3>2
  <2>3. \A n \in Nat : n \in S
    <3> HIDE DEF S
    <3>q. QED  BY <2>1, <2>2, Upwards
  <2>q. QED  BY <2>3
<1>5. u \in [0 .. NLines -> Nat]
  BY <1>1, <1>4
<1>q. QED  BY <1>2, <1>3, <1>5

LEMMA TokensGrow ==
  ASSUME NEW line \in Transcripts, NEW i \in 1 .. (NLines + 1)
  PROVE  /\ \A j \in 0 .. NLines : Tokens(line, i, j) \in Nat /\ (j < i => Tokens(line, i, j) = 0)
         /\ \A j, k \in 0 .. NLines : j <= k => Tokens(line, i, j) <= Tokens(line, i, k)
<1>1. PICK f \in [0 .. NLines -> Nat] :
        /\ \A j \in 0 .. NLines : f[j] = IF j < i THEN 0 ELSE f[j - 1] + line[j].tokens
        /\ \A j \in 0 .. NLines : Tokens(line, i, j) = f[j]
  BY TokensIs
<1>2. ASSUME NEW j \in 0 .. NLines, NEW k \in 0 .. NLines, j <= k  PROVE f[j] <= f[k]
  <2> DEFINE S == {n \in Nat : j + n \in 0 .. NLines => f[j] <= f[j + n]}
  <2>1. 0 \in S
    BY Numbers
  <2>2. ASSUME NEW n \in Nat, n \in S  PROVE n + 1 \in S
    <3>1. CASE ~(j + (n + 1) \in 0 .. NLines)
      BY <3>1
    <3>2. CASE j + (n + 1) \in 0 .. NLines
      <4>1. PICK m \in Lines : m = j + (n + 1) /\ m - 1 = j + n /\ m \in 0 .. NLines /\ m - 1 \in 0 .. NLines
        BY <3>2, Numbers DEF Lines
      <4>2. f[j] <= f[m - 1] /\ f[j] \in Nat /\ f[m - 1] \in Nat /\ f[m] \in Nat /\ line[m].tokens \in Nat
        BY <2>2, <4>1, LineIs
      <4>3. CASE m < i
        <5>1. f[m] = 0 /\ f[j] = 0
          BY <4>1, <4>3, <1>1, Numbers
        <5>q. QED  BY <5>1, <4>1
      <4>4. CASE ~(m < i)
        <5>1. f[m] = f[m - 1] + line[m].tokens
          BY <4>1, <4>4, <1>1
        <5>q. QED  BY <5>1, <4>1, <4>2
      <4>q. QED  BY <4>3, <4>4
    <3>q. QED  BY <3>1, <3>2
  <2>3. \A n \in Nat : n \in S
    <3> HIDE DEF S
    <3>q. QED  BY <2>1, <2>2, Upwards
  <2>4. k - j \in Nat /\ j + (k - j) = k
    BY <1>2, Numbers
  <2>5. k - j \in S
    BY <2>3, <2>4
  <2>q. QED  BY <2>4, <2>5
<1>3. \A j \in 0 .. NLines : Tokens(line, i, j) \in Nat /\ (j < i => Tokens(line, i, j) = 0)
  BY <1>1
<1>q. QED  BY <1>1, <1>2, <1>3

\* Fewer lines, fewer tokens.
LEMMA TokensShrink ==
  ASSUME NEW line \in Transcripts, NEW i \in 1 .. (NLines + 1), NEW h \in 1 .. (NLines + 1), h <= i
  PROVE  \A j \in 0 .. NLines : Tokens(line, i, j) <= Tokens(line, h, j)
<1>1. PICK f \in [0 .. NLines -> Nat] :
        /\ \A j \in 0 .. NLines : f[j] = IF j < i THEN 0 ELSE f[j - 1] + line[j].tokens
        /\ \A j \in 0 .. NLines : Tokens(line, i, j) = f[j]
  BY TokensIs
<1>2. PICK g \in [0 .. NLines -> Nat] :
        /\ \A j \in 0 .. NLines : g[j] = IF j < h THEN 0 ELSE g[j - 1] + line[j].tokens
        /\ \A j \in 0 .. NLines : Tokens(line, h, j) = g[j]
  BY TokensIs
<1> DEFINE S == {n \in Nat : n \in 0 .. NLines => f[n] <= g[n]}
<1>3. 0 \in S
  BY <1>1, <1>2, Numbers
<1>4. ASSUME NEW n \in Nat, n \in S  PROVE n + 1 \in S
  <2>1. CASE ~(n + 1 \in 0 .. NLines)
    BY <2>1
  <2>2. CASE n + 1 \in 0 .. NLines
    <3>1. PICK m \in Lines : m = n + 1 /\ m - 1 = n /\ m \in 0 .. NLines /\ n \in 0 .. NLines
      BY <2>2, Numbers DEF Lines
    <3>2. /\ f[n] <= g[n] /\ f[n] \in Nat /\ g[n] \in Nat /\ f[m] \in Nat /\ g[m] \in Nat
          /\ line[m].tokens \in Nat
      BY <3>1, <1>4, LineIs
    <3>3. f[m] = IF m < i THEN 0 ELSE f[n] + line[m].tokens
      BY <3>1, <1>1
    <3>4. g[m] = IF m < h THEN 0 ELSE g[n] + line[m].tokens
      BY <3>1, <1>2
    <3>5. m < i \/ ~(m < h)
      BY <3>1, Numbers
    <3>6. f[m] <= g[m]
      BY <3>2, <3>3, <3>4, <3>5
    <3>q. QED  BY <3>1, <3>6
  <2>q. QED  BY <2>1, <2>2
<1>5. \A n \in Nat : n \in S
  <2> HIDE DEF S
  <2>q. QED  BY <1>3, <1>4, Upwards
<1>q. QED  BY <1>1, <1>2, <1>5, Numbers

\* Some number is above every pause.
LEMMA PausesBounded ==
  ASSUME NEW line \in Transcripts  PROVE \E b \in Nat : \A k \in Lines : line[k].pause <= b
<1> DEFINE S == {n \in Nat : \E b \in Nat : \A k \in Lines : k <= n => line[k].pause <= b}
<1>1. 0 \in S
  BY Numbers DEF Lines
<1>2. ASSUME NEW n \in Nat, n \in S  PROVE n + 1 \in S
  <2>1. PICK b \in Nat : \A k \in Lines : k <= n => line[k].pause <= b
    BY <1>2
  <2>2. PICK p \in Nat : n + 1 \in Lines => p = line[n + 1].pause
    BY LineIs
  <2>3. ASSUME NEW k \in Lines, k <= n + 1  PROVE line[k].pause <= b + p
    <3>1. line[k].pause \in Nat /\ k \in Nat
      BY LineIs, Numbers DEF Lines
    <3>2. CASE k <= n
      BY <3>1, <3>2, <2>1
    <3>3. CASE k = n + 1
      BY <3>1, <3>3, <2>2
    <3>q. QED  BY <2>3, <3>1, <3>2, <3>3
  <2>4. b + p \in Nat /\ n + 1 \in Nat
    OBVIOUS
  <2>q. QED  BY <2>3, <2>4
<1>3. NLines \in S
  <2> HIDE DEF S
  <2>q. QED  BY <1>1, <1>2, Upwards, Numbers
<1>q. QED  BY <1>3, Numbers DEF Lines

LEMMA FillEndIs ==
  ASSUME NEW line \in Transcripts, NEW start \in Lines, NEW last \in Lines, start <= last
  PROVE  /\ FillEnd(line, start, last) \in start .. last
         /\ start < FillEnd(line, start, last) => Tokens(line, start, FillEnd(line, start, last)) <= Target
         /\ \A e \in start .. last : Tokens(line, start, e) <= Target => e <= FillEnd(line, start, last)
<1> DEFINE S == {start} \cup {e \in start .. last : Tokens(line, start, e) <= Target}
<1>1. S \in SUBSET (0 .. NLines) /\ S # {} /\ NLines \in Nat
  BY Numbers DEF Lines
<1>2. Max(S) \in S /\ \A e \in S : e <= Max(S)
  BY <1>1, MaxOf
<1>3. FillEnd(line, start, last) = Max(S)
  BY DEF FillEnd
<1>q. QED  BY <1>2, <1>3, Numbers DEF Lines

\* Line k lies in the part of a chunk from `start` where it may end.
InWindow(line, start, k) == 100 * Tokens(line, start, k) >= Target * MinBoundPct

\* The end found is the first of the longest pauses of the window, if any of them is long.
LEMMA PreferPauseIs ==
  ASSUME NEW line \in Transcripts, NEW start \in Lines, NEW end \in Lines, start <= end, end < NLines
  PROVE  \E p \in start .. end :
           /\ PreferPause(line, start, end) = p
           /\ p = end \/ (line[p + 1].pause >= LongPause /\ InWindow(line, start, p))
           /\ \A k \in start .. end :
                InWindow(line, start, k) /\ line[k + 1].pause >= LongPause =>
                  /\ line[k + 1].pause <= line[p + 1].pause
                  /\ k < p => line[k + 1].pause < line[p + 1].pause
<1> DEFINE candidates == {k \in start .. end : InWindow(line, start, k)}
           lengths == {0} \cup {line[k + 1].pause : k \in candidates}
           longest == Max(lengths)
           best == {k \in candidates : line[k + 1].pause = longest}
<1>1. PreferPause(line, start, end) = IF longest >= LongPause THEN Min(best) ELSE end
  BY DEF PreferPause, InWindow
<1>2. start \in Nat /\ end \in Nat /\ candidates \subseteq start .. end
      /\ \A k \in start .. end : k \in Nat /\ k + 1 \in Lines /\ (InWindow(line, start, k) <=> k \in candidates)
  BY Numbers DEF Lines
<1> HIDE DEF candidates
<1>3. PICK b \in Nat : \A k \in Lines : line[k].pause <= b
  BY PausesBounded
<1>4. lengths \in SUBSET (0 .. b) /\ lengths # {}
  BY <1>2, <1>3, LineIs
<1>5. longest \in lengths /\ \A n \in lengths : n <= longest
  BY <1>4, MaxOf
<1>6. longest \in Nat /\ \A k \in candidates : line[k + 1].pause <= longest /\ line[k + 1].pause \in Nat
  BY <1>2, <1>4, <1>5, LineIs
<1> HIDE DEF longest
<1>7. CASE longest >= LongPause
  <2>1. \E k \in candidates : line[k + 1].pause = longest
    BY <1>5, <1>7, Numbers
  <2>2. best \in SUBSET Nat /\ best # {}
    BY <2>1, <1>2
  <2>3. PICK p \in best : p = Min(best) /\ \A k \in best : p <= k
    BY <2>2, MinOf
  <2>4. PreferPause(line, start, end) = p /\ p \in start .. end /\ p \in candidates /\ line[p + 1].pause = longest
    BY <2>3, <1>1, <1>2, <1>7
  <2>5. ASSUME NEW k \in start .. end, InWindow(line, start, k), line[k + 1].pause >= LongPause
        PROVE  line[k + 1].pause <= line[p + 1].pause /\ (k < p => line[k + 1].pause < line[p + 1].pause)
    <3>1. k \in candidates /\ line[k + 1].pause <= longest /\ line[k + 1].pause \in Nat
      BY <2>5, <1>2, <1>6
    <3>2. k < p => line[k + 1].pause # longest
      <4>1. line[k + 1].pause = longest => k \in best
        BY <3>1
      <4>2. k \in best => p <= k
        BY <2>3
      <4>3. k \in Nat /\ p \in Nat
        BY <1>2, <2>4
      <4>q. QED  BY ONLY <4>1, <4>2, <4>3
    <3>q. QED  BY <3>1, <3>2, <2>4, <1>6
  <2>q. QED  BY <2>4, <2>5, <1>2, <1>7
<1>8. CASE ~(longest >= LongPause)
  <2>1. PreferPause(line, start, end) = end /\ end \in start .. end
    BY <1>1, <1>2, <1>8
  <2>2. \A k \in start .. end : InWindow(line, start, k) => ~(line[k + 1].pause >= LongPause)
    BY <1>2, <1>6, <1>8, Numbers
  <2>q. QED  BY <2>1, <2>2
<1>q. QED  BY <1>7, <1>8

LEMMA ChunkEndIs ==
  ASSUME NEW line \in Transcripts, NEW start \in Lines, NEW last \in Lines, start <= last
  PROVE  /\ ChunkEnd(line, start, last) \in start .. last
         /\ start < ChunkEnd(line, start, last) => Tokens(line, start, ChunkEnd(line, start, last)) <= Target
<1> DEFINE end == FillEnd(line, start, last)
<1>1. end \in start .. last /\ (start < end => Tokens(line, start, end) <= Target)
  BY FillEndIs
<1>2. ChunkEnd(line, start, last) = IF end < last THEN PreferPause(line, start, end) ELSE end
  BY DEF ChunkEnd
<1> HIDE DEF end
<1>3. CASE ~(end < last)
  BY <1>1, <1>2, <1>3
<1>4. CASE end < last
  <2>1. end \in Lines /\ start <= end /\ end < NLines /\ start \in Nat
    BY <1>1, <1>4, Numbers DEF Lines
  <2>2. PICK e \in start .. end : PreferPause(line, start, end) = e
    BY <2>1, PreferPauseIs
  <2>3. ChunkEnd(line, start, last) = e
    BY <2>2, <1>2, <1>4
  <2>4. start \in 1 .. (NLines + 1) /\ e \in 0 .. NLines /\ end \in 0 .. NLines /\ e <= end /\ e >= start
    BY <2>1, <2>2, Numbers DEF Lines
  <2>5. /\ Tokens(line, start, e) <= Tokens(line, start, end)
        /\ Tokens(line, start, e) \in Nat /\ Tokens(line, start, end) \in Nat
    BY <2>4, TokensGrow
  <2>6. start < e => Tokens(line, start, e) <= Target
    BY <2>4, <2>5, <2>1, <1>1, Numbers
  <2>q. QED  BY <2>1, <2>2, <2>3, <2>6, <1>1, <1>4
<1>q. QED  BY <1>3, <1>4

LEMMA OverlapStartIs ==
  ASSUME NEW line \in Transcripts, NEW start \in Lines, NEW end \in Lines, start <= end
  PROVE  /\ OverlapStart(line, start, end) \in (start + 1) .. (end + 1)
         /\ 100 * Tokens(line, OverlapStart(line, start, end), end) <= OverlapPct * Tokens(line, start, end)
<1> DEFINE S == {n \in (start + 1) .. (end + 1) :
                   100 * Tokens(line, n, end) <= OverlapPct * Tokens(line, start, end)}
<1>1. /\ start \in 1 .. (NLines + 1) /\ end \in 0 .. NLines /\ end + 1 \in 1 .. (NLines + 1)
      /\ start \in Nat /\ end \in Nat
  BY Numbers DEF Lines
<1>2. Tokens(line, end + 1, end) = 0 /\ Tokens(line, start, end) \in Nat
  BY <1>1, TokensGrow
<1>3. OverlapPct * Tokens(line, start, end) \in Nat
  BY <1>2, Numbers
<1>4. end + 1 \in S
  BY <1>1, <1>2, <1>3
<1>5. S \in SUBSET Nat
  BY <1>1
<1>6. Min(S) \in S
  BY <1>4, <1>5, MinOf
<1>7. OverlapStart(line, start, end) = Min(S)
  BY DEF OverlapStart
<1>q. QED  BY <1>6, <1>7

\* A chunk that starts inside the one before ends no earlier than it.
LEMMA NextReaches ==
  ASSUME NEW line \in Transcripts, NEW start \in Lines, NEW last \in Lines, NEW n \in Lines,
         start <= last, start < n, n <= ChunkEnd(line, start, last), ChunkEnd(line, start, last) < last
  PROVE  ChunkEnd(line, start, last) <= ChunkEnd(line, n, last)
<1> DEFINE e1 == FillEnd(line, start, last)
           e2 == FillEnd(line, n, last)
<1>1. start \in Nat /\ last \in Nat /\ n \in Nat /\ last <= NLines /\ start <= last /\ n <= last
      /\ 1 <= start /\ NLines \in Nat
  <2>1. ChunkEnd(line, start, last) \in start .. last
    BY ChunkEndIs
  <2>q. QED  BY <2>1, Numbers DEF Lines
<1>2. PICK m \in start .. last : m = ChunkEnd(line, start, last)
  BY <1>1, ChunkEndIs
<1>3. start < m /\ n <= m /\ m < last /\ Tokens(line, start, m) <= Target /\ m \in Nat
  BY <1>1, <1>2, ChunkEndIs
<1>4. e1 \in start .. last /\ e2 \in n .. last /\ \A e \in n .. last : Tokens(line, n, e) <= Target => e <= e2
  BY <1>1, FillEndIs
<1>5. ChunkEnd(line, start, last) = (IF e1 < last THEN PreferPause(line, start, e1) ELSE e1)
      /\ ChunkEnd(line, n, last) = (IF e2 < last THEN PreferPause(line, n, e2) ELSE e2)
  BY DEF ChunkEnd
<1> HIDE DEF e1, e2
<1>6. start \in 1 .. (NLines + 1) /\ n \in 1 .. (NLines + 1) /\ \A k \in start .. last : k \in 0 .. NLines /\ k \in Lines
  BY <1>1 DEF Lines
<1>7. \A k \in start .. last : /\ Tokens(line, n, k) <= Tokens(line, start, k)
                             /\ Tokens(line, n, k) \in Nat /\ Tokens(line, start, k) \in Nat
  BY <1>1, <1>6, TokensShrink, TokensGrow
<1>8. m <= e2
  <2>1. Tokens(line, n, m) <= Target /\ m \in n .. last
    BY <1>1, <1>2, <1>3, <1>7, Numbers
  <2>q. QED  BY <2>1, <1>4
<1>9. CASE ~(e2 < last)
  BY <1>1, <1>2, <1>3, <1>4, <1>5, <1>9
<1>10. CASE e2 < last
  <2>1. e1 < last
    BY <1>1, <1>2, <1>3, <1>4, <1>5
  <2>2. e1 \in Lines /\ e2 \in Lines /\ start <= e1 /\ n <= e2 /\ e1 < NLines /\ e2 < NLines
    BY <2>1, <1>1, <1>4, <1>10, Numbers DEF Lines
  <2>3. \A k \in start .. e1 :
          InWindow(line, start, k) /\ line[k + 1].pause >= LongPause =>
            (k < m => line[k + 1].pause < line[m + 1].pause)
    <3>1. PICK p \in start .. e1 :
            /\ PreferPause(line, start, e1) = p
            /\ \A k \in start .. e1 :
                InWindow(line, start, k) /\ line[k + 1].pause >= LongPause =>
                  (k < p => line[k + 1].pause < line[p + 1].pause)
      BY <2>2, PreferPauseIs
    <3>2. p = m
      BY <3>1, <2>1, <1>2, <1>5
    <3>q. QED  BY <3>1, <3>2
  <2>4. m \in start .. e1
    <3>1. PICK p \in start .. e1 : PreferPause(line, start, e1) = p
      BY <2>2, PreferPauseIs
    <3>q. QED  BY <3>1, <2>1, <1>2, <1>5
  <2>5. PICK p \in n .. e2 :
          /\ PreferPause(line, n, e2) = p
          /\ p = e2 \/ (line[p + 1].pause >= LongPause /\ InWindow(line, n, p))
          /\ \A k \in n .. e2 :
                InWindow(line, n, k) /\ line[k + 1].pause >= LongPause =>
                  line[k + 1].pause <= line[p + 1].pause
    BY <2>2, PreferPauseIs
  <2>6. SUFFICES ASSUME p < m PROVE FALSE
    BY <2>5, <1>1, <1>2, <1>3, <1>4, <1>5, <1>10
  <2>7. p \in start .. e1 /\ p \in start .. last /\ m \in start .. last /\ m \in n .. e2 /\ p \in Nat
    BY <2>4, <2>5, <2>6, <1>1, <1>3, <1>4, <1>8, <1>10
  <2>8. line[p + 1].pause >= LongPause /\ InWindow(line, n, p)
    BY <2>5, <2>6, <2>7, <1>1, <1>3, <1>4, <1>8
  <2>9. Target * MinBoundPct \in Nat
    BY ChunkerAssumption
  <2>10. InWindow(line, start, p)
    BY <2>7, <2>8, <2>9, <1>7 DEF InWindow
  <2>11. InWindow(line, n, m)
    <3>1. Tokens(line, n, p) <= Tokens(line, n, m)
      BY <2>6, <2>7, <1>6, TokensGrow
    <3>q. QED  BY <3>1, <2>7, <2>8, <2>9, <1>7 DEF InWindow
  <2>12. /\ line[p + 1].pause \in Nat /\ line[m + 1].pause \in Nat
         /\ line[p + 1].pause < line[m + 1].pause
    <3>1. p + 1 \in Lines /\ m + 1 \in Lines
      BY <2>2, <2>4, <2>7, <1>1, <1>3 DEF Lines
    <3>q. QED  BY <3>1, <2>3, <2>6, <2>7, <2>8, <2>10, LineIs
  <2>13. line[m + 1].pause <= line[p + 1].pause
    BY <2>5, <2>7, <2>8, <2>11, <2>12, Numbers
  <2>q. QED  BY <2>12, <2>13
<1>q. QED  BY <1>9, <1>10

(* Cuttings. *)

Ranges == Lines \X Lines

\* What CutsCoverTranscript asks of a cutting q of the lines from..to, and a little more.
Sound(q, from, to) ==
  /\ q \in Seq(Ranges) /\ q # <<>> /\ q[1][1] = from /\ q[Len(q)][2] = to
  /\ \A i \in 1 .. Len(q) : from <= q[i][1] /\ q[i][1] <= q[i][2] /\ q[i][2] <= to
  /\ \A i \in 1 .. (Len(q) - 1) :
       q[i][1] < q[i + 1][1] /\ q[i][2] <= q[i + 1][2] /\ q[i + 1][1] <= q[i][2] + 1

\* What CutsKeepBudget asks.
OneFits(line, r) == r[1] < r[2] => Tokens(line, r[1], r[2]) <= Target
TwoShare(line, r, n) == 100 * Tokens(line, n, r[2]) <= OverlapPct * Tokens(line, r[1], r[2])
Within(line, q) ==
  /\ \A i \in 1 .. Len(q) : OneFits(line, q[i])
  /\ \A i \in 1 .. (Len(q) - 1) : TwoShare(line, q[i], q[i + 1][1])

LEMMA RangeIs ==
  ASSUME NEW r \in Ranges  PROVE r[1] \in Lines /\ r[2] \in Lines /\ r[1] \in Nat /\ r[2] \in Nat
  BY Numbers DEF Ranges, Lines

LEMMA ConcatIs ==
  ASSUME NEW p \in Seq(Ranges), NEW q \in Seq(Ranges), NEW s, s = p \o q
  PROVE  /\ s \in Seq(Ranges) /\ Len(s) = Len(p) + Len(q) /\ Len(p) \in Nat /\ Len(q) \in Nat
         /\ \A i \in 1 .. Len(s) : s[i] = IF i <= Len(p) THEN p[i] ELSE q[i - Len(p)]
  OBVIOUS

LEMMA NotEmpty ==
  ASSUME NEW q \in Seq(Ranges)  PROVE q # <<>> <=> Len(q) \in Nat /\ Len(q) >= 1
  OBVIOUS

LEMMA SoundJoined ==
  ASSUME NEW p, NEW q, NEW s, s = p \o q, NEW a \in Lines, NEW m \in Lines, NEW n \in Lines, NEW t \in Lines,
         Sound(p, a, m), Sound(q, n, t), n <= m + 1, m <= q[1][2], p[Len(p)][1] < n
  PROVE  Sound(s, a, t)
<1>1. /\ a \in Nat /\ m \in Nat /\ n \in Nat /\ t \in Nat
  BY Numbers DEF Lines
<1>2. p \in Seq(Ranges) /\ q \in Seq(Ranges) /\ Len(p) \in Nat /\ Len(q) \in Nat /\ Len(p) >= 1 /\ Len(q) >= 1
  BY NotEmpty DEF Sound
<1>3. /\ s \in Seq(Ranges) /\ Len(s) = Len(p) + Len(q)
      /\ \A i \in 1 .. Len(s) : s[i] = IF i <= Len(p) THEN p[i] ELSE q[i - Len(p)]
  BY <1>2, ConcatIs
<1>4. /\ \A i \in 1 .. Len(p) : p[i] \in Ranges /\ p[i][1] \in Nat /\ p[i][2] \in Nat
      /\ \A i \in 1 .. Len(q) : q[i] \in Ranges /\ q[i][1] \in Nat /\ q[i][2] \in Nat
  <2>1. /\ \A i \in 1 .. Len(p) : p[i] \in Ranges
        /\ \A i \in 1 .. Len(q) : q[i] \in Ranges
    BY <1>2
  <2>q. QED  BY <2>1, RangeIs
<1>5. a <= n /\ m <= t
  <2>1. Len(p) \in 1 .. Len(p) /\ 1 \in 1 .. Len(q)
    BY <1>2
  <2>2. a <= p[Len(p)][1] /\ q[1][2] <= t
    BY <2>1 DEF Sound
  <2>q. QED  BY <2>1, <2>2, <1>1, <1>4
<1>6. s # <<>> /\ s[1][1] = a /\ s[Len(s)][2] = t
  <2>1. 1 \in 1 .. Len(s) /\ 1 <= Len(p) /\ Len(s) \in 1 .. Len(s) /\ ~(Len(s) <= Len(p)) /\ Len(s) - Len(p) = Len(q)
        /\ Len(s) \in Nat /\ Len(s) >= 1
    BY <1>2, <1>3
  <2>2. s[1] = p[1] /\ s[Len(s)] = q[Len(q)]
    BY <2>1, <1>3
  <2>q. QED  BY <2>1, <2>2, <1>3, NotEmpty DEF Sound
<1>7. ASSUME NEW i \in 1 .. Len(s)  PROVE a <= s[i][1] /\ s[i][1] <= s[i][2] /\ s[i][2] <= t
  <2>1. CASE i <= Len(p)
    <3>1. i \in 1 .. Len(p) /\ s[i] = p[i]
      BY <2>1, <1>2, <1>3
    <3>q. QED  BY <3>1, <1>1, <1>4, <1>5 DEF Sound
  <2>2. CASE ~(i <= Len(p))
    <3>1. i - Len(p) \in 1 .. Len(q) /\ s[i] = q[i - Len(p)]
      BY <2>2, <1>2, <1>3
    <3>2. n <= s[i][1] /\ s[i][1] <= s[i][2] /\ s[i][2] <= t /\ s[i][1] \in Nat
      BY <3>1, <1>4 DEF Sound
    <3>q. QED  BY <3>2, <1>1, <1>5
  <2>q. QED  BY <2>1, <2>2
<1>8. ASSUME NEW i \in 1 .. (Len(s) - 1)
      PROVE  s[i][1] < s[i + 1][1] /\ s[i][2] <= s[i + 1][2] /\ s[i + 1][1] <= s[i][2] + 1
  <2>1. CASE i < Len(p)
    <3>1. i \in 1 .. (Len(p) - 1) /\ s[i] = p[i] /\ s[i + 1] = p[i + 1]
      BY <2>1, <1>2, <1>3
    <3>q. QED  BY <3>1 DEF Sound
  <2>2. CASE i = Len(p)
    <3>1. s[i] = p[Len(p)] /\ s[i + 1] = q[1]
      BY <2>2, <1>2, <1>3
    <3>2. p[Len(p)][2] = m /\ q[1][1] = n
      BY DEF Sound
    <3>q. QED  BY <3>1, <3>2
  <2>3. CASE i > Len(p)
    <3>1. i - Len(p) \in 1 .. (Len(q) - 1) /\ (i + 1) - Len(p) = (i - Len(p)) + 1
          /\ i \in 1 .. Len(s) /\ i + 1 \in 1 .. Len(s) /\ ~(i <= Len(p)) /\ ~(i + 1 <= Len(p))
      BY <2>3, <1>2, <1>3, SMTT(60)
    <3>2. s[i] = q[i - Len(p)] /\ s[i + 1] = q[(i - Len(p)) + 1]
      BY <3>1, <1>3
    <3>q. QED  BY <3>1, <3>2 DEF Sound
  <2>q. QED  BY <2>1, <2>2, <2>3, <1>2
<1>q. QED  BY <1>3, <1>6, <1>7, <1>8 DEF Sound

LEMMA WithinJoined ==
  ASSUME NEW line, NEW p, NEW q, NEW s, s = p \o q, p \in Seq(Ranges), q \in Seq(Ranges), p # <<>>, q # <<>>,
         Within(line, p), Within(line, q), TwoShare(line, p[Len(p)], q[1][1])
  PROVE  Within(line, s)
<1>1. Len(p) \in Nat /\ Len(q) \in Nat /\ Len(p) >= 1 /\ Len(q) >= 1
  BY NotEmpty
<1>2. /\ Len(s) = Len(p) + Len(q)
      /\ \A i \in 1 .. Len(s) : s[i] = IF i <= Len(p) THEN p[i] ELSE q[i - Len(p)]
  BY ConcatIs
<1>3. ASSUME NEW i \in 1 .. Len(s)  PROVE OneFits(line, s[i])
  <2>1. CASE i <= Len(p)
    <3>1. i \in 1 .. Len(p) /\ s[i] = p[i]
      BY <2>1, <1>1, <1>2
    <3>q. QED  BY <3>1 DEF Within
  <2>2. CASE ~(i <= Len(p))
    <3>1. i - Len(p) \in 1 .. Len(q) /\ s[i] = q[i - Len(p)]
      BY <2>2, <1>1, <1>2
    <3>q. QED  BY <3>1 DEF Within
  <2>q. QED  BY <2>1, <2>2
<1>4. ASSUME NEW i \in 1 .. (Len(s) - 1)  PROVE TwoShare(line, s[i], s[i + 1][1])
  <2>1. CASE i < Len(p)
    <3>1. i \in 1 .. (Len(p) - 1) /\ s[i] = p[i] /\ s[i + 1] = p[i + 1]
      BY <2>1, <1>1, <1>2
    <3>q. QED  BY <3>1 DEF Within
  <2>2. CASE i = Len(p)
    <3>1. s[i] = p[Len(p)] /\ s[i + 1] = q[1]
      BY <2>2, <1>1, <1>2
    <3>q. QED  BY <3>1
  <2>3. CASE i > Len(p)
    <3>1. i - Len(p) \in 1 .. (Len(q) - 1) /\ (i + 1) - Len(p) = (i - Len(p)) + 1
          /\ i \in 1 .. Len(s) /\ i + 1 \in 1 .. Len(s) /\ ~(i <= Len(p)) /\ ~(i + 1 <= Len(p))
      BY <2>3, <1>1, <1>2
    <3>2. s[i] = q[i - Len(p)] /\ s[i + 1] = q[(i - Len(p)) + 1]
      BY <3>1, <1>2
    <3>q. QED  BY <3>1, <3>2 DEF Within
  <2>q. QED  BY <2>1, <2>2, <2>3, <1>1, <1>2
<1>q. QED  BY <1>3, <1>4 DEF Within

LEMMA OneRange ==
  ASSUME NEW r \in Ranges, r[1] <= r[2]
  PROVE  /\ <<r>> \in Seq(Ranges) /\ Sound(<<r>>, r[1], r[2]) /\ <<r>>[Len(<<r>>)] = r /\ <<r>>[1] = r
         /\ \A line : OneFits(line, r) => Within(line, <<r>>)
<1>1. <<r>> \in Seq(Ranges) /\ Len(<<r>>) = 1 /\ <<r>>[1] = r /\ <<r>> # <<>>
  OBVIOUS
<1>2. r[1] \in Nat /\ r[2] \in Nat
  BY RangeIs
<1> DEFINE o == <<r>>
<1>3. o \in Seq(Ranges) /\ Len(o) = 1 /\ o[1] = r /\ o # <<>>
  BY <1>1
<1> HIDE DEF o
<1>4. \A i \in 1 .. Len(o) : i = 1
  BY <1>3
<1>5. 1 .. (Len(o) - 1) = {}
  BY <1>3
<1>6. Sound(o, r[1], r[2])
  BY <1>2, <1>3, <1>4, <1>5 DEF Sound
<1>7. \A line : OneFits(line, r) => Within(line, o)
  BY <1>3, <1>4, <1>5 DEF Within
<1>q. QED  BY <1>1, <1>6, <1>7 DEF o

\* A sound cutting covers the lines it was made of: the last range that starts at or before a
\* line contains it.
LEMMA SoundCovers ==
  ASSUME NEW q, NEW to \in Lines, Sound(q, 1, to)
  PROVE  1 .. to = UNION {q[i][1] .. q[i][2] : i \in DOMAIN q}
<1>1. /\ to \in Nat /\ q \in Seq(Ranges) /\ Len(q) \in Nat /\ Len(q) >= 1 /\ DOMAIN q = 1 .. Len(q)
      /\ \A i \in 1 .. Len(q) : q[i] \in Ranges
  BY NotEmpty, Numbers DEF Sound, Lines
<1>2. \A i \in 1 .. Len(q) : q[i][1] \in Nat /\ q[i][2] \in Nat
  BY <1>1, RangeIs
<1>3. ASSUME NEW i \in DOMAIN q, NEW k \in q[i][1] .. q[i][2]  PROVE k \in 1 .. to
  BY <1>1, <1>2, <1>3 DEF Sound
<1>4. ASSUME NEW k \in 1 .. to  PROVE \E i \in DOMAIN q : k \in q[i][1] .. q[i][2]
  <2> DEFINE S == {i \in 1 .. Len(q) : q[i][1] <= k}
  <2>1. 1 \in S
    BY <1>1 DEF Sound
  <2>2. S \in SUBSET (0 .. Len(q))
    BY <1>1
  <2>3. PICK i \in S : \A j \in S : j <= i
    BY <2>1, <2>2, <1>1, MaxOf
  <2>4. i \in 1 .. Len(q) /\ q[i][1] <= k
    BY <2>3
  <2>7. i \in Nat /\ k \in Nat
    BY <2>4, <1>1
  <2>5. CASE i = Len(q)
    BY <2>4, <2>5, <1>1, <1>2 DEF Sound
  <2>6. CASE i # Len(q)
    <3>1. i \in 1 .. (Len(q) - 1) /\ i + 1 \in 1 .. Len(q) /\ ~(i + 1 <= i)
      <4>1. \A n \in Nat : \A j \in 1 .. n : j # n => j \in 1 .. (n - 1) /\ j + 1 \in 1 .. n /\ ~(j + 1 <= j)
        OBVIOUS
      <4>2. i \in 1 .. Len(q) /\ i # Len(q) /\ Len(q) \in Nat
        BY <2>4, <2>6, <1>1
      <4>q. QED  BY ONLY <4>1, <4>2
    <3>2. ~(q[i + 1][1] <= k)
      BY <3>1, <2>3
    <3>3. q[i + 1][1] <= q[i][2] + 1
      BY <3>1 DEF Sound
    <3>4. q[i][1] \in Nat /\ q[i][2] \in Nat /\ q[i + 1][1] \in Nat
      BY <3>1, <2>4, <1>2
    <3>5. k <= q[i][2]
      BY ONLY <2>7, <3>2, <3>3, <3>4
    <3>q. QED  BY <2>4, <2>7, <3>4, <3>5
  <2>q. QED  BY <2>5, <2>6
<1>q. QED  BY <1>3, <1>4

(* chunkSegments.  Cut is one turn of its loop, given what the next turns  *)
(* return; what it returns is sound, from the last line backwards.         *)

Starts == 1 .. (NLines + 1)

Cut(line, last, f, start) ==
  IF start > last THEN <<>>
  ELSE <<<<start, ChunkEnd(line, start, last)>>>> \o
       (IF ChunkEnd(line, start, last) >= last THEN <<>>
        ELSE f[OverlapStart(line, start, ChunkEnd(line, start, last))])

\* What a turn that starts at `start` returns.
Good(line, last, q, start) ==
  IF start > last THEN q = <<>>
  ELSE /\ Sound(q, start, last) /\ Within(line, q)
       /\ q[1] = <<start, ChunkEnd(line, start, last)>>

LEMMA CutIs ==
  ASSUME NEW line \in Transcripts, NEW last \in Lines, NEW start \in Starts, start <= last
  PROVE  \E end \in Lines :
           /\ ChunkEnd(line, start, last) = end /\ start <= end /\ end <= last
           /\ OneFits(line, <<start, end>>) /\ start \in Lines
           /\ \E n \in Starts :
                /\ OverlapStart(line, start, end) = n /\ start < n /\ n <= end + 1
                /\ TwoShare(line, <<start, end>>, n)
                /\ end < last => n <= last /\ end <= ChunkEnd(line, n, last)
<1>1. start \in Lines /\ start \in Nat /\ last \in Nat /\ last <= NLines /\ NLines \in Nat /\ 1 <= start
  BY Numbers DEF Lines, Starts
<1>2. PICK end \in start .. last : end = ChunkEnd(line, start, last) /\ (start < end => Tokens(line, start, end) <= Target)
  BY <1>1, ChunkEndIs
<1>3. end \in Lines /\ end \in Nat /\ start <= end /\ end <= last
  BY <1>1, <1>2 DEF Lines
<1>4. OneFits(line, <<start, end>>)
  BY <1>2 DEF OneFits
<1>5. PICK n \in (start + 1) .. (end + 1) :
        /\ n = OverlapStart(line, start, end)
        /\ 100 * Tokens(line, n, end) <= OverlapPct * Tokens(line, start, end)
  BY <1>1, <1>3, OverlapStartIs
<1>6. n \in Starts /\ n \in Nat /\ start < n /\ n <= end + 1
  BY <1>1, <1>3, <1>5 DEF Starts
<1>7. TwoShare(line, <<start, end>>, n)
  BY <1>5 DEF TwoShare
<1>8. ASSUME end < last  PROVE n <= last /\ end <= ChunkEnd(line, n, last)
  <2>1. n \in Lines /\ n <= last
    BY <1>1, <1>3, <1>6, <1>8 DEF Lines
  <2>2. CASE n <= end
    BY <2>1, <2>2, <1>1, <1>2, <1>6, <1>8, NextReaches
  <2>3. CASE ~(n <= end)
    <3>1. ChunkEnd(line, n, last) \in n .. last
      BY <2>1, ChunkEndIs
    <3>q. QED  BY <3>1, <2>1, <2>3, <1>1, <1>3, <1>6
  <2>q. QED  BY <2>1, <2>2, <2>3
<1>q. QED  BY <1>1, <1>2, <1>3, <1>4, <1>5, <1>6, <1>7, <1>8

\* Given good answers of the later turns, a turn's answer is good.
LEMMA CutGood ==
  ASSUME NEW line \in Transcripts, NEW last \in Lines, NEW start \in Starts, NEW f,
         \A n \in Starts : n > start => Good(line, last, f[n], n)
  PROVE  Good(line, last, Cut(line, last, f, start), start)
<1>1. CASE start > last
  BY <1>1 DEF Good, Cut
<1>2. CASE ~(start > last)
  <2>1. start <= last /\ start \in Nat /\ last \in Nat
    BY <1>2, Numbers DEF Lines, Starts
  <2>2. PICK end \in Lines :
          /\ ChunkEnd(line, start, last) = end /\ start <= end /\ end <= last
          /\ OneFits(line, <<start, end>>) /\ start \in Lines
          /\ \E n \in Starts :
                /\ OverlapStart(line, start, end) = n /\ start < n /\ n <= end + 1
                /\ TwoShare(line, <<start, end>>, n)
                /\ end < last => n <= last /\ end <= ChunkEnd(line, n, last)
    BY <2>1, CutIs
  <2>3. PICK n \in Starts :
          /\ OverlapStart(line, start, end) = n /\ start < n /\ n <= end + 1
          /\ TwoShare(line, <<start, end>>, n)
          /\ end < last => n <= last /\ end <= ChunkEnd(line, n, last)
    BY <2>2
  <2>4. PICK r \in Ranges : r = <<start, end>> /\ r[1] = start /\ r[2] = end
    BY <2>2 DEF Ranges
  <2>5. PICK o : o = <<r>> /\ o \in Seq(Ranges) /\ Sound(o, start, end) /\ o[Len(o)] = r /\ o[1] = r /\ Within(line, o)
    BY <2>2, <2>4, OneRange
  <2>6. end \in Nat /\ n \in Nat
    BY Numbers DEF Lines, Starts
  <2>7. CASE end >= last
    <3>1. end = last
      BY <2>1, <2>2, <2>6, <2>7
    <3>2. Cut(line, last, f, start) = o \o <<>>
      BY <2>2, <2>4, <2>5, <2>7, <1>2 DEF Cut
    <3>3. o \o <<>> = o
      BY <2>5
    <3>q. QED  BY <3>1, <3>2, <3>3, <2>2, <2>4, <2>5, <1>2 DEF Good
  <2>8. CASE ~(end >= last)
    <3>1. end < last /\ n <= last /\ end <= ChunkEnd(line, n, last) /\ ~(n > last)
      BY <2>1, <2>3, <2>6, <2>8
    <3>2. PICK q : q = f[n] /\ Good(line, last, q, n)
      BY <2>1, <2>3, <2>6
    <3>3. Sound(q, n, last) /\ Within(line, q) /\ q[1] = <<n, ChunkEnd(line, n, last)>>
      BY <3>1, <3>2 DEF Good
    <3>4. q[1][1] = n /\ end <= q[1][2]
      BY <3>1, <3>3
    <3>5. PICK s : s = o \o q
      OBVIOUS
    <3>6. Cut(line, last, f, start) = s
      BY <3>2, <3>5, <2>2, <2>3, <2>4, <2>5, <2>8, <1>2 DEF Cut
    <3>7. n \in Lines
      BY <2>6, <3>1, Numbers DEF Lines, Starts
    <3>8. Sound(s, start, last)
      <4>1. o[Len(o)][1] < n /\ Sound(o, start, end) /\ start \in Lines /\ n <= end + 1
        BY <2>2, <2>3, <2>4, <2>5
      <4>2. s = o \o q /\ Sound(q, n, last) /\ end <= q[1][2] /\ n \in Lines /\ last \in Lines /\ end \in Lines
        BY <3>3, <3>4, <3>5, <3>7
      <4>q. QED  BY ONLY <4>1, <4>2, SoundJoined
    <3>9. Within(line, s)
      BY <3>3, <3>4, <3>5, <2>3, <2>4, <2>5, WithinJoined DEF Sound
    <3>10. s[1] = r
      <4>1. q \in Seq(Ranges) /\ Len(o) \in Nat /\ Len(o) >= 1
        BY <3>3, <2>5, NotEmpty DEF Sound
      <4>q. QED  BY <4>1, <3>5, <2>5
    <3>q. QED  BY <3>6, <3>8, <3>9, <3>10, <2>2, <2>4, <1>2 DEF Good
  <2>q. QED  BY <2>7, <2>8
<1>q. QED  BY <1>1, <1>2

\* A turn looks at later turns only.
LEMMA CutLater ==
  ASSUME NEW line \in Transcripts, NEW last \in Lines, NEW start \in Starts, NEW f, NEW g,
         \A n \in Starts : n > start => f[n] = g[n]
  PROVE  Cut(line, last, f, start) = Cut(line, last, g, start)
<1>1. CASE start > last
  BY <1>1 DEF Cut
<1>2. CASE ~(start > last)
  <2>1. start <= last /\ start \in Nat
    BY <1>2, Numbers DEF Lines, Starts
  <2>2. \E end \in Lines : \E n \in Starts :
          /\ ChunkEnd(line, start, last) = end /\ OverlapStart(line, start, end) = n /\ start < n
    BY <2>1, CutIs
  <2>3. PICK end \in Lines, n \in Starts :
          ChunkEnd(line, start, last) = end /\ OverlapStart(line, start, end) = n /\ start < n
    BY <2>2
  <2>4. f[n] = g[n]
    BY <2>1, <2>3, Numbers DEF Starts
  <2>q. QED  BY <2>3, <2>4 DEF Cut
<1>q. QED  BY <1>1, <1>2

LEMMA CutsExist ==
  ASSUME NEW line \in Transcripts, NEW last \in Lines
  PROVE  \E f : f = [start \in Starts |-> Cut(line, last, f, start)]
<1> DEFINE S == {k \in Nat : \E f : /\ f = [start \in Starts |-> f[start]]
                                   /\ \A start \in Starts :
                                        start + k >= NLines + 1 => f[start] = Cut(line, last, f, start)}
<1>1. 0 \in S
  <2>1. PICK f : f = [start \in Starts |-> <<>>]
    OBVIOUS
  <2>2. f = [start \in Starts |-> f[start]]
    BY <2>1
  <2>3. ASSUME NEW start \in Starts, start + 0 >= NLines + 1  PROVE f[start] = Cut(line, last, f, start)
    <3>1. start > last
      BY <2>3, Numbers DEF Lines, Starts
    <3>q. QED  BY <3>1, <2>1 DEF Cut
  <2>4. 0 \in Nat
    OBVIOUS
  <2>q. QED  BY ONLY <2>2, <2>3, <2>4
<1>2. ASSUME NEW k \in Nat, k \in S  PROVE k + 1 \in S
  <2>1. PICK f : /\ f = [start \in Starts |-> f[start]]
                 /\ \A start \in Starts : start + k >= NLines + 1 => f[start] = Cut(line, last, f, start)
    BY <1>2
  <2>2. PICK s : s = NLines - k /\ s \in Int
    BY Numbers
  <2>3. PICK g : g = [start \in Starts |-> IF start = s THEN Cut(line, last, f, start) ELSE f[start]]
    OBVIOUS
  <2>4. g = [start \in Starts |-> g[start]]
    BY <2>3
  <2>5. ASSUME NEW start \in Starts, start + (k + 1) >= NLines + 1  PROVE g[start] = Cut(line, last, g, start)
    <3>1. start \in Nat /\ start >= s
      BY <2>2, <2>5, Numbers DEF Starts
    <3>2. ASSUME NEW n \in Starts, n > start  PROVE f[n] = g[n]
      <4>1. n # s
        BY <3>1, <3>2, <2>2, Numbers DEF Starts
      <4>q. QED  BY <4>1, <2>3
    <3>3. Cut(line, last, f, start) = Cut(line, last, g, start)
      BY <3>2, CutLater
    <3>4. start # s => start + k >= NLines + 1
      BY <3>1, <2>2, Numbers
    <3>5. g[start] = Cut(line, last, f, start)
      BY <3>4, <2>1, <2>3
    <3>q. QED  BY <3>3, <3>5
  <2>6. k + 1 \in Nat
    OBVIOUS
  <2>q. QED  BY ONLY <2>4, <2>5, <2>6
<1>3. NLines \in S
  <2> HIDE DEF S
  <2>q. QED  BY <1>1, <1>2, Upwards, Numbers
<1>4. PICK f : /\ f = [start \in Starts |-> f[start]]
               /\ \A start \in Starts : start + NLines >= NLines + 1 => f[start] = Cut(line, last, f, start)
  BY <1>3
<1>5. \A start \in Starts : f[start] = Cut(line, last, f, start)
  BY <1>4, Numbers DEF Starts
<1>q. QED  BY <1>4, <1>5

\* chunkSegments returns a sound cutting.
LEMMA ChunkSegmentsGood ==
  ASSUME NEW line \in Transcripts, NEW last \in Lines, NEW from \in Starts
  PROVE  Good(line, last, ChunkSegments(line, from, last), from)
<1> DEFINE u == CHOOSE f : f = [start \in Starts |-> Cut(line, last, f, start)]
<1>1. u = [start \in Starts |-> Cut(line, last, u, start)]
  BY CutsExist
<1>2. ChunkSegments(line, from, last) = u[from]
  BY DEF ChunkSegments, Cut, Starts
<1> HIDE DEF u
<1>3. \A start \in Starts : u[start] = Cut(line, last, u, start)
  BY <1>1
<1> DEFINE S == {k \in Nat : \A start \in Starts : start + k >= NLines + 1 => Good(line, last, u[start], start)}
<1>4. 0 \in S
  <2>1. ASSUME NEW start \in Starts, start + 0 >= NLines + 1  PROVE Good(line, last, u[start], start)
    <3>1. start > last
      BY <2>1, Numbers DEF Lines, Starts
    <3>q. QED  BY <3>1, <1>3 DEF Cut, Good
  <2>q. QED  BY <2>1
<1>5. ASSUME NEW k \in Nat, k \in S  PROVE k + 1 \in S
  <2>1. ASSUME NEW start \in Starts, start + (k + 1) >= NLines + 1  PROVE Good(line, last, u[start], start)
    <3>1. \A n \in Starts : n > start => Good(line, last, u[n], n)
      BY <2>1, <1>5, Numbers DEF Starts
    <3>2. Good(line, last, Cut(line, last, u, start), start)
      BY <3>1, CutGood
    <3>q. QED  BY <3>2, <1>3
  <2>q. QED  BY <2>1
<1>6. NLines \in S
  <2> HIDE DEF S
  <2>q. QED  BY <1>4, <1>5, Upwards, Numbers
<1>7. Good(line, last, u[from], from)
  BY <1>6, Numbers DEF Starts
<1>q. QED  BY <1>2, <1>7

(* The chunk step. *)

ChunkerInv ==
  /\ lines \in Transcripts /\ uploaded \in Lines
  /\ cuts # <<>> => chunked \in Lines /\ chunked <= uploaded /\ Sound(cuts, 1, chunked)
  /\ fullCut => Within(lines, cuts)

LEMMA FirstStart == 1 \in Starts /\ 1 \in Lines /\ \A last \in Lines : ~(1 > last)
  BY Numbers DEF Starts, Lines

LEMMA FreshCut ==
  ASSUME NEW line \in Transcripts, NEW last \in Lines
  PROVE  Sound(ChunkSegments(line, 1, last), 1, last) /\ Within(line, ChunkSegments(line, 1, last))
<1>1. Good(line, last, ChunkSegments(line, 1, last), 1)
  BY FirstStart, ChunkSegmentsGood
<1>q. QED  BY <1>1, FirstStart DEF Good

\* The ranges stay, and the late lines follow them.
LEMMA RechunkSound ==
  ASSUME NEW line \in Transcripts, NEW last \in Lines, NEW m \in Lines, m <= last, NEW p, Sound(p, 1, m)
  PROVE  Sound(RechunkWithinRanges(line, p, last), 1, last)
<1> DEFINE n == m + 1
           q == ChunkSegments(line, n, last)
<1>1. m \in Nat /\ last \in Nat /\ n \in Starts /\ n \in Nat
  BY Numbers DEF Lines, Starts
<1>2. p \in Seq(Ranges) /\ p[Len(p)][2] = m /\ Len(p) \in 1 .. Len(p) /\ p[Len(p)] \in Ranges
  <2>1. p \in Seq(Ranges) /\ p[Len(p)][2] = m /\ p # <<>>
    BY DEF Sound
  <2>q. QED  BY <2>1
<1>3. RechunkWithinRanges(line, p, last) = p \o q
  BY <1>2 DEF RechunkWithinRanges
<1>4. Good(line, last, q, n)
  BY <1>1, ChunkSegmentsGood
<1> HIDE DEF q
<1>5. CASE n > last
  <2>1. q = <<>> /\ m = last
    BY <1>1, <1>4, <1>5 DEF Good
  <2>2. p \o q = p
    BY <2>1, <1>2
  <2>q. QED  BY <2>1, <2>2, <1>3
<1>6. CASE ~(n > last)
  <2>1. Sound(q, n, last) /\ q[1] = <<n, ChunkEnd(line, n, last)>>
    BY <1>4, <1>6 DEF Good
  <2>2. n \in Lines /\ n <= last
    BY <1>1, <1>6, Numbers DEF Lines
  <2>3. ChunkEnd(line, n, last) \in n .. last
    BY <2>2, ChunkEndIs
  <2>4. m <= q[1][2]
    BY <2>1, <2>3, <1>1
  <2>5. p[Len(p)][1] < n
    <3>1. p[Len(p)][1] <= m
      BY <1>2 DEF Sound
    <3>2. p[Len(p)][1] \in Nat
      BY <1>2, RangeIs
    <3>q. QED  BY <3>1, <3>2, <1>1
  <2>6. n <= m + 1
    BY <1>1
  <2> HIDE DEF n
  <2>7. Sound(p \o q, 1, last)
    BY <2>1, <2>2, <2>4, <2>5, <2>6, FirstStart, SoundJoined
  <2>q. QED  BY <2>7, <1>3
<1>q. QED  BY <1>5, <1>6

LEMMA ChunkStepKeeps == ASSUME ChunkerInv, NEW changed \in BOOLEAN, ChunkStep(changed)  PROVE ChunkerInv'
<1>1. lines' = lines /\ uploaded' = uploaded /\ chunked' = uploaded
  BY DEF ChunkStep
<1>2. uploaded <= uploaded
  BY Numbers DEF ChunkerInv, Lines
<1>3. CASE fullCut'
  <2>1. cuts' = ChunkSegments(lines, 1, uploaded)
    BY <1>3 DEF ChunkStep
  <2>2. Sound(cuts', 1, uploaded) /\ Within(lines, cuts')
    BY <2>1, FreshCut DEF ChunkerInv
  <2>q. QED  BY <2>2, <1>1, <1>2 DEF ChunkerInv
<1>4. CASE ~fullCut'
  <2>1. cuts' = RechunkWithinRanges(lines, cuts, uploaded) /\ cuts # <<>>
    BY <1>4 DEF ChunkStep
  <2>2. Sound(cuts', 1, uploaded)
    BY <2>1, RechunkSound DEF ChunkerInv
  <2>q. QED  BY <2>2, <1>1, <1>2, <1>4 DEF ChunkerInv
<1>q. QED  BY <1>3, <1>4

LEMMA ChunkerStep == ASSUME ChunkerInv, [ChunkerNext]_chunkerVars  PROVE ChunkerInv'
<1>1. ASSUME NEW k \in Lines, NEW size \in Sizes, Correct(k, size)  PROVE ChunkerInv'
  <2>1. lines' = [lines EXCEPT ![k].tokens = size] /\ UNCHANGED <<uploaded, cuts, chunked>> /\ ~fullCut'
    BY <1>1 DEF Correct
  <2>2. lines' \in Transcripts
    BY <2>1 DEF ChunkerInv, Transcripts
  <2>q. QED  BY <2>1, <2>2 DEF ChunkerInv
<1>2. CASE LateLines
  <2>1. /\ lines' = lines /\ cuts' = cuts /\ chunked' = chunked /\ ~fullCut' /\ uploaded' = NLines
        /\ NLines \in Lines /\ \A k \in Lines : k <= NLines
    BY <1>2, Numbers DEF LateLines, Lines
  <2>q. QED  BY <2>1 DEF ChunkerInv
<1>3. CASE UNCHANGED chunkerVars
  BY <1>3 DEF ChunkerInv, chunkerVars
<1>q. QED  BY <1>1, <1>2, <1>3, ChunkStepKeeps DEF ChunkerNext

\* A chunk step cuts every line it read into chunks that follow the transcript, keeps the target
\* and the overlap when it cuts afresh, and keeps the ranges otherwise: of every transcript.
THEOREM CutsAreSoundCorrect == ChunkerSpec => []CutsAreSound
<1>1. ChunkerInit => ChunkerInv
  BY DEF ChunkerInit, ChunkerInv, Transcripts
<1>2. ChunkerInv => CutsAreSound
  <2> SUFFICES ASSUME ChunkerInv PROVE CutsAreSound
    OBVIOUS
  <2>1. CutsCoverTranscript
    <3>1. SUFFICES ASSUME cuts # <<>>
                   PROVE  /\ 1 .. chunked = UNION {cuts[i][1] .. cuts[i][2] : i \in DOMAIN cuts}
                          /\ \A i \in 1 .. (Len(cuts) - 1) :
                               /\ cuts[i][1] < cuts[i + 1][1] /\ cuts[i][2] <= cuts[i + 1][2]
                               /\ cuts[i + 1][1] <= cuts[i][2] + 1
      BY DEF CutsCoverTranscript
    <3>2. Sound(cuts, 1, chunked) /\ chunked \in Lines
      BY <3>1 DEF ChunkerInv
    <3>3. 1 .. chunked = UNION {cuts[i][1] .. cuts[i][2] : i \in DOMAIN cuts}
      BY <3>2, SoundCovers
    <3>q. QED  BY <3>2, <3>3 DEF Sound
  <2>2. CutsKeepBudget
    <3>1. DOMAIN cuts = 1 .. Len(cuts)
      <4>1. cuts = <<>> \/ cuts \in Seq(Ranges)
        BY DEF ChunkerInv, Sound
      <4>q. QED  BY <4>1
    <3>q. QED  BY <3>1 DEF ChunkerInv, CutsKeepBudget, Within, OneFits, TwoShare
  <2>q. QED  BY <2>1, <2>2 DEF CutsAreSound
<1>q. QED  BY <1>1, <1>2, ChunkerStep, PTL DEF ChunkerSpec

==============================================================================

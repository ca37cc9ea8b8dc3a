------------------------- MODULE SegmentSyncProofs -------------------------
(***************************************************************************)
(* Proofs about SegmentSync for every number of meetings, segments, faults *)
(* and button presses, every size of window, threshold and bulk request,   *)
(* and every set of adversities but the one a theorem names.               *)
(***************************************************************************)
EXTENDS SegmentSync, TLAPS, SequenceTheorems

USE DEF disk, pass, flight, socket, server, history, bounds, OnPhone

-----------------------------------------------------------------------------
(* Type correctness.  TypeOK is not inductive alone: that one answer is     *)
(* waited for at a time, that the pass is at a real meeting and that an     *)
(* empty queue has no request out is needed to know that what a reply       *)
(* changes exists.                                                          *)

\* One request is waited for at a time.
OneAnswer == \A r, q \in http : r.waiting /\ q.waiting => r = q

\* Past the create, the pass is at a meeting the server has created; an answer to a
\* pause or resume finds it at the head of the queue.
AtCreated ==
  /\ pc \in {"ops", "send", "bulk", "end"} => cur \in Meetings /\ created[cur]
  /\ \A r \in http : r.waiting =>
       /\ r.kind # "create" => created[r.m]
       /\ r.kind \in {"pause", "resume"} => ops[r.m] # <<>>

\* Without a socket nothing is on the wires; the socket is the live meeting's, and
\* what the server holds to be acked came over this one.
RoomInv ==
  /\ room \in {None, live}
  /\ room = None => up = {} /\ down = {}
  /\ \A i \in buffer : i.live => i.m = room /\ room # None

(* The parts TypeOK falls into.                                             *)
DiskType ==
  /\ local \in [Meetings -> {"none", "recording", "paused", "ending"}]
  /\ created \in [Meetings -> BOOLEAN] /\ blocked \in [Meetings -> BOOLEAN]
  /\ lastSeq \in [Meetings -> 0..MaxSeq] /\ pending \in [Meetings -> SUBSET Seqs]
  /\ ops \in [Meetings -> Seq({"pause", "resume", "end"})]
PassType ==
  /\ cur \in Meetings \cup {None} /\ todo \subseteq Meetings
  /\ pc \in {"idle", "start", "next", "ops", "send", "bulk", "end", "wait"}
  /\ retry \in BOOLEAN /\ again \in BOOLEAN /\ timer \in BOOLEAN
WireType ==
  /\ live \in Meetings \cup {None} /\ bulkOnly \in BOOLEAN
  /\ inFlight \subseteq Seqs /\ stale \subseteq inFlight
  /\ conn \in {"closed", "open", "joined", "aged"} /\ room \in Meetings \cup {None} /\ up \subseteq Seqs
  /\ down \subseteq [kind : {"ack", "error", "limited"}, seq : Seqs]
  /\ buffer \subseteq [m : Meetings, seq : Seqs, live : BOOLEAN]
ServerType ==
  /\ status \in [Meetings -> Statuses \cup {"none"}]
  /\ rows \in [Meetings -> [Seqs -> {"none", "here", "there"}]]
  /\ consent \in BOOLEAN
HistoryType ==
  /\ saved \in [Meetings -> SUBSET Seqs] /\ gone \subseteq Meetings /\ ended \subseteq Meetings
  /\ faults \in 0..MaxFaults /\ presses \in 0..MaxPresses
HttpType == http \subseteq Requests
Waits == (pc = "wait") = (\E r \in http : r.waiting) /\ \A r \in http : r.waiting => r.m = cur

LEMMA TypeParts ==
  TypeOK <=> /\ DiskType /\ PassType /\ WireType /\ ServerType /\ HistoryType /\ HttpType /\ Waits
BY DEF TypeOK, DiskType, PassType, WireType, ServerType, HistoryType, HttpType, Waits

TypeInv == TypeOK /\ OneAnswer /\ AtCreated /\ RoomInv

\* None is no meeting.
LEMMA NoneType == None \notin Meetings /\ None = 0
BY SyncAssumption DEF None

LEMMA RequestType ==
  ASSUME NEW r \in Requests
  PROVE  /\ r.kind \in Kinds /\ r.m \in Meetings /\ r.seqs \subseteq Seqs /\ r.last \in 0..MaxSeq
         /\ r.waiting \in BOOLEAN
         /\ \A stage \in {"new", "flushed", "checked", "lost"} :
              /\ [r EXCEPT !.stage = stage] \in Requests
              /\ [r EXCEPT !.stage = stage].waiting = r.waiting
              /\ [r EXCEPT !.stage = stage].m = r.m
              /\ [r EXCEPT !.stage = stage].kind = r.kind
              /\ [r EXCEPT !.stage = stage].seqs = r.seqs
              /\ [r EXCEPT !.stage = stage].last = r.last
         /\ [r EXCEPT !.waiting = FALSE] \in Requests
         /\ [r EXCEPT !.waiting = FALSE].waiting = FALSE
         /\ [r EXCEPT !.waiting = FALSE].m = r.m
         /\ [r EXCEPT !.waiting = FALSE].kind = r.kind
BY DEF Requests

LEMMA CallType ==
  \A kind \in Kinds, m \in Meetings, S \in SUBSET Seqs, last \in 0..MaxSeq :
    /\ Call(kind, m, S, last) \in Requests
    /\ Call(kind, m, S, last).waiting = TRUE /\ Call(kind, m, S, last).m = m
    /\ Call(kind, m, S, last).kind = kind /\ Call(kind, m, S, last).seqs = S
    /\ Call(kind, m, S, last).last = last
BY DEF Call, Requests

\* What a request without segments and without a last seq carries.
LEMMA BareType ==
  /\ {} \in SUBSET Seqs /\ 0 \in 0..MaxSeq
  /\ {"create", "pause", "resume", "end", "endAnyway", "bulk"} \subseteq Kinds
BY SyncAssumption DEF Kinds

LEMMA InitType == Init => TypeInv
<1> SUFFICES ASSUME Init PROVE TypeInv
  OBVIOUS
<1>1. rows \in [Meetings -> [Seqs -> {"none", "here", "there"}]]
  BY DEF Init
<1>2. \A m \in Meetings : ops[m] \in Seq({"pause", "resume", "end"})
  BY DEF Init
<1>3. DiskType
  BY <1>2, SyncAssumption DEF Init, DiskType
<1>4. PassType /\ HttpType /\ Waits
  BY DEF Init, PassType, HttpType, Waits, None
<1>5. WireType
  BY DEF Init, WireType, None
<1>6. ServerType /\ HistoryType
  BY <1>1, SyncAssumption DEF Init, ServerType, HistoryType, Statuses
<1> QED
  BY <1>3, <1>4, <1>5, <1>6, TypeParts DEF Init, TypeInv, OneAnswer, AtCreated, RoomInv

LEMMA RecordOpType ==
  ASSUME DiskType, NEW m \in Meetings, NEW op \in {"pause", "resume", "end"}, RecordOp(m, op)
  PROVE  /\ local' \in [Meetings -> {"none", "recording", "paused", "ending"}]
         /\ ops' \in [Meetings -> Seq({"pause", "resume", "end"})]
         /\ local'[m] = (IF op = "pause" THEN "paused" ELSE IF op = "resume" THEN "recording" ELSE "ending")
         /\ \A n \in Meetings \ {m} : local'[n] = local[n] /\ ops'[n] = ops[n]
         /\ ops'[m] = Append(ops[m], op)
<1>1. [pause |-> "paused", resume |-> "recording", end |-> "ending"][op]
        = IF op = "pause" THEN "paused" ELSE IF op = "resume" THEN "recording" ELSE "ending"
  OBVIOUS
<1>2. Append(ops[m], op) \in Seq({"pause", "resume", "end"})
  BY DEF DiskType
<1> QED
  BY <1>1, <1>2 DEF RecordOp, DiskType

LEMMA DeleteLocalType ==
  ASSUME DiskType, NEW m \in Meetings, DeleteLocal(m)
  PROVE  /\ local' \in [Meetings -> {"none", "recording", "paused", "ending"}]
         /\ ops' \in [Meetings -> Seq({"pause", "resume", "end"})]
         /\ pending' \in [Meetings -> SUBSET Seqs]
         /\ local'[m] = "none" /\ ops'[m] = <<>> /\ pending'[m] = {}
         /\ \A n \in Meetings \ {m} : local'[n] = local[n] /\ ops'[n] = ops[n] /\ pending'[n] = pending[n]
<1>1. <<>> \in Seq({"pause", "resume", "end"})
  OBVIOUS
<1> QED
  BY <1>1 DEF DeleteLocal, DiskType

(* What an answer does to the disk.                                         *)
LEMMA SucceedsDisk ==
  ASSUME TypeInv, NEW r \in http, r.waiting, Succeeds(r)
  PROVE  DiskType'
<1>0. DiskType /\ r \in Requests /\ r.m \in Meetings
  BY TypeParts, RequestType DEF TypeInv, HttpType
<1>a. lastSeq' = lastSeq /\ blocked' = blocked
  BY DEF Succeeds
<1>1. CASE r.kind \in {"pause", "resume"}
  <2>1. ops[r.m] # <<>>
    BY <1>1 DEF TypeInv, AtCreated
  <2>2. PICK O : O = Seq({"pause", "resume", "end"})
    OBVIOUS
  <2>3. Tail(ops[r.m]) \in O /\ ops \in [Meetings -> O]
    BY <1>0, <2>1, <2>2 DEF DiskType
  <2>4. ops' = [ops EXCEPT ![r.m] = Tail(ops[r.m])] /\ UNCHANGED <<local, created, pending>>
    BY <1>1 DEF Succeeds
  <2>5. ops' \in [Meetings -> O]
    BY <1>0, <2>3, <2>4
  <2> QED
    BY <1>0, <1>a, <2>2, <2>4, <2>5 DEF DiskType
<1>2. CASE r.kind = "create"
  <2>1. created' = [created EXCEPT ![r.m] = TRUE] /\ UNCHANGED <<local, pending, ops>>
    BY <1>2 DEF Succeeds
  <2> QED
    BY <1>0, <1>a, <2>1 DEF DiskType
<1>3. CASE r.kind = "bulk"
  <2>1. pending' = [pending EXCEPT ![r.m] = @ \ r.seqs] /\ UNCHANGED <<local, created, ops>>
    BY <1>3 DEF Succeeds
  <2> QED
    BY <1>0, <1>a, <2>1 DEF DiskType
<1>4. CASE r.kind \in {"end", "endAnyway"}
  <2>1. DeleteLocal(r.m) /\ created' = created
    BY <1>4 DEF Succeeds
  <2> QED
    BY <1>0, <1>a, <2>1, DeleteLocalType DEF DiskType
<1>5. r.kind \in {"create", "bulk", "end", "endAnyway"} \/ r.kind \in {"pause", "resume"}
  BY DEF Succeeds
<1> QED
  BY <1>1, <1>2, <1>3, <1>4, <1>5

LEMMA AnswerDisk ==
  ASSUME TypeInv, NEW r \in http, r.waiting,
         NotFound(r) \/ Refused(r) \/ FailsForNow \/ Offline
  PROVE  DiskType'
<1>0. DiskType /\ r \in Requests /\ r.m \in Meetings
  BY TypeParts, RequestType DEF TypeInv, HttpType
<1> QED
  BY <1>0, DeleteLocalType DEF NotFound, Refused, FailsForNow, Offline, DiskType

LEMMA DiskStep == TypeInv /\ [Next]_vars => DiskType'
<1> SUFFICES ASSUME TypeInv, [Next]_vars PROVE DiskType'
  OBVIOUS
<1>0. DiskType /\ WireType /\ ServerType /\ HttpType
  BY TypeParts DEF TypeInv
<1>1. CASE UNCHANGED disk
  BY <1>0, <1>1 DEF DiskType
<1>2. ASSUME NEW r \in http, Serve(r) PROVE DiskType'
  BY <1>1, <1>2, SucceedsDisk, AnswerDisk
  DEF Serve, ServeCreate, ServeMove, ServeBulk, EndFlushes, EndScans, EndCommits, EndRefused,
      ConnectionLost, Reply, Ignored
<1>3. ASSUME NEW m \in Meetings, Start(m) PROVE DiskType'
  BY <1>0, <1>3 DEF Start, DiskType
<1>4. CASE Hear
  <2>1. live \in Meetings /\ lastSeq[live] + 1 \in Seqs /\ lastSeq[live] + 1 \in 0..MaxSeq
    BY <1>0, <1>4, SyncAssumption, NoneType DEF Hear, WireType, DiskType, Seqs
  <2> QED
    BY <1>0, <1>4, <2>1 DEF Hear, DiskType
<1>5. ASSUME NEW op \in {"pause", "resume", "end"}, Press(op) PROVE DiskType'
  <2>1. live \in Meetings
    BY <1>0, <1>5 DEF Press, WireType
  <2> QED
    BY <1>0, <1>5, <2>1, RecordOpType DEF Press, DiskType
<1>6. ASSUME NEW m \in Meetings, EndUnfinished(m) PROVE DiskType'
  BY <1>0, <1>6, RecordOpType DEF EndUnfinished, DiskType
<1>7. ASSUME NEW m \in Meetings, ResumeUnfinished(m) PROVE DiskType'
  <2>1. \A top \in Loads(m) : top \in 0..MaxSeq
    BY SyncAssumption DEF Loads, Highest, Seqs
  <2>2. lastSeq' \in [Meetings -> 0..MaxSeq]
    BY <1>0, <1>7, <2>1 DEF ResumeUnfinished, DiskType
  <2>3. /\ local' \in [Meetings -> {"none", "recording", "paused", "ending"}]
        /\ ops' \in [Meetings -> Seq({"pause", "resume", "end"})]
    BY <1>0, <1>7, RecordOpType DEF ResumeUnfinished, DiskType
  <2> QED
    BY <1>0, <1>7, <2>2, <2>3 DEF ResumeUnfinished, DiskType
<1>8. ASSUME NEW a \in down, ClientAck(a) PROVE DiskType'
  BY <1>0, <1>8 DEF ClientAck, DiskType
<1>9. CASE Faulty
  BY <1>1, <1>9, AnswerDisk
  DEF Faulty, AppDies, Disconnect, ApiCrashes, ServerError, TimesOut, Vanishes, Reply, Ignored
<1> QED
  BY <1>1, <1>2, <1>3, <1>4, <1>5, <1>6, <1>7, <1>8, <1>9
  DEF Next, User, Delete, EndElsewhere, WindowEnds, AutoClose, StartProcessing, Worker, StartPass,
      NextMeeting, ReplayOps, SendOnSocket, SendBulk, NothingToSend, SendEnd, TimerFires,
      InFlightExpires, BulkMinuteEnds, ServeAny, Join, TimePasses, ExpireAny, TokenExpired, ReceiveAny,
      Receive, Incoming, ClientError,
      ConsentChanges, AcceptConsent, vars

(* What an answer does to the worker's pass.                                *)
LEMMA AnswerPass ==
  ASSUME TypeInv, NEW r \in http,
         Succeeds(r) \/ NotFound(r) \/ Refused(r) \/ FailsForNow \/ Offline
  PROVE  PassType' /\ pc' \in {"ops", "bulk", "next", "start", "idle"}
<1>0. PassType
  BY TypeParts DEF TypeInv
<1> QED
  BY <1>0 DEF Succeeds, NotFound, Refused, FailsForNow, Offline, EndPass, PassType, None

LEMMA PassStep == TypeInv /\ [Next]_vars => PassType'
<1> SUFFICES ASSUME TypeInv, [Next]_vars PROVE PassType'
  OBVIOUS
<1>0. PassType /\ HttpType
  BY TypeParts DEF TypeInv
<1>1. CASE UNCHANGED pass
  BY <1>0, <1>1 DEF PassType
<1>2. CASE Kicked
  BY <1>0, <1>2 DEF Kicked, Kick, PassType
<1>3. ASSUME NEW r \in http, Serve(r) PROVE PassType'
  BY <1>1, <1>3, AnswerPass
  DEF Serve, ServeCreate, ServeMove, ServeBulk, EndFlushes, EndScans, EndCommits, EndRefused,
      ConnectionLost, Reply, Ignored
<1>4. CASE StartPass \/ NextMeeting
  BY <1>0, <1>4 DEF StartPass, NextMeeting, Send, EndPass, PassType
<1>5. CASE ReplayOps \/ SendOnSocket \/ SendBulk \/ NothingToSend \/ SendEnd
  BY <1>0, <1>5 DEF ReplayOps, SendOnSocket, SendBulk, NothingToSend, SendEnd, Send, PassType
<1>6. CASE TimerFires
  BY <1>0, <1>6 DEF TimerFires, Kick, PassType
<1>7. ASSUME NEW a \in down, ClientError(a) PROVE PassType'
  BY <1>0, <1>7 DEF ClientError, PassType
<1>9. ASSUME NEW s \in up, TokenExpired(s) PROVE PassType'
  BY <1>0, <1>9 DEF TokenExpired, Kick, PassType
<1>8. CASE Faulty
  <2>1. CASE AppDies
    BY <1>0, <2>1 DEF AppDies, PassType
  <2> QED
    BY <1>1, <1>2, <1>8, <2>1, AnswerPass
    DEF Faulty, Disconnect, SocketDown, ApiCrashes, ServerError, TimesOut, Vanishes, Reply, Ignored
<1> QED
  BY <1>1, <1>2, <1>3, <1>4, <1>5, <1>6, <1>7, <1>8, <1>9
  DEF Next, User, Start, Hear, Press, EndUnfinished, ResumeUnfinished, Delete, EndElsewhere,
      WindowEnds, AutoClose, StartProcessing, Worker, InFlightExpires, BulkMinuteEnds, ServeAny,
      Join, TimePasses, ExpireAny, TokenExpired, ReceiveAny, Receive, Incoming, ClientAck, ConsentChanges,
      AcceptConsent, vars

-----------------------------------------------------------------------------
(* The socket.                                                              *)

WireInv == WireType /\ RoomInv

LEMMA SetLiveNoneWire == ASSUME WireInv, SetLiveNone, UNCHANGED bulkOnly PROVE WireInv'
BY DEF SetLiveNone, Hangup, Orphaned, WireInv, WireType, RoomInv, None

LEMMA QuietWire == ASSUME WireInv, Quiet, UNCHANGED bulkOnly PROVE WireInv'
BY DEF Quiet, WireInv, WireType, RoomInv

LEMMA AnswerWire ==
  ASSUME WireInv, NEW r \in http,
         Succeeds(r) \/ NotFound(r) \/ Refused(r) \/ FailsForNow \/ Offline \/ Ignored
  PROVE  WireInv'
BY SetLiveNoneWire, QuietWire
DEF Succeeds, NotFound, Refused, FailsForNow, Offline, Ignored, DeleteLocal

LEMMA BatchWire ==
  ASSUME WireInv, NEW m \in Meetings, NEW ok \in BOOLEAN, WriteBatch(m, ok),
         UNCHANGED <<live, flight, conn, room, up>>
  PROVE  WireInv'
<1>1. \A i \in BatchOf(m) : i \in buffer /\ i.seq \in Seqs /\ i.m = m
  BY DEF BatchOf, WireInv, WireType
<1>2. down' \subseteq [kind : {"ack", "error", "limited"}, seq : Seqs]
  BY <1>1 DEF WriteBatch, WireInv, WireType, Ack
<1>3. room = None => down' = {}
  BY <1>1 DEF WriteBatch, WireInv, RoomInv
<1> QED
  BY <1>2, <1>3 DEF WriteBatch, WireInv, WireType, RoomInv

LEMMA WireStep == TypeInv /\ [Next]_vars => WireInv'
<1> SUFFICES ASSUME TypeInv, [Next]_vars PROVE WireInv'
  OBVIOUS
<1>0. DiskType /\ PassType /\ WireInv /\ HttpType
  BY TypeParts DEF TypeInv, WireInv
<1>n. None \notin Meetings
  BY NoneType
<1>1. CASE UNCHANGED <<live, inFlight, stale, bulkOnly, conn, room, up, down, buffer>>
  BY <1>0, <1>1 DEF WireInv, WireType, RoomInv
<1>2. ASSUME NEW r \in http, Serve(r) PROVE WireInv'
  <2>1. r.m \in Meetings
    BY <1>0, <1>2, RequestType DEF HttpType
  <2>2. CASE EndFlushes(r)
    BY <1>0, <2>1, <2>2, BatchWire DEF EndFlushes
  <2>3. CASE EndScans(r)
    BY <1>1, <2>3 DEF EndScans
  <2>4. CASE \/ ServeCreate(r) \/ ServeMove(r) \/ ServeBulk(r) \/ EndCommits(r)
             \/ EndRefused(r) \/ ConnectionLost(r)
    BY <1>0, <2>4, AnswerWire
    DEF ServeCreate, ServeMove, ServeBulk, EndCommits, EndRefused, ConnectionLost, Reply
  <2> QED
    BY <1>2, <2>2, <2>3, <2>4 DEF Serve
<1>3. ASSUME NEW m \in Meetings, Start(m) \/ ResumeUnfinished(m) PROVE WireInv'
  BY <1>0, <1>3 DEF Start, ResumeUnfinished, GoLive, WireInv, WireType, RoomInv
<1>4. CASE ReplayOps
  <2>1. cur \in Meetings
    BY <1>4 DEF ReplayOps, TypeInv, AtCreated
  <2> QED
    BY <1>0, <1>n, <1>4, <2>1 DEF ReplayOps, WireInv, WireType, RoomInv
<1>5. CASE SendOnSocket
  <2>1. pending[cur] \subseteq Seqs /\ cur \in Meetings /\ room = cur
    BY <1>0, <1>5 DEF SendOnSocket, ViaSocket, TypeInv, AtCreated, DiskType
  <2>2. inFlight' \subseteq Seqs /\ up' \subseteq Seqs
    BY <1>0, <1>5, <2>1 DEF SendOnSocket, Lowest, WireInv, WireType
  <2> QED
    BY <1>0, <1>n, <1>5, <2>1, <2>2 DEF SendOnSocket, WireInv, WireType, RoomInv
<1>6. CASE SendBulk \/ InFlightExpires \/ BulkMinuteEnds \/ Join
  BY <1>0, <1>6 DEF SendBulk, InFlightExpires, BulkMinuteEnds, Join, WireInv, WireType, RoomInv
<1>7. ASSUME NEW s \in up, Receive(s) PROVE WireInv'
  <2>1. room \in Meetings /\ s \in Seqs
    BY <1>0 DEF WireInv, WireType, RoomInv
  <2>2. [m |-> room, seq |-> s, live |-> TRUE] \in [m : Meetings, seq : Seqs, live : BOOLEAN]
    BY <2>1
  <2>3. [kind |-> "limited", seq |-> s] \in [kind : {"ack", "error", "limited"}, seq : Seqs]
    BY <2>1
  <2>4. room # None
    BY <1>n, <2>1
  <2>5. buffer' = buffer \/ buffer' = buffer \cup {[m |-> room, seq |-> s, live |-> TRUE]}
    BY <1>7 DEF Receive
  <2>6. down' = down \/ down' = down \cup {[kind |-> "limited", seq |-> s]}
    BY <1>7 DEF Receive
  <2>7. up' \subseteq up /\ UNCHANGED <<live, flight, conn, room>>
    BY <1>7 DEF Receive
  <2>8. WireType'
    BY <1>0, <2>2, <2>3, <2>5, <2>6, <2>7 DEF WireInv, WireType
  <2>9. RoomInv'
    BY <1>0, <2>4, <2>5, <2>7 DEF WireInv, RoomInv
  <2> QED
    BY <2>8, <2>9 DEF WireInv
<1>8. ASSUME NEW a \in down, ClientAck(a) \/ ClientError(a) PROVE WireInv'
  <2>1. room \in Meetings
    BY <1>0, <1>8 DEF WireInv, WireType, RoomInv
  <2> QED
    BY <1>0, <1>8, <2>1 DEF ClientAck, ClientError, Ages, WireInv, WireType, RoomInv
<1>11. CASE TimePasses
  BY <1>0, <1>11 DEF TimePasses, Ages, WireInv, WireType, RoomInv
<1>12. ASSUME NEW s \in up, TokenExpired(s) PROVE WireInv'
  BY <1>0, <1>12 DEF TokenExpired, Hangup, Orphaned, WireInv, WireType, RoomInv, None
<1>9. ASSUME NEW m \in Meetings, WindowEnds(m) PROVE WireInv'
  <2>1. \E ok \in BOOLEAN : WriteBatch(m, ok)
    <3>1. (status[m] \in AcceptsSegments) \in BOOLEAN
      OBVIOUS
    <3> QED
      BY <1>9, <3>1 DEF WindowEnds
  <2> QED
    BY <1>0, <1>9, <2>1, BatchWire DEF WindowEnds
<1>10. CASE Faulty
  <2>1. CASE AppDies \/ Disconnect \/ ApiCrashes
    BY <1>0, <2>1
    DEF AppDies, Disconnect, ApiCrashes, SocketDown, Hangup, Orphaned, WireInv, WireType, RoomInv, None
  <2> QED
    BY <1>0, <1>1, <1>10, <2>1, AnswerWire DEF Faulty, ServerError, TimesOut, Vanishes, Reply
<1> QED
  BY <1>1, <1>2, <1>3, <1>4, <1>5, <1>6, <1>7, <1>8, <1>9, <1>10, <1>11, <1>12
  DEF Next, User, Hear, Press, EndUnfinished, Delete, EndElsewhere, AutoClose, StartProcessing,
      Worker, StartPass, NextMeeting, NothingToSend, SendEnd, TimerFires, ServeAny, ReceiveAny, ExpireAny,
      Incoming, ConsentChanges, AcceptConsent, vars

-----------------------------------------------------------------------------
(* The server.                                                              *)

LEMMA WrittenType ==
  ASSUME ServerType, NEW m \in Meetings, NEW S
  PROVE  /\ Written(m, S) \in [Seqs -> {"none", "here", "there"}]
         /\ [rows EXCEPT ![m] = Written(m, S)] \in [Meetings -> [Seqs -> {"none", "here", "there"}]]
<1>1. rows[m] \in [Seqs -> {"none", "here", "there"}]
  BY DEF ServerType
<1>2. Written(m, S) \in [Seqs -> {"none", "here", "there"}]
  BY <1>1 DEF Written
<1> QED
  BY <1>2 DEF ServerType

\* Where a transition leads, and from where.
LEMMA Moves ==
  /\ After("pause") = "paused" /\ After("resume") = "recording" /\ After("enqueue") = "queued"
  /\ After("start_processing") = "processing"
  /\ \A st \in Statuses \cup {"none"} :
            /\ CanMove(st, "pause") <=> st = "recording"
            /\ CanMove(st, "resume") <=> st = "paused"
            /\ CanMove(st, "end") <=> st \in Live
<1>1. /\ Transitions["pause"] = [from |-> {"recording"}, to |-> "paused"]
      /\ Transitions["resume"] = [from |-> {"paused"}, to |-> "recording"]
      /\ Transitions["end"] = [from |-> {"recording", "paused"}, to |-> "ended"]
      /\ Transitions["enqueue"] = [from |-> {"ended"}, to |-> "queued"]
      /\ Transitions["start_processing"] = [from |-> {"queued"}, to |-> "processing"]
  BY DEF Transitions
<1>2. /\ After("pause") = "paused" /\ After("resume") = "recording" /\ After("enqueue") = "queued"
      /\ After("start_processing") = "processing"
  BY <1>1 DEF After
<1>3. \A st \in Statuses \cup {"none"} :
             /\ CanMove(st, "pause") <=> st = "recording"
             /\ CanMove(st, "resume") <=> st = "paused"
             /\ CanMove(st, "end") <=> st \in Live
  <2>1. /\ Transitions["pause"].from = {"recording"} /\ Transitions["resume"].from = {"paused"}
        /\ Transitions["end"].from = Live
    BY <1>1 DEF Live
  <2> QED
    BY <2>1 DEF CanMove
<1> QED
  BY <1>2, <1>3

LEMMA ServerStep == TypeInv /\ [Next]_vars => ServerType'
<1> SUFFICES ASSUME TypeInv, [Next]_vars PROVE ServerType'
  OBVIOUS
<1>0. ServerType /\ HttpType
  BY TypeParts DEF TypeInv
<1> USE <1>0, Moves DEF Statuses
<1>1. CASE UNCHANGED <<status, rows, consent>>
  BY <1>1 DEF ServerType
<1>2. ASSUME NEW m \in Meetings, NEW ok \in BOOLEAN, WriteBatch(m, ok), UNCHANGED <<status, consent>>
      PROVE  ServerType'
  BY <1>2, WrittenType DEF WriteBatch, ServerType
<1>3. ASSUME NEW r \in http, Serve(r) PROVE ServerType'
  <2>1. r.m \in Meetings
    BY <1>3, RequestType DEF HttpType
  <2>2. CASE ServeCreate(r) \/ ServeMove(r) \/ EndCommits(r)
    BY <2>1, <2>2 DEF ServeCreate, ServeMove, EndCommits, ServerType
  <2>3. CASE ServeBulk(r)
    BY <2>1, <2>3, WrittenType DEF ServeBulk, ServerType
  <2>4. CASE EndFlushes(r)
    BY <1>2, <2>1, <2>4 DEF EndFlushes
  <2>5. CASE EndScans(r) \/ EndRefused(r) \/ ConnectionLost(r)
    BY <1>1, <2>5 DEF EndScans, EndRefused, ConnectionLost
  <2> QED
    BY <1>3, <2>2, <2>3, <2>4, <2>5 DEF Serve
<1>4. ASSUME NEW m \in Meetings, WindowEnds(m) PROVE ServerType'
  <2>1. (status[m] \in AcceptsSegments) \in BOOLEAN
    OBVIOUS
  <2> QED
    BY <1>2, <1>4, <2>1 DEF WindowEnds
<1>5. ASSUME NEW m \in Meetings, AutoClose(m) \/ StartProcessing(m) \/ EndElsewhere(m) PROVE ServerType'
  BY <1>5 DEF AutoClose, StartProcessing, EndElsewhere, SetStatus, ServerType
<1>6. ASSUME NEW m \in Meetings, Delete(m) PROVE ServerType'
  BY <1>6 DEF Delete, SetStatus, ServerType
<1>7. CASE ConsentChanges \/ AcceptConsent
  BY <1>7 DEF ConsentChanges, AcceptConsent, ServerType
<1>8. CASE Faulty
  BY <1>1, <1>8 DEF Faulty, AppDies, Disconnect, ApiCrashes, ServerError, TimesOut, Vanishes
<1> QED
  BY <1>1, <1>3, <1>4, <1>5, <1>6, <1>7, <1>8
  DEF Next, User, Start, Hear, Press, EndUnfinished, ResumeUnfinished, Worker, StartPass,
      NextMeeting, ReplayOps, SendOnSocket, SendBulk, NothingToSend, SendEnd, TimerFires,
      InFlightExpires, BulkMinuteEnds, ServeAny, Join, TimePasses, ExpireAny, TokenExpired, ReceiveAny,
      Receive, Incoming, ClientAck,
      ClientError, vars

LEMMA HistoryStep == TypeInv /\ [Next]_vars => HistoryType'
<1> SUFFICES ASSUME TypeInv, [Next]_vars PROVE HistoryType'
  OBVIOUS
<1>0. DiskType /\ WireType /\ HistoryType /\ HttpType
  BY TypeParts DEF TypeInv
<1>1. CASE UNCHANGED <<history, bounds>>
  BY <1>0, <1>1 DEF HistoryType
<1>2. CASE Fault /\ UNCHANGED history
  BY <1>0, <1>2, SyncAssumption DEF Fault, HistoryType
<1>3. CASE Hear
  <2>1. live \in Meetings /\ lastSeq[live] + 1 \in Seqs
    BY <1>0, <1>3, SyncAssumption DEF Hear, WireType, DiskType, Seqs
  <2> QED
    BY <1>0, <1>3, <2>1 DEF Hear, HistoryType
<1>4. ASSUME NEW op \in {"pause", "resume", "end"}, Press(op) PROVE HistoryType'
  BY <1>0, <1>4, SyncAssumption DEF Press, HistoryType
<1>5. ASSUME NEW r \in http, Serve(r) PROVE HistoryType'
  <2>1. r.m \in Meetings
    BY <1>0, <1>5, RequestType DEF HttpType
  <2> QED
    BY <1>0, <1>1, <1>5, <2>1
    DEF Serve, ServeCreate, ServeMove, ServeBulk, EndFlushes, EndScans, EndCommits, EndRefused,
        ConnectionLost, HistoryType
<1>6. ASSUME NEW m \in Meetings, Delete(m) PROVE HistoryType'
  <2>1. gone' \subseteq Meetings /\ saved' = saved /\ ended' = ended
    BY <1>0, <1>6 DEF Delete, HistoryType
  <2>2. faults' \in 0..MaxFaults /\ presses' = presses
    BY <1>0, <1>6, SyncAssumption DEF Delete, Fault, HistoryType
  <2> QED
    BY <1>0, <2>1, <2>2 DEF HistoryType
<1>7. CASE Faulty
  BY <1>1, <1>2, <1>7 DEF Faulty, AppDies, Disconnect, ApiCrashes, ServerError, TimesOut, Vanishes
<1>8. ASSUME NEW s \in up, Receive(s) PROVE HistoryType'
  BY <1>1, <1>2, <1>8 DEF Receive
<1>9. ASSUME NEW m \in Meetings, WindowEnds(m) PROVE HistoryType'
  BY <1>1, <1>2, <1>9 DEF WindowEnds
<1> QED
  BY <1>1, <1>3, <1>4, <1>5, <1>6, <1>7, <1>8, <1>9
  DEF Next, User, Start, EndUnfinished, ResumeUnfinished, EndElsewhere, AutoClose,
      StartProcessing, Worker, StartPass, NextMeeting, ReplayOps, SendOnSocket, SendBulk,
      NothingToSend, SendEnd, TimerFires, InFlightExpires, BulkMinuteEnds, ServeAny, Join, TimePasses,
      ExpireAny, TokenExpired,
      ReceiveAny, Incoming, ClientAck, ClientError, ConsentChanges, AcceptConsent, vars

-----------------------------------------------------------------------------
(* Requests: which one the pass waits for, and what it is about.            *)

\* A request is taken off and, unless it is its late copy, the worker goes on.
LEMMA ReplyWaits ==
  ASSUME TypeInv, NEW r \in http, Answered(r), 
         IF r.waiting THEN Succeeds(r) \/ NotFound(r) \/ Refused(r) \/ FailsForNow \/ Offline ELSE Ignored
  PROVE  HttpType' /\ Waits' /\ OneAnswer'
<1>0. HttpType /\ Waits /\ OneAnswer
  BY TypeParts DEF TypeInv
<1>1. http' \subseteq http /\ \A q \in http : q # r => q \in http'
  BY DEF Answered
<1>2. CASE r.waiting
  <2>1. pc' # "wait"
    BY <1>2, AnswerPass
  <2>2. \A q \in http' : q # r /\ ~q.waiting
    BY <1>0, <1>2 DEF Answered, OneAnswer
  <2> QED
    BY <1>0, <1>1, <2>1, <2>2 DEF HttpType, Waits, OneAnswer
<1>3. CASE ~r.waiting
  <2>1. UNCHANGED <<pc, cur>>
    BY <1>3 DEF Ignored
  <2> QED
    BY <1>0, <1>1, <1>3, <2>1 DEF HttpType, Waits, OneAnswer
<1> QED
  BY <1>2, <1>3

\* A request moves on, is copied or is given up by the phone.
LEMMA ChangeWaits ==
  ASSUME TypeInv, NEW r \in http, NEW q \in Requests, q.m = r.m, http' = (http \ {r}) \cup {q},
         \/ q.waiting = r.waiting /\ UNCHANGED <<pc, cur>>
         \/ r.waiting /\ ~q.waiting /\ pc' # "wait"
  PROVE  HttpType' /\ Waits' /\ OneAnswer'
BY TypeParts DEF TypeInv, HttpType, Waits, OneAnswer

LEMMA SendWaits ==
  ASSUME TypeInv, NEW q \in Requests, q.waiting, pc # "wait", Send(q), q.m = cur'
  PROVE  HttpType' /\ Waits' /\ OneAnswer'
BY TypeParts DEF TypeInv, HttpType, Waits, OneAnswer, Send

LEMMA KickWaits ==
  ASSUME TypeInv, UNCHANGED <<http, cur>>, (pc' = "wait") = (pc = "wait")
  PROVE  HttpType' /\ Waits' /\ OneAnswer'
BY TypeParts DEF TypeInv, HttpType, Waits, OneAnswer

LEMMA HttpStep == TypeInv /\ [Next]_vars => HttpType' /\ Waits' /\ OneAnswer'
<1> SUFFICES ASSUME TypeInv, [Next]_vars PROVE HttpType' /\ Waits' /\ OneAnswer'
  OBVIOUS
<1>0. DiskType /\ PassType /\ HttpType /\ Waits /\ OneAnswer /\ AtCreated
  BY TypeParts DEF TypeInv
<1>1. CASE UNCHANGED <<http, pc, cur>>
  BY <1>1, KickWaits
<1>2. CASE Kicked /\ UNCHANGED http
  BY <1>2, KickWaits DEF Kicked, Kick
<1>3. ASSUME NEW r \in http, Serve(r) PROVE HttpType' /\ Waits' /\ OneAnswer'
  <2>1. r \in Requests /\ r.m \in Meetings
    BY <1>0, RequestType DEF HttpType
  <2>2. CASE ServeCreate(r) \/ ServeMove(r) \/ ServeBulk(r) \/ EndCommits(r) \/ EndRefused(r)
            \/ ConnectionLost(r)
    BY <2>2, ReplyWaits
    DEF ServeCreate, ServeMove, ServeBulk, EndCommits, EndRefused, ConnectionLost, Reply
  <2>3. CASE EndFlushes(r)
    BY <2>1, <2>3, ChangeWaits, RequestType DEF EndFlushes, Advance
  <2>4. CASE EndScans(r)
    <3>1. UNCHANGED <<pc, cur>>
      BY <2>4 DEF EndScans
    <3>2. CASE Advance(r, "checked")
      BY <2>1, <3>1, <3>2, ChangeWaits, RequestType DEF Advance
    <3>3. CASE r.waiting /\ http' = (http \ {r}) \cup {Call("endAnyway", r.m, {}, 0)}
      <4>1. /\ Call("endAnyway", r.m, {}, 0) \in Requests
            /\ Call("endAnyway", r.m, {}, 0).waiting = TRUE /\ Call("endAnyway", r.m, {}, 0).m = r.m
        BY <2>1, CallType, BareType
      <4>2. r.waiting = TRUE
        BY <2>1, <3>3, RequestType
      <4> QED
        BY <3>1, <3>3, <4>1, <4>2, ChangeWaits
    <3>4. CASE ~r.waiting /\ Answered(r)
      BY <1>0, <3>1, <3>4 DEF Answered, HttpType, Waits, OneAnswer
    <3> QED
      BY <2>4, <3>2, <3>3, <3>4 DEF EndScans
  <2> QED
    BY <1>3, <2>2, <2>3, <2>4 DEF Serve
<1>4. CASE StartPass \/ NothingToSend
  BY <1>4, KickWaits, <1>0 DEF StartPass, NothingToSend
<1>5. CASE NextMeeting
  <2>1. CASE UNCHANGED http /\ pc' # "wait"
    BY <1>0, <1>5, <2>1 DEF NextMeeting, HttpType, Waits, OneAnswer
  <2>2. ASSUME NEW m \in todo, cur' = m, Send(Call("create", m, {}, 0))
        PROVE  HttpType' /\ Waits' /\ OneAnswer'
    <3>1. m \in Meetings
      BY <1>0 DEF PassType
    <3> QED
      BY <1>5, <2>2, <3>1, CallType, BareType, SendWaits DEF NextMeeting
  <2> QED
    BY <1>5, <2>1, <2>2 DEF NextMeeting, EndPass
<1>6. CASE ReplayOps
  <2>1. CASE ~HeadIs(cur, {"pause", "resume"})
    BY <1>6, <2>1, KickWaits DEF ReplayOps
  <2>2. CASE HeadIs(cur, {"pause", "resume"})
    <3>1. cur \in Meetings /\ Head(ops[cur]) \in Kinds
      BY <1>0, <1>6, <2>2 DEF ReplayOps, AtCreated, HeadIs, Kinds
    <3> QED
      BY <1>6, <2>2, <3>1, CallType, BareType, SendWaits DEF ReplayOps
  <2> QED
    BY <2>1, <2>2
<1>7. CASE SendOnSocket
  BY <1>7, KickWaits DEF SendOnSocket
<1>8. CASE SendBulk
  <2>1. cur \in Meetings
    BY <1>0, <1>8 DEF SendBulk, AtCreated
  <2>2. Lowest(pending[cur], BulkLimit) \in SUBSET Seqs
    BY <1>0, <2>1 DEF DiskType, Lowest
  <2> QED
    BY <1>8, <2>1, <2>2, CallType, BareType, SendWaits DEF SendBulk
<1>9. CASE SendEnd
  <2>1. cur \in Meetings /\ lastSeq[cur] \in 0..MaxSeq
    BY <1>0, <1>9 DEF SendEnd, AtCreated, DiskType
  <2>2. CASE UNCHANGED http /\ pc' = "next"
    BY <1>9, <2>2, KickWaits DEF SendEnd
  <2> QED
    BY <1>9, <2>1, <2>2, CallType, BareType, SendWaits DEF SendEnd
<1>10. CASE TimerFires
  BY <1>10, KickWaits DEF TimerFires, Kick
<1>11. CASE Faulty
  <2>1. CASE AppDies
    <3>1. \A r \in http : [r EXCEPT !.waiting = FALSE] \in Requests /\ ~[r EXCEPT !.waiting = FALSE].waiting
      BY <1>0, RequestType DEF HttpType
    <3> QED
      BY <2>1, <3>1 DEF AppDies, HttpType, Waits, OneAnswer
  <2>2. CASE ApiCrashes
    <3> DEFINE lost(r) == [r EXCEPT !.stage = "lost"]
    <3>1. \A r \in http : lost(r) \in Requests /\ lost(r).waiting = r.waiting /\ lost(r).m = r.m
      BY <1>0, RequestType DEF HttpType
    <3>2. cur' = cur /\ (pc' = "wait") = (pc = "wait")
      BY <2>2 DEF ApiCrashes, SocketDown, Kicked, Kick
    <3>3. http' = {lost(r) : r \in http}
      BY <2>2 DEF ApiCrashes
    <3> HIDE DEF lost
    <3>4. HttpType'
      BY <3>1, <3>3 DEF HttpType
    <3>5. Waits'
      BY <1>0, <3>1, <3>2, <3>3 DEF Waits
    <3>6. OneAnswer'
      BY <1>0, <3>1, <3>3 DEF OneAnswer
    <3> QED
      BY <3>4, <3>5, <3>6
  <2>3. ASSUME NEW r \in http, TimesOut(r) PROVE HttpType' /\ Waits' /\ OneAnswer'
    <3>1. r \in Requests /\ pc' # "wait"
      <4>1. Offline /\ r \in http
        BY <2>3 DEF TimesOut
      <4> QED
        BY <1>0, <4>1, AnswerPass DEF HttpType
    <3> DEFINE q == [r EXCEPT !.waiting = FALSE]
    <3>2. q \in Requests /\ q.m = r.m /\ q.waiting = FALSE
      BY <3>1, RequestType
    <3>3. http' = (http \ {r}) \cup {q}
      BY <2>3 DEF TimesOut
    <3>4. r.waiting /\ ~q.waiting /\ pc' # "wait"
      BY <2>3, <3>1, <3>2 DEF TimesOut
    <3> HIDE DEF q
    <3> QED
      BY <3>2, <3>3, <3>4, ChangeWaits
  <2>4. ASSUME NEW r \in http, Vanishes(r) PROVE HttpType' /\ Waits' /\ OneAnswer'
    BY <1>0, <2>4 DEF Vanishes, Answered, HttpType, Waits, OneAnswer
  <2>5. ASSUME NEW r \in http, ServerError(r) PROVE HttpType' /\ Waits' /\ OneAnswer'
    BY <2>5, ReplyWaits DEF ServerError, Reply
  <2>6. CASE Disconnect
    BY <1>2, <2>6 DEF Disconnect, SocketDown
  <2> QED
    BY <1>11, <2>1, <2>2, <2>3, <2>4, <2>5, <2>6 DEF Faulty
<1>12. ASSUME NEW a \in down, ClientAck(a) \/ ClientError(a) PROVE HttpType' /\ Waits' /\ OneAnswer'
  BY <1>1, <1>2, <1>12 DEF ClientAck, ClientError
<1>13. ASSUME NEW s \in up, TokenExpired(s) PROVE HttpType' /\ Waits' /\ OneAnswer'
  BY <1>13, KickWaits DEF TokenExpired, Kick
<1> QED
  BY <1>1, <1>2, <1>3, <1>4, <1>5, <1>6, <1>7, <1>8, <1>9, <1>10, <1>11, <1>12, <1>13
  DEF Next, User, Start, Hear, Press, EndUnfinished, ResumeUnfinished, Delete, EndElsewhere,
      WindowEnds, AutoClose, StartProcessing, Worker, InFlightExpires, BulkMinuteEnds, ServeAny,
      Join, TimePasses, ExpireAny, ReceiveAny, Receive, Incoming, ConsentChanges, AcceptConsent, vars

LEMMA ReplyAt ==
  ASSUME TypeInv, NEW r \in http, Answered(r),
         IF r.waiting THEN Succeeds(r) \/ NotFound(r) \/ Refused(r) \/ FailsForNow \/ Offline ELSE Ignored
  PROVE  AtCreated'
<1>0. DiskType /\ HttpType /\ Waits /\ OneAnswer /\ AtCreated /\ r \in Requests /\ r.m \in Meetings
  BY TypeParts, RequestType DEF TypeInv, HttpType
<1>1. http' \subseteq http
  BY DEF Answered
<1>2. CASE r.waiting
  <2>1. \A q \in http' : ~q.waiting
    BY <1>0, <1>2 DEF Answered, OneAnswer
  <2>2. cur = r.m
    BY <1>0, <1>2 DEF Waits
  <2>3. pc' \in {"ops", "send", "bulk", "end"} => cur' \in Meetings /\ created'[cur']
    <3>1. CASE Succeeds(r)
      BY <1>0, <1>2, <2>2, <3>1 DEF Succeeds, AtCreated, DiskType
    <3>2. CASE NotFound(r) \/ Refused(r) \/ FailsForNow \/ Offline
      BY <3>2 DEF NotFound, Refused, FailsForNow, Offline, EndPass
    <3> QED
      BY <1>2, <3>1, <3>2
  <2> QED
    BY <2>1, <2>3 DEF AtCreated
<1>3. CASE ~r.waiting
  BY <1>0, <1>1, <1>3 DEF Ignored, AtCreated
<1> QED
  BY <1>2, <1>3

\* Requests that are the same but for how far they got, or late copies.
LEMMA ChangeAt ==
  ASSUME TypeInv, NEW q, NEW r \in http, http' \subseteq http \cup {q}, UNCHANGED <<pc, cur, disk>>,
         q.waiting => r.waiting /\ q.m = r.m /\ q.kind = r.kind
  PROVE  AtCreated'
BY DEF TypeInv, AtCreated

LEMMA SendAt ==
  ASSUME TypeInv, NEW q, Send(q), UNCHANGED <<cur, disk>>, pc # "wait", q.m = cur,
         q.kind # "create" => created[cur], q.kind \in {"pause", "resume"} => ops[cur] # <<>>
  PROVE  AtCreated'
<1>1. \A r \in http : ~r.waiting
  BY TypeParts DEF TypeInv, Waits
<1> QED
  BY <1>1 DEF TypeInv, AtCreated, Send

LEMMA AtCreatedStep == TypeInv /\ [Next]_vars => AtCreated'
<1> SUFFICES ASSUME TypeInv, [Next]_vars PROVE AtCreated'
  OBVIOUS
<1>0. DiskType /\ PassType /\ WireType /\ HttpType /\ Waits /\ OneAnswer /\ AtCreated
  BY TypeParts DEF TypeInv
<1>1. CASE UNCHANGED <<http, pc, cur, created, ops>>
  BY <1>0, <1>1 DEF AtCreated
<1>2. CASE Kicked /\ UNCHANGED <<http, created, ops>>
  BY <1>0, <1>2 DEF Kicked, Kick, AtCreated
<1>3. ASSUME NEW m \in Meetings, NEW op \in {"pause", "resume", "end"}, RecordOp(m, op), Kicked,
             UNCHANGED <<http, created>>
      PROVE  AtCreated'
  <2>1. ops'[m] # <<>> /\ \A n \in Meetings \ {m} : ops'[n] = ops[n]
    <3>1. ops[m] \in Seq({"pause", "resume", "end"})
      BY <1>0 DEF DiskType
    <3>2. Len(Append(ops[m], op)) # 0 /\ Len(<<>>) = 0
      BY <3>1
    <3>3. Append(ops[m], op) # <<>>
      BY <3>2
    <3> QED
      BY <1>0, <1>3, <3>3, RecordOpType
  <2>2. \A r \in http : r.m \in Meetings
    BY <1>0, RequestType DEF HttpType
  <2> QED
    BY <1>0, <1>3, <2>1, <2>2 DEF Kicked, Kick, AtCreated
<1>4. ASSUME NEW op \in {"pause", "resume", "end"}, Press(op) PROVE AtCreated'
  <2>1. live \in Meetings
    BY <1>0, <1>4 DEF Press, WireType
  <2> QED
    BY <1>3, <1>4, <2>1 DEF Press
<1>5. ASSUME NEW m \in Meetings, EndUnfinished(m) \/ ResumeUnfinished(m) PROVE AtCreated'
  BY <1>2, <1>3, <1>5 DEF EndUnfinished, ResumeUnfinished
<1>6. ASSUME NEW r \in http, Serve(r) PROVE AtCreated'
  <2>1. r \in Requests /\ r.m \in Meetings
    BY <1>0, RequestType DEF HttpType
  <2>2. CASE ServeCreate(r) \/ ServeMove(r) \/ ServeBulk(r) \/ EndCommits(r) \/ EndRefused(r)
            \/ ConnectionLost(r)
    BY <2>2, ReplyAt
    DEF ServeCreate, ServeMove, ServeBulk, EndCommits, EndRefused, ConnectionLost, Reply
  <2>3. ASSUME NEW stage \in {"flushed", "checked"}, Advance(r, stage), UNCHANGED <<pc, cur, disk>>
        PROVE  AtCreated'
    <3> DEFINE q == [r EXCEPT !.stage = stage]
    <3>1. q.waiting = r.waiting /\ q.m = r.m /\ q.kind = r.kind
      BY <2>1, RequestType
    <3>2. http' \subseteq http \cup {q}
      BY <2>3 DEF Advance
    <3> HIDE DEF q
    <3> QED
      BY <2>3, <3>1, <3>2, ChangeAt
  <2>4. CASE EndFlushes(r)
    BY <2>3, <2>4 DEF EndFlushes
  <2>5. CASE EndScans(r)
    <3>1. CASE r.waiting /\ http' = (http \ {r}) \cup {Call("endAnyway", r.m, {}, 0)}
      <4>1. Call("endAnyway", r.m, {}, 0).m = r.m /\ Call("endAnyway", r.m, {}, 0).kind = "endAnyway"
        BY <2>1, CallType, BareType
      <4>2. created[r.m]
        BY <1>0, <2>5, <3>1 DEF AtCreated, EndScans, Ends
      <4> QED
        BY <1>0, <2>5, <3>1, <4>1, <4>2 DEF AtCreated, EndScans
    <3>2. CASE Answered(r)
      BY <1>0, <2>5, <3>2 DEF EndScans, Answered, AtCreated
    <3> QED
      BY <2>3, <2>5, <3>1, <3>2 DEF EndScans
  <2> QED
    BY <1>6, <2>2, <2>4, <2>5 DEF Serve
<1>7. CASE StartPass \/ SendOnSocket \/ NothingToSend
  BY <1>0, <1>7 DEF StartPass, SendOnSocket, NothingToSend, AtCreated
<1>8. CASE NextMeeting
  <2>1. CASE EndPass(retry) /\ UNCHANGED http
    BY <1>0, <1>8, <2>1 DEF NextMeeting, EndPass, AtCreated
  <2>2. ASSUME NEW m \in todo, cur' = m, created[m], pc' = "ops", UNCHANGED http PROVE AtCreated'
    BY <1>0, <1>8, <2>2 DEF NextMeeting, AtCreated, PassType
  <2>3. ASSUME NEW m \in todo, Send(Call("create", m, {}, 0)) PROVE AtCreated'
    <3>1. Call("create", m, {}, 0).kind = "create"
      BY <1>0, CallType, BareType DEF PassType
    <3>2. \A r \in http : ~r.waiting
      BY <1>0, <1>8 DEF NextMeeting, Waits
    <3> QED
      BY <1>8, <2>3, <3>1, <3>2 DEF NextMeeting, Send, AtCreated
  <2> QED
    BY <1>8, <2>1, <2>2, <2>3 DEF NextMeeting
<1>9. CASE ReplayOps
  <2>1. CASE HeadIs(cur, {"pause", "resume"})
    <3>1. cur \in Meetings /\ created[cur] /\ ops[cur] # <<>> /\ Head(ops[cur]) \in {"pause", "resume"}
      BY <1>0, <1>9, <2>1 DEF ReplayOps, AtCreated, HeadIs
    <3>2. Call(Head(ops[cur]), cur, {}, 0).m = cur
      BY <3>1, CallType, BareType
    <3> QED
      BY <1>9, <2>1, <3>1, <3>2, SendAt DEF ReplayOps
  <2>2. CASE ~HeadIs(cur, {"pause", "resume"})
    BY <1>0, <1>9, <2>2 DEF ReplayOps, AtCreated
  <2> QED
    BY <2>1, <2>2
<1>10. CASE SendBulk \/ SendEnd
  <2>1. cur \in Meetings /\ created[cur] /\ lastSeq[cur] \in 0..MaxSeq
    BY <1>0, <1>10 DEF SendBulk, SendEnd, AtCreated, DiskType
  <2>2. Lowest(pending[cur], BulkLimit) \in SUBSET Seqs
    BY <1>0, <2>1 DEF DiskType, Lowest
  <2>3. CASE SendBulk
    <3> DEFINE q == Call("bulk", cur, Lowest(pending[cur], BulkLimit), 0)
    <3>1. q.m = cur /\ q.kind = "bulk"
      BY <2>1, <2>2, CallType, BareType
    <3>2. Send(q) /\ UNCHANGED <<cur, disk>> /\ pc # "wait"
      BY <2>3 DEF SendBulk
    <3> HIDE DEF q
    <3> QED
      BY <2>1, <3>1, <3>2, SendAt
  <2>4. CASE SendEnd
    <3> DEFINE q == Call("end", cur, {}, lastSeq[cur])
    <3>1. q.m = cur /\ q.kind = "end"
      BY <2>1, CallType, BareType
    <3>2. CASE Send(q)
      <4>1. UNCHANGED <<cur, disk>> /\ pc # "wait"
        BY <2>4 DEF SendEnd
      <4> HIDE DEF q
      <4> QED
        BY <2>1, <3>1, <3>2, <4>1, SendAt
    <3> QED
      BY <1>0, <2>4, <3>2 DEF SendEnd, AtCreated
  <2> QED
    BY <1>10, <2>3, <2>4
<1>11. CASE TimerFires
  BY <1>0, <1>11 DEF TimerFires, Kick, AtCreated
<1>12. CASE Faulty
  <2>0. \A r \in http : r \in Requests
    BY <1>0 DEF HttpType
  <2>1. CASE AppDies
    <3> DEFINE late(r) == [r EXCEPT !.waiting = FALSE]
    <3>1. \A r \in http : late(r).waiting = FALSE
      BY <2>0, RequestType
    <3>2. http' = {late(r) : r \in http}
      BY <2>1 DEF AppDies
    <3> HIDE DEF late
    <3>3. \A q \in http' : ~q.waiting
      BY <3>1, <3>2
    <3> QED
      BY <2>1, <3>3 DEF AppDies, AtCreated
  <2>2. CASE ApiCrashes
    <3> DEFINE lost(r) == [r EXCEPT !.stage = "lost"]
    <3>1. \A r \in http : lost(r).waiting = r.waiting /\ lost(r).m = r.m /\ lost(r).kind = r.kind
      BY <2>0, RequestType
    <3>2. http' = {lost(r) : r \in http}
      BY <2>2 DEF ApiCrashes
    <3>3. UNCHANGED <<disk, cur>> /\ pc' \in {pc, "start"}
      BY <2>2 DEF ApiCrashes, SocketDown, Kicked, Kick
    <3> HIDE DEF lost
    <3>4. \A q \in http' : \E r \in http : q.waiting = r.waiting /\ q.m = r.m /\ q.kind = r.kind
      BY <3>1, <3>2
    <3> QED
      BY <1>0, <3>3, <3>4 DEF AtCreated
  <2>3. ASSUME NEW r \in http, TimesOut(r) PROVE AtCreated'
    <3>1. [r EXCEPT !.waiting = FALSE].waiting = FALSE
      BY <2>0, RequestType
    <3>2. \A q \in http' : ~q.waiting
      BY <1>0, <2>3, <3>1 DEF TimesOut, OneAnswer
    <3> QED
      BY <2>3, <3>2 DEF TimesOut, Offline, EndPass, AtCreated
  <2>4. ASSUME NEW r \in http, Vanishes(r) PROVE AtCreated'
    BY <1>0, <2>4 DEF Vanishes, Answered, AtCreated
  <2>5. ASSUME NEW r \in http, ServerError(r) PROVE AtCreated'
    BY <2>5, ReplyAt DEF ServerError, Reply
  <2>6. CASE Disconnect
    BY <1>2, <2>6 DEF Disconnect, SocketDown
  <2> QED
    BY <1>12, <2>1, <2>2, <2>3, <2>4, <2>5, <2>6 DEF Faulty
<1>13. ASSUME NEW a \in down, ClientAck(a) \/ ClientError(a) PROVE AtCreated'
  BY <1>1, <1>2, <1>13 DEF ClientAck, ClientError
<1>14. ASSUME NEW s \in up, TokenExpired(s) PROVE AtCreated'
  BY <1>0, <1>14 DEF TokenExpired, Kick, AtCreated
<1> QED
  BY <1>1, <1>2, <1>4, <1>5, <1>6, <1>7, <1>8, <1>9, <1>10, <1>11, <1>12, <1>13, <1>14
  DEF Next, User, Start, Hear, Delete, EndElsewhere, WindowEnds, AutoClose, StartProcessing,
      Worker, InFlightExpires, BulkMinuteEnds, ServeAny, Join, TimePasses, ExpireAny, ReceiveAny,
      Receive, Incoming, ConsentChanges, AcceptConsent, vars

LEMMA TypeStep == TypeInv /\ [Next]_vars => TypeInv'
<1> SUFFICES ASSUME TypeInv, [Next]_vars PROVE TypeInv'
  OBVIOUS
<1>1. (DiskType /\ PassType /\ WireType /\ ServerType /\ HistoryType /\ HttpType /\ Waits)'
  BY DiskStep, PassStep, WireStep, ServerStep, HistoryStep, HttpStep DEF WireInv
<1>2. TypeOK'
  BY <1>1
  DEF TypeOK, DiskType, PassType, WireType, ServerType, HistoryType, HttpType, Waits
<1> QED
  BY <1>2, WireStep, HttpStep, AtCreatedStep DEF TypeInv, WireInv

THEOREM TypeCorrect == Spec => []TypeInv
BY InitType, TypeStep, PTL DEF Spec

\* The state of the phone, the wires and the server keeps its shape, and the pass
\* waits exactly while a request of the meeting it syncs is out.
THEOREM TypeOKInvariant == Spec => []TypeOK
BY TypeCorrect, PTL DEF TypeInv

-----------------------------------------------------------------------------
(* Nothing is lost.                                                         *)
(*                                                                          *)
(* A line leaves pending_segments in four places: an ack on the socket, a   *)
(* 2xx to a bulk request, the end of the meeting, and a meeting that is not *)
(* found.  Each is safe for its own reason, a part of SafeInv: an ack on    *)
(* its way is of a stored line (AckStored); the rows the bulk request made  *)
(* are this phone's, because no line of it shares a seq with another        *)
(* device's (Numbered); `end` is sent when nothing is pending and the phone *)
(* takes no line after it (EndInv); and what was created and is not found   *)
(* was deleted (OnServer).                                                  *)

\* A meeting with `end` in its queue takes no more lines; while `end` is answered
\* nothing is pending.
EndInv ==
  /\ \A m \in Meetings : \A i \in DOMAIN ops[m] : ops[m][i] = "end" => local[m] = "ending"
  /\ \A r \in http : r.waiting /\ Ends(r) => pending[r.m] = {} /\ local[r.m] = "ending"

\* What the server has created is there, until the user deletes it.
OnServer == \A m \in Meetings : created[m] /\ status[m] = "none" => m \in gone

\* No line of this phone has the seq of a line another device sent: it is numbered
\* after the highest seq found when the meeting was adopted.
Numbered ==
  \A m \in Meetings :
    /\ m \in Adopted => created[m]
    /\ \A s \in Seqs : rows[m][s] = "there" =>
         /\ m \in Adopted /\ status[m] # "none" /\ s \notin saved[m]
         /\ local[m] # "none" => s <= lastSeq[m]

\* An ack on its way is of a stored line.
AckStored == \A a \in down : a.kind = "ack" => rows[room][a.seq] # "none" \/ room \in gone

SafeInv == EndInv /\ OnServer /\ Numbered /\ AckStored /\ NoLoss

LEMMA SafeInit == Init => SafeInv
<1> SUFFICES ASSUME Init PROVE SafeInv
  OBVIOUS
<1>1. EndInv /\ AckStored /\ NoLoss
  BY DEF Init, EndInv, AckStored, NoLoss
<1>2. OnServer /\ Numbered
  BY DEF Init, OnServer, Numbered
<1> QED
  BY <1>1, <1>2 DEF SafeInv

\* A row is written once and goes only with its meeting.
RowKept(m) ==
  \A s \in Seqs :
    \/ rows'[m][s] = rows[m][s]
    \/ rows[m][s] = "none" /\ rows'[m][s] = "here"
    \/ rows'[m][s] = "none" /\ m \in gone'

\* A row of the transcript is written once, and goes only with its meeting; a meeting
\* goes only when its user deletes it.
LEMMA RowsStep ==
  ASSUME TypeInv, [Next]_vars, NEW m \in Meetings
  PROVE  /\ gone \subseteq gone'
         /\ RowKept(m)
         /\ status'[m] = "none" =>
              status[m] = "none" \/ (m \in gone' /\ \A s \in Seqs : rows'[m][s] = "none")
<1> DEFINE Grown == \A s \in Seqs : rows'[m][s] = rows[m][s] \/ (rows[m][s] = "none" /\ rows'[m][s] = "here")
           There == status'[m] = "none" => status[m] = "none"
           Goal == /\ gone \subseteq gone'
                   /\ RowKept(m)
                   /\ status'[m] = "none" =>
                        status[m] = "none" \/ (m \in gone' /\ \A s \in Seqs : rows'[m][s] = "none")
<1>0. ServerType /\ HttpType
  BY TypeParts DEF TypeInv
<1>1. gone \subseteq gone' /\ Grown /\ There => Goal
  BY DEF RowKept
<1>2. ASSUME UNCHANGED <<status, rows, gone>> PROVE Goal
  BY <1>2 DEF RowKept
<1>3. ASSUME NEW n \in Meetings, NEW S, rows' = [rows EXCEPT ![n] = Written(n, S)] PROVE Grown
  BY <1>0, <1>3, WrittenType DEF Written, ServerType
<1>4. ASSUME NEW n \in Meetings, NEW ok \in BOOLEAN, WriteBatch(n, ok) PROVE Grown
  BY <1>3, <1>4 DEF WriteBatch
<1>5. ASSUME NEW r \in http, Serve(r) PROVE Goal
  <2> SUFFICES gone \subseteq gone' /\ Grown /\ There
    BY <1>1
  <2>1. r.m \in Meetings
    BY <1>0, RequestType DEF HttpType
  <2>2. CASE ServeCreate(r) \/ ServeMove(r) \/ EndCommits(r)
    BY <1>0, <2>1, <2>2, Moves DEF ServeCreate, ServeMove, EndCommits, ServerType
  <2>3. CASE ServeBulk(r)
    <3>1. Grown
      BY <1>3, <2>1, <2>3 DEF ServeBulk
    <3> QED
      BY <2>3, <3>1 DEF ServeBulk
  <2>4. CASE EndFlushes(r)
    <3>1. Grown
      BY <1>4, <2>1, <2>4 DEF EndFlushes
    <3> QED
      BY <2>4, <3>1 DEF EndFlushes
  <2>5. CASE EndScans(r) \/ EndRefused(r) \/ ConnectionLost(r)
    BY <2>5 DEF EndScans, EndRefused, ConnectionLost
  <2> QED
    BY <1>5, <2>2, <2>3, <2>4, <2>5 DEF Serve
<1>6. ASSUME NEW n \in Meetings, WindowEnds(n) PROVE Goal
  <2> SUFFICES gone \subseteq gone' /\ Grown /\ There
    BY <1>1
  <2>1. Grown
    <3>1. (status[n] \in AcceptsSegments) \in BOOLEAN
      OBVIOUS
    <3> QED
      BY <1>4, <1>6, <3>1 DEF WindowEnds
  <2> QED
    BY <1>6, <2>1 DEF WindowEnds
<1>7. ASSUME NEW n \in Meetings, AutoClose(n) \/ StartProcessing(n) \/ EndElsewhere(n)
      PROVE  Goal
  BY <1>0, <1>7, Moves DEF AutoClose, StartProcessing, EndElsewhere, SetStatus, ServerType, RowKept
<1>8. ASSUME NEW n \in Meetings, Delete(n)
      PROVE  Goal
  BY <1>0, <1>8 DEF Delete, SetStatus, ServerType, RowKept
<1>9. ASSUME Faulty PROVE Goal
  BY <1>2, <1>9 DEF Faulty, AppDies, Disconnect, ApiCrashes, ServerError, TimesOut, Vanishes
<1>10. Goal
  <2> HIDE DEF Goal
  <2> QED
    BY <1>2, <1>5, <1>6, <1>7, <1>8, <1>9
  DEF Next, User, Start, Hear, Press, EndUnfinished, ResumeUnfinished, Worker, StartPass,
      NextMeeting, ReplayOps, SendOnSocket, SendBulk, NothingToSend, SendEnd, TimerFires,
      InFlightExpires, BulkMinuteEnds, ServeAny, Join, TimePasses, ExpireAny, TokenExpired, ReceiveAny,
      Receive, Incoming, ClientAck,
      ClientError, ConsentChanges, AcceptConsent, vars
<1> QED
  BY <1>10

(* The ways the queue on the disk changes.  What an answer proves about the server is  *)
(* kept with it: a created meeting is there, a bulk's lines are stored, a meeting not  *)
(* found is away.                                                                     *)
Told(r) ==
  /\ r \in http /\ r.waiting /\ Answered(r) /\ UNCHANGED <<saved, gone>>
  /\ \/ Succeeds(r) /\ r.kind = "create" /\ status'[r.m] # "none"
     \/ Succeeds(r) /\ r.kind \in {"pause", "resume"}
     \/ Succeeds(r) /\ r.kind = "bulk" /\ \A s \in r.seqs : rows'[r.m][s] # "none"
     \/ Succeeds(r) /\ Ends(r) /\ status'[r.m] \in Statuses \ Live
     \/ NotFound(r) /\ status[r.m] = "none" /\ r.kind # "create"
     \/ Refused(r)

LEMMA WrittenStored ==
  ASSUME TypeInv, NEW m \in Meetings, NEW S, rows' = [rows EXCEPT ![m] = Written(m, S)],
         NEW s \in Seqs, s \in S
  PROVE  rows'[m][s] # "none"
<1>1. rows'[m] = Written(m, S)
  BY TypeParts DEF TypeInv, ServerType
<1> QED
  BY <1>1 DEF Written

LEMMA ServeTold ==
  ASSUME TypeInv, NEW r \in http, Serve(r)
  PROVE  UNCHANGED <<disk, saved>> \/ Told(r)
<1>0. ServerType /\ r.m \in Meetings /\ r.seqs \subseteq Seqs /\ r.waiting \in BOOLEAN
  BY TypeParts, RequestType DEF TypeInv, HttpType
<1>1. CASE ~r.waiting
  BY <1>1 DEF Serve, ServeCreate, ServeMove, ServeBulk, EndFlushes, EndScans, EndCommits,
              EndRefused, ConnectionLost, Reply, Ignored
<1>2. CASE EndFlushes(r) \/ EndScans(r) \/ ConnectionLost(r)
  BY <1>1, <1>2 DEF EndFlushes, EndScans, ConnectionLost, Reply, Offline
<1>3. CASE r.waiting /\ ServeCreate(r)
  <2>1. CASE consent
    <3>1. status'[r.m] # "none"
      BY <1>0, <1>3, <2>1 DEF ServeCreate, ServerType
    <3> QED
      BY <1>3, <2>1, <3>1 DEF ServeCreate, Reply, Told
  <2>2. CASE ~consent
    BY <1>3, <2>2 DEF ServeCreate, Reply, Told
  <2> QED
    BY <2>1, <2>2
<1>4. CASE r.waiting /\ ServeMove(r)
  BY <1>4 DEF ServeMove, Reply, Deleted, Told
<1>5. CASE r.waiting /\ ServeBulk(r)
  <2>1. CASE status[r.m] \in AcceptsSegments
    <3>1. \A s \in r.seqs : rows'[r.m][s] # "none"
      BY <1>0, <1>5, <2>1, WrittenStored DEF ServeBulk
    <3>2. ~Deleted(r)
      BY <2>1 DEF Deleted, AcceptsSegments
    <3> QED
      BY <1>5, <2>1, <3>1, <3>2 DEF ServeBulk, Reply, Told
  <2>2. CASE status[r.m] \notin AcceptsSegments
    BY <1>5, <2>2 DEF ServeBulk, Reply, Deleted, FailsForNow, Told
  <2> QED
    BY <2>1, <2>2
<1>6. CASE r.waiting /\ EndCommits(r)
  <2>1. status'[r.m] \in Statuses \ Live
    BY <1>0, <1>6, Moves DEF EndCommits, ServerType, Statuses, Live
  <2> QED
    BY <1>6, <2>1 DEF EndCommits, Reply, Told
<1>7. CASE r.waiting /\ EndRefused(r)
  <2>1. ~Deleted(r) => status'[r.m] \in Statuses \ Live
    BY <1>0, <1>7, Moves DEF EndRefused, Deleted, ServerType
  <2> QED
    BY <1>7, <2>1 DEF EndRefused, Reply, Deleted, FailsForNow, Ends, Told
<1> QED
  BY <1>0, <1>1, <1>2, <1>3, <1>4, <1>5, <1>6, <1>7 DEF Serve

LEMMA DiskCases ==
  ASSUME TypeInv, [Next]_vars
  PROVE  \/ UNCHANGED <<disk, saved>>
         \/ \E m \in Meetings : Start(m) \/ EndUnfinished(m) \/ ResumeUnfinished(m)
         \/ Hear \/ \E op \in {"pause", "resume", "end"} : Press(op)
         \/ \E r \in http : Told(r)
         \/ \E a \in down : ClientAck(a)
<1> DEFINE Kept == UNCHANGED <<disk, saved>>
<1>1. ASSUME NEW r \in http, TimesOut(r) \/ Vanishes(r) \/ ServerError(r) PROVE Kept
  BY <1>1 DEF TimesOut, Vanishes, ServerError, Reply, Offline, FailsForNow, Ignored
<1>2. ASSUME Faulty PROVE Kept
  BY <1>1, <1>2 DEF Faulty, AppDies, Disconnect, ApiCrashes
<1>3. ASSUME Worker PROVE Kept
  BY <1>3 DEF Worker, StartPass, NextMeeting, ReplayOps, SendOnSocket, SendBulk, NothingToSend, SendEnd
<1>4. ASSUME NEW m \in Meetings,
             WindowEnds(m) \/ AutoClose(m) \/ StartProcessing(m) \/ Delete(m) \/ EndElsewhere(m)
      PROVE  Kept
  BY <1>4 DEF WindowEnds, AutoClose, StartProcessing, Delete, EndElsewhere
<1>5. ASSUME \/ TimerFires \/ InFlightExpires \/ BulkMinuteEnds \/ Join \/ TimePasses
             \/ ReceiveAny \/ ExpireAny \/ ConsentChanges \/ AcceptConsent \/ \E a \in down : ClientError(a)
      PROVE  Kept
  BY <1>5 DEF TimerFires, InFlightExpires, BulkMinuteEnds, Join, TimePasses, ExpireAny, TokenExpired,
              ReceiveAny, Receive,
              ConsentChanges, AcceptConsent, ClientError
<1>6. ASSUME UNCHANGED vars PROVE Kept
  BY <1>6 DEF vars
<1>7. ASSUME ServeAny PROVE Kept \/ \E r \in http : Told(r)
  BY <1>7, ServeTold DEF ServeAny
<1> HIDE DEF Kept
<1>8. \/ Kept
      \/ \E m \in Meetings : Start(m) \/ EndUnfinished(m) \/ ResumeUnfinished(m)
      \/ Hear \/ \E op \in {"pause", "resume", "end"} : Press(op)
      \/ \E r \in http : Told(r)
      \/ \E a \in down : ClientAck(a)
  BY <1>2, <1>3, <1>4, <1>5, <1>6, <1>7 DEF Next, User, Incoming
<1> QED
  BY <1>8 DEF Kept

LEMMA OnServerStep == TypeInv /\ OnServer /\ [Next]_vars => OnServer'
<1> SUFFICES ASSUME TypeInv, OnServer, [Next]_vars, NEW m \in Meetings, created'[m], status'[m] = "none"
             PROVE  m \in gone'
  BY DEF OnServer
<1>0. DiskType /\ HttpType
  BY TypeParts DEF TypeInv
<1>1. gone \subseteq gone' /\ (status[m] = "none" \/ m \in gone')
  BY RowsStep
<1>2. CASE created[m]
  BY <1>1, <1>2 DEF OnServer
<1>3. CASE ~created[m]
  <2>1. ASSUME NEW r \in http, Told(r) PROVE m \in gone'
    <3>1. r.m \in Meetings
      BY <1>0, RequestType DEF HttpType
    <3>2. (Succeeds(r) /\ r.kind = "create" /\ status'[r.m] # "none") \/ UNCHANGED created
      BY <2>1, BareType DEF Told, Succeeds, NotFound, Refused, Ends
    <3> QED
      BY <1>0, <1>3, <3>1, <3>2 DEF Succeeds, DiskType
  <2> QED
    BY <1>3, <2>1, DiskCases DEF Start, EndUnfinished, ResumeUnfinished, Hear, Press, ClientAck
<1> QED
  BY <1>0, <1>2, <1>3 DEF DiskType

\* Why a line that left the queue may leave it.
LEMMA PendingStep ==
  ASSUME TypeInv, EndInv, OnServer, AckStored, [Next]_vars,
         NEW m \in Meetings, NEW s \in saved'[m], s \notin pending'[m]
  PROVE  s \in saved[m] /\ (s \notin pending[m] \/ rows'[m][s] # "none" \/ m \in gone')
<1> DEFINE Goal == s \in saved[m] /\ (s \notin pending[m] \/ rows'[m][s] # "none" \/ m \in gone')
<1>0. DiskType /\ HttpType /\ HistoryType /\ WireType /\ ServerType
  BY TypeParts DEF TypeInv
<1>1. ASSUME UNCHANGED <<pending, saved>> PROVE Goal
  BY <1>1
<1>2. ASSUME Hear PROVE Goal
  <2>1. live \in Meetings
    BY <1>0, <1>2 DEF WireType, Hear
  <2>2. CASE m = live
    BY <1>0, <1>2, <2>1, <2>2 DEF Hear, DiskType, HistoryType
  <2>3. CASE m # live
    BY <1>0, <1>2, <2>1, <2>3 DEF Hear, DiskType, HistoryType
  <2> QED
    BY <2>2, <2>3
<1>3. ASSUME NEW r \in http, Told(r) PROVE Goal
  <2>1. r.m \in Meetings /\ r.seqs \subseteq Seqs /\ saved' = saved
    BY <1>0, <1>3, RequestType DEF HttpType, Told
  <2>2. CASE UNCHANGED pending
    BY <2>1, <2>2, <1>1
  <2>3. CASE Succeeds(r) /\ r.kind = "bulk" /\ \A n \in r.seqs : rows'[r.m][n] # "none"
    <3>1. pending' = [pending EXCEPT ![r.m] = @ \ r.seqs]
      BY <2>3 DEF Succeeds
    <3>2. CASE m = r.m
      <4>1. pending'[m] = pending[m] \ r.seqs
        BY <1>0, <3>1, <3>2 DEF DiskType
      <4> QED
        BY <2>1, <2>3, <3>2, <4>1
    <3>3. CASE m # r.m
      BY <1>0, <2>1, <3>1, <3>3 DEF DiskType
    <3> QED
      BY <3>2, <3>3
  <2>4. CASE DeleteLocal(r.m) /\ (Ends(r) \/ (status[r.m] = "none" /\ r.kind # "create"))
    <3>1. CASE m # r.m
      BY <1>0, <2>1, <2>4, <3>1, DeleteLocalType
    <3>2. CASE m = r.m /\ Ends(r)
      BY <1>3, <2>1, <3>2 DEF EndInv, Told
    <3>3. CASE m = r.m /\ status[r.m] = "none" /\ r.kind # "create"
      <4>1. created[m]
        BY <1>3, <3>3 DEF TypeInv, AtCreated, Told
      <4> QED
        BY <1>3, <2>1, <3>3, <4>1 DEF OnServer, Told
    <3> QED
      BY <2>4, <3>1, <3>2, <3>3
  <2> HIDE DEF Goal
  <2> QED
    BY <1>3, <2>2, <2>3, <2>4 DEF Told, Succeeds, NotFound, Refused, Ends
<1>4. ASSUME NEW a \in down, ClientAck(a) PROVE Goal
  <2>1. room \in Meetings /\ a.seq \in Seqs
    BY <1>0, <1>4 DEF WireType, TypeInv, RoomInv
  <2>2. pending' = [pending EXCEPT ![room] = @ \ {a.seq}] /\ UNCHANGED <<saved, rows, gone>>
    BY <1>4 DEF ClientAck
  <2>3. rows[room][a.seq] # "none" \/ room \in gone
    BY <1>4 DEF AckStored, ClientAck
  <2>4. CASE m = room
    <3>1. pending'[m] = pending[m] \ {a.seq}
      BY <1>0, <2>1, <2>2, <2>4 DEF DiskType
    <3> QED
      BY <2>2, <2>3, <2>4, <3>1
  <2>5. CASE m # room
    BY <1>0, <2>1, <2>2, <2>5 DEF DiskType
  <2> QED
    BY <2>4, <2>5
<1>5. ASSUME NEW n \in Meetings, Start(n) \/ EndUnfinished(n) \/ ResumeUnfinished(n) PROVE Goal
  BY <1>1, <1>5 DEF Start, EndUnfinished, ResumeUnfinished
<1>6. ASSUME NEW op \in {"pause", "resume", "end"}, Press(op) PROVE Goal
  BY <1>1, <1>6 DEF Press
<1> HIDE DEF Goal
<1>7. Goal
  BY <1>1, <1>2, <1>3, <1>4, <1>5, <1>6, DiskCases
<1> QED
  BY <1>7 DEF Goal

\* Only where the rows of lines recorded elsewhere lie was asked when the meeting was
\* adopted: that GET /segments must not have failed.
LEMMA NumberedStep ==
  ASSUME TypeInv, Numbered, [Next]_vars, Adopted = {} \/ "load_fails" \notin Env
  PROVE  Numbered'
<1>0. DiskType /\ HttpType /\ HistoryType /\ WireType /\ ServerType
  BY TypeParts DEF TypeInv
<1>1. ASSUME NEW m \in Meetings, created[m] PROVE created'[m]
  <2>1. ASSUME NEW r \in http, Told(r) PROVE created'[m]
    BY <1>0, <1>1, <2>1, RequestType DEF Told, Succeeds, NotFound, Refused, HttpType, DiskType
  <2> QED
    BY <1>1, <2>1, DiskCases DEF Start, EndUnfinished, ResumeUnfinished, Hear, Press, ClientAck
<1>2. ASSUME NEW m \in Meetings, NEW s \in Seqs, rows'[m][s] = "there"
      PROVE  m \in Adopted /\ status'[m] # "none" /\ s \notin saved'[m] /\ (local'[m] # "none" => s <= lastSeq'[m])
  <2>1. rows[m][s] = "there" /\ status'[m] # "none"
    <3>1. RowKept(m) /\ (status'[m] = "none" => status[m] = "none" \/ \A t \in Seqs : rows'[m][t] = "none")
      BY RowsStep
    <3> QED
      BY <1>2, <3>1 DEF RowKept, Numbered
  <2>2. /\ m \in Adopted /\ created[m] /\ status[m] # "none" /\ s \notin saved[m]
        /\ local[m] # "none" => s <= lastSeq[m]
    BY <2>1 DEF Numbered
  <2> DEFINE Goal == s \notin saved'[m] /\ (local'[m] # "none" => s <= lastSeq'[m])
  <2>3. ASSUME UNCHANGED <<lastSeq, saved>>, local'[m] # "none" => local[m] # "none" PROVE Goal
    BY <2>2, <2>3
  <2>4. ASSUME NEW n \in Meetings, Start(n) \/ EndUnfinished(n) PROVE Goal
    <3>1. local'[m] # "none" => local[m] # "none"
      BY <1>0, <2>2, <2>4, RecordOpType DEF Start, EndUnfinished, DiskType, Live
    <3> QED
      BY <2>3, <2>4, <3>1 DEF Start, EndUnfinished
  <2>5. ASSUME NEW n \in Meetings, ResumeUnfinished(n) PROVE Goal
    <3>1. CASE m # n
      <4>1. local'[m] = local[m]
        BY <1>0, <2>5, <3>1, RecordOpType DEF ResumeUnfinished, DiskType
      <4>2. lastSeq'[m] = lastSeq[m] /\ saved' = saved
        BY <1>0, <2>5, <3>1 DEF ResumeUnfinished, DiskType
      <4> QED
        BY <2>2, <4>1, <4>2
    <3>2. CASE m = n
      <4>1. PICK top \in Loads(n) : lastSeq' = [lastSeq EXCEPT ![n] = IF created[n] /\ top > @ THEN top ELSE @]
        BY <2>5 DEF ResumeUnfinished
      <4>2. top \in Highest(n)
        BY <2>2, <4>1 DEF Loads
      <4>3. top \in Nat /\ s \in Nat /\ s <= top
        BY <2>1, <3>2, <4>2 DEF Highest, Seqs
      <4>4. lastSeq[n] \in Nat /\ lastSeq'[n] = IF top > lastSeq[n] THEN top ELSE lastSeq[n]
        BY <1>0, <2>2, <3>2, <4>1, SyncAssumption DEF DiskType
      <4>5. s <= lastSeq'[n]
        BY <4>3, <4>4
      <4> QED
        BY <2>2, <2>5, <3>2, <4>5 DEF ResumeUnfinished
    <3> QED
      BY <3>1, <3>2
  <2>6. ASSUME Hear PROVE Goal
    <3>0. live \in Meetings /\ lastSeq[m] \in Nat /\ s \in Nat
      BY <1>0, <2>6, SyncAssumption DEF Hear, WireType, DiskType, Seqs
    <3>1. CASE m = live
      <4>1. lastSeq'[m] = lastSeq[m] + 1 /\ saved'[m] = saved[m] \cup {lastSeq[m] + 1} /\ local[m] = "recording"
        BY <1>0, <2>6, <3>0, <3>1 DEF Hear, DiskType, HistoryType
      <4>2. s <= lastSeq[m]
        BY <2>2, <4>1
      <4> QED
        BY <2>2, <3>0, <4>1, <4>2
    <3>2. CASE m # live
      <4>1. lastSeq'[m] = lastSeq[m] /\ saved'[m] = saved[m] /\ local' = local
        BY <1>0, <2>6, <3>0, <3>2 DEF Hear, DiskType, HistoryType
      <4> QED
        BY <2>2, <4>1
    <3> QED
      BY <3>1, <3>2
  <2>7. ASSUME NEW op \in {"pause", "resume", "end"}, Press(op) PROVE Goal
    <3>1. live \in Meetings /\ (local'[m] # "none" => local[m] # "none")
      BY <1>0, <2>7, RecordOpType DEF Press, WireType, Live
    <3> QED
      BY <2>3, <2>7, <3>1 DEF Press
  <2>8. ASSUME NEW r \in http, Told(r) PROVE Goal
    <3>1. r.m \in Meetings
      BY <1>0, RequestType DEF HttpType
    <3>2. local' = local \/ DeleteLocal(r.m)
      BY <2>8 DEF Told, Succeeds, NotFound, Refused
    <3>3. local'[m] # "none" => local[m] # "none"
      BY <1>0, <3>1, <3>2, DeleteLocalType
    <3> QED
      BY <2>3, <2>8, <3>3 DEF Told, Succeeds, NotFound, Refused
  <2>9. ASSUME NEW a \in down, ClientAck(a) PROVE Goal
    BY <2>3, <2>9 DEF ClientAck
  <2>10. Goal
    <3>1. ASSUME UNCHANGED <<disk, saved>> PROVE Goal
      BY <2>3, <3>1
    <3> HIDE DEF Goal
    <3> QED
      BY <2>4, <2>5, <2>6, <2>7, <2>8, <2>9, <3>1, DiskCases
  <2> QED
    BY <2>1, <2>2, <2>10
<1> QED
  BY <1>1, <1>2 DEF Numbered

LEMMA AckStoredStep == TypeInv /\ AckStored /\ [Next]_vars => AckStored'
<1> SUFFICES ASSUME TypeInv, AckStored, [Next]_vars, NEW a \in down', a.kind = "ack"
             PROVE  rows'[room'][a.seq] # "none" \/ room' \in gone'
  BY DEF AckStored
<1>0. WireType /\ ServerType /\ HttpType
  BY TypeParts DEF TypeInv
<1> DEFINE Old == a \in down /\ room' = room
           New == rows'[room'][a.seq] # "none"
<1>1. CASE Old
  <2>1. room \in Meetings /\ a.seq \in Seqs
    BY <1>0, <1>1 DEF WireType, TypeInv, RoomInv
  <2>2. rows[room][a.seq] # "none" \/ room \in gone
    BY <1>1 DEF AckStored
  <2>3. RowKept(room) /\ gone \subseteq gone'
    BY <2>1, RowsStep
  <2> QED
    BY <1>1, <2>1, <2>2, <2>3 DEF RowKept
<1>2. ASSUME NEW m \in Meetings, NEW ok \in BOOLEAN, WriteBatch(m, ok), room' = room PROVE Old \/ New
  <2>1. CASE a \in down
    BY <1>2, <2>1
  <2>2. CASE a \notin down
    <3>1. PICK i \in BatchOf(m) : i.live /\ a = [kind |-> Ack(ok), seq |-> i.seq]
      BY <1>2, <2>2 DEF WriteBatch
    <3>2. ok /\ a.seq = i.seq
      BY <3>1 DEF Ack
    <3>3. i \in buffer /\ i.m = m /\ i.m = room /\ i.seq \in Seqs
      BY <1>0, <3>1 DEF BatchOf, TypeInv, RoomInv, WireType
    <3> DEFINE S == {j.seq : j \in BatchOf(m)}
    <3>4. rows' = [rows EXCEPT ![m] = Written(m, S)] /\ i.seq \in S
      BY <1>2, <3>1, <3>2 DEF WriteBatch
    <3> HIDE DEF S
    <3>5. rows'[m][i.seq] # "none"
      BY <3>3, <3>4, WrittenStored
    <3> QED
      BY <1>2, <3>2, <3>3, <3>5
  <2> QED
    BY <2>1, <2>2
<1>3. ASSUME down' = {} \/ (down' \subseteq down /\ room' = room) PROVE Old \/ New
  BY <1>3
<1>4. ASSUME NEW r \in http, Serve(r) PROVE Old \/ New
  <2>1. r.m \in Meetings
    BY <1>0, RequestType DEF HttpType
  <2>2. CASE EndFlushes(r)
    BY <1>2, <2>1, <2>2 DEF EndFlushes
  <2>3. ASSUME NEW q \in http, Succeeds(q) \/ NotFound(q) \/ Refused(q) \/ FailsForNow \/ Offline \/ Ignored
        PROVE  Old \/ New
    BY <1>3, <2>3 DEF Succeeds, NotFound, Refused, FailsForNow, Offline, Ignored, DeleteLocal,
                      SetLiveNone, Quiet, Hangup
  <2> HIDE DEF Old, New
  <2>4. CASE EndScans(r)
    BY <1>3, <2>4 DEF EndScans
  <2> QED
    BY <1>4, <2>2, <2>3, <2>4
    DEF Serve, ServeCreate, ServeMove, ServeBulk, EndCommits, EndRefused, ConnectionLost, Reply
<1>5. ASSUME NEW m \in Meetings, WindowEnds(m) PROVE Old \/ New
  <2>1. (status[m] \in AcceptsSegments) \in BOOLEAN
    OBVIOUS
  <2> QED
    BY <1>2, <1>5, <2>1 DEF WindowEnds
<1>6. ASSUME NEW s \in up, Receive(s) PROVE Old \/ New
  <2>1. CASE UNCHANGED down
    BY <1>3, <1>6, <2>1 DEF Receive
  <2>2. CASE down' = down \cup {[kind |-> "limited", seq |-> s]}
    <3>1. a \in down
      BY <2>2
    <3> QED
      BY <1>6, <3>1 DEF Receive
  <2> QED
    BY <1>6, <2>1, <2>2 DEF Receive
<1>7. ASSUME NEW b \in down, ClientAck(b) \/ ClientError(b) PROVE Old \/ New
  BY <1>3, <1>7 DEF ClientAck, ClientError
<1>8. ASSUME ReplayOps PROVE Old \/ New
  <2>1. room' = room \/ (room = None /\ UNCHANGED down)
    BY <1>8 DEF ReplayOps, TypeInv, RoomInv
  <2> QED
    BY <1>3, <1>8, <2>1 DEF ReplayOps, TypeInv, RoomInv
<1>9. ASSUME Worker PROVE Old \/ New
  BY <1>3, <1>8, <1>9 DEF Worker, StartPass, NextMeeting, SendOnSocket, SendBulk, NothingToSend, SendEnd
<1>10. ASSUME Faulty PROVE Old \/ New
  BY <1>3, <1>10
  DEF Faulty, AppDies, Disconnect, ApiCrashes, Hangup, TimesOut, Vanishes, ServerError, Reply,
      Offline, Quiet, FailsForNow, Ignored
<1> HIDE DEF Old, New
<1>12. ASSUME NEW s \in up, TokenExpired(s) PROVE Old \/ New
  BY <1>3, <1>12 DEF TokenExpired, Hangup
<1>11. Old \/ New
  BY <1>3, <1>4, <1>5, <1>6, <1>7, <1>9, <1>10, <1>12
  DEF Next, User, Start, Hear, Press, EndUnfinished, ResumeUnfinished, Delete, EndElsewhere,
      AutoClose, StartProcessing, TimerFires, InFlightExpires, BulkMinuteEnds, ServeAny, Join, TimePasses,
      ExpireAny,
      ReceiveAny, Incoming, ConsentChanges, AcceptConsent, vars
<1> QED
  BY <1>1, <1>11 DEF New

\* Where a request to end comes from.
LEMMA EndsCases ==
  ASSUME TypeInv, [Next]_vars, NEW q \in http', Ends(q)
  PROVE  \/ \E r \in http : Ends(r) /\ r.m = q.m /\ (q.waiting => r.waiting)
         \/ SendEnd /\ q.m = cur /\ HeadIs(cur, {"end"}) /\ AllSynced(cur)
<1> DEFINE Old == \E r \in http : Ends(r) /\ r.m = q.m /\ (q.waiting => r.waiting)
           New == SendEnd /\ q.m = cur /\ HeadIs(cur, {"end"}) /\ AllSynced(cur)
<1>0. /\ \A r \in http : r \in Requests
      /\ DiskType /\ PassType /\ todo \subseteq Meetings
  BY TypeParts DEF TypeInv, HttpType, PassType
<1>1. ASSUME q \in http PROVE Old
  BY <1>1
<1>2. ASSUME NEW kind \in Kinds, NEW m \in Meetings, NEW S \in SUBSET Seqs, NEW last \in 0..MaxSeq,
             kind \notin {"end", "endAnyway"}, Send(Call(kind, m, S, last))
      PROVE  Old
  BY <1>1, <1>2, CallType DEF Send, Ends
<1>3. ASSUME Worker PROVE Old \/ New
  <2>1. pc \in {"ops", "send", "bulk", "end"} => cur \in Meetings
    BY DEF TypeInv, AtCreated
  <2>2. ASSUME NextMeeting PROVE Old
    <3>1. http' = http \/ \E m \in Meetings : Send(Call("create", m, {}, 0))
      BY <1>0, <2>2 DEF NextMeeting
    <3> QED
      BY <1>1, <1>2, <3>1, BareType
  <2>3. ASSUME ReplayOps PROVE Old
    <3>1. http' = http \/ \E kind \in {"pause", "resume"} : Send(Call(kind, cur, {}, 0))
      BY <2>3 DEF ReplayOps, HeadIs
    <3>2. cur \in Meetings
      BY <2>1, <2>3 DEF ReplayOps
    <3> QED
      BY <1>1, <1>2, <3>1, <3>2, BareType
  <2>4. ASSUME SendBulk PROVE Old
    <3>1. Send(Call("bulk", cur, Lowest(pending[cur], BulkLimit), 0)) /\ cur \in Meetings
      BY <2>1, <2>4 DEF SendBulk
    <3>2. Lowest(pending[cur], BulkLimit) \in SUBSET Seqs
      BY <1>0, <3>1 DEF Lowest, DiskType
    <3> QED
      BY <1>2, <3>1, <3>2, BareType
  <2>5. ASSUME SendEnd PROVE Old \/ New
    <3> DEFINE c == Call("end", cur, {}, lastSeq[cur])
    <3>1. cur \in Meetings /\ lastSeq[cur] \in 0..MaxSeq
      BY <1>0, <2>1, <2>5 DEF SendEnd, DiskType
    <3>2. c.m = cur
      BY <3>1, CallType, BareType
    <3>3. http' = http \/ (http' = http \cup {c} /\ HeadIs(cur, {"end"}) /\ AllSynced(cur))
      BY <2>5 DEF SendEnd, Send
    <3> HIDE DEF c
    <3> QED
      BY <1>1, <2>5, <3>2, <3>3
  <2> QED
    BY <1>1, <1>3, <2>2, <2>3, <2>4, <2>5 DEF Worker, StartPass, SendOnSocket, NothingToSend
<1>4. ASSUME NEW r \in http, Serve(r) PROVE Old
  <2>1. CASE Answered(r)
    BY <1>1, <2>1 DEF Answered
  <2>2. ASSUME NEW stage \in {"flushed", "checked"}, Ends(r), Advance(r, stage) PROVE Old
    <3> DEFINE c == [r EXCEPT !.stage = stage]
    <3>1. c.waiting = r.waiting /\ c.m = r.m
      BY <1>0, RequestType
    <3>2. q \in http \/ q = c
      BY <2>2 DEF Advance
    <3> HIDE DEF c
    <3> QED
      BY <1>1, <2>2, <3>1, <3>2
  <2>3. CASE r.waiting /\ Ends(r) /\ http' = (http \ {r}) \cup {Call("endAnyway", r.m, {}, 0)}
    <3>1. r.m \in Meetings
      BY <1>0, RequestType
    <3>2. Call("endAnyway", r.m, {}, 0).m = r.m
      BY <3>1, CallType, BareType
    <3> QED
      BY <1>1, <2>3, <3>2
  <2> HIDE DEF Old
  <2> QED
    BY <1>4, <2>1, <2>2, <2>3
    DEF Serve, ServeCreate, ServeMove, ServeBulk, EndFlushes, EndScans, EndCommits, EndRefused,
        ConnectionLost, Reply
<1>5. ASSUME Faulty PROVE Old
  <2>1. CASE AppDies
    <3> DEFINE late(r) == [r EXCEPT !.waiting = FALSE]
    <3>1. \A r \in http : late(r).waiting = FALSE /\ late(r).m = r.m /\ late(r).kind = r.kind
      BY <1>0, RequestType
    <3>2. http' = {late(r) : r \in http}
      BY <2>1 DEF AppDies
    <3> HIDE DEF late
    <3> QED
      BY <3>1, <3>2 DEF Ends
  <2>2. CASE ApiCrashes
    <3> DEFINE lost(r) == [r EXCEPT !.stage = "lost"]
    <3>1. \A r \in http : lost(r).waiting = r.waiting /\ lost(r).m = r.m /\ lost(r).kind = r.kind
      BY <1>0, RequestType
    <3>2. http' = {lost(r) : r \in http}
      BY <2>2 DEF ApiCrashes
    <3> HIDE DEF lost
    <3> QED
      BY <3>1, <3>2 DEF Ends
  <2>3. ASSUME NEW r \in http, TimesOut(r) PROVE Old
    <3> DEFINE late == [r EXCEPT !.waiting = FALSE]
    <3>1. late.waiting = FALSE /\ late.m = r.m /\ late.kind = r.kind
      BY <1>0, RequestType
    <3>2. q \in http \/ q = late
      BY <2>3 DEF TimesOut
    <3> HIDE DEF late
    <3> QED
      BY <1>1, <3>1, <3>2 DEF Ends
  <2>4. ASSUME NEW r \in http, Vanishes(r) \/ ServerError(r) PROVE Old
    BY <1>1, <2>4 DEF Vanishes, ServerError, Reply, Answered
  <2>5. CASE Disconnect
    BY <1>1, <2>5 DEF Disconnect
  <2> HIDE DEF Old
  <2> QED
    BY <1>5, <2>1, <2>2, <2>3, <2>4, <2>5 DEF Faulty
<1> HIDE DEF Old, New
<1>6. Old \/ New
  BY <1>1, <1>3, <1>4, <1>5
  DEF Next, User, Start, Hear, Press, EndUnfinished, ResumeUnfinished, Delete, EndElsewhere,
      WindowEnds, AutoClose, StartProcessing, TimerFires, InFlightExpires, BulkMinuteEnds, ServeAny,
      Join, TimePasses, ExpireAny, TokenExpired, ReceiveAny, Receive, Incoming, ClientAck, ClientError,
      ConsentChanges, AcceptConsent, vars
<1> QED
  BY <1>6 DEF Old, New

\* Under a queue that begins with `end` the meeting is ending.
LEMMA HeadEnds ==
  ASSUME TypeInv, EndInv, NEW m \in Meetings, HeadIs(m, {"end"})
  PROVE  local[m] = "ending"
<1>1. ops[m] \in Seq({"pause", "resume", "end"}) /\ ops[m] # <<>> /\ Head(ops[m]) = "end"
  BY TypeParts DEF TypeInv, DiskType, HeadIs
<1>2. 1 \in DOMAIN ops[m] /\ ops[m][1] = "end"
  BY <1>1
<1> QED
  BY <1>2 DEF EndInv

\* `end` is sent with nothing pending, by a phone that takes no more lines of the meeting.
LEMMA EndInvStep == TypeInv /\ EndInv /\ [Next]_vars => EndInv'
<1> SUFFICES ASSUME TypeInv, EndInv, [Next]_vars PROVE EndInv'
  OBVIOUS
<1>0. DiskType /\ HttpType /\ WireType
  BY TypeParts DEF TypeInv
<1> DEFINE Queue == \A m \in Meetings : \A i \in DOMAIN ops'[m] : ops'[m][i] = "end" => local'[m] = "ending"
           Kept == \A m \in Meetings :
                     pending[m] = {} /\ local[m] = "ending" /\ (~\E r \in http : Told(r) /\ r.m = m)
                       => pending'[m] = {} /\ local'[m] = "ending"
<1>1. ASSUME UNCHANGED <<local, ops, pending>> PROVE Queue /\ Kept
  BY <1>1 DEF EndInv
<1>2. ASSUME NEW m \in Meetings, NEW op \in {"pause", "resume", "end"}, local[m] # "ending", RecordOp(m, op),
             UNCHANGED pending
      PROVE  Queue /\ Kept
  <2>1. /\ local'[m] = (IF op = "pause" THEN "paused" ELSE IF op = "resume" THEN "recording" ELSE "ending")
        /\ \A n \in Meetings \ {m} : local'[n] = local[n] /\ ops'[n] = ops[n]
        /\ ops'[m] = Append(ops[m], op)
    BY <1>0, <1>2, RecordOpType
  <2>2. \A i \in DOMAIN ops[m] : ops[m][i] # "end"
    BY <1>2 DEF EndInv
  <2>3. ops[m] \in Seq({"pause", "resume", "end"})
    BY <1>0 DEF DiskType
  <2>4. \A i \in DOMAIN ops'[m] : ops'[m][i] = "end" => op = "end"
    BY <2>1, <2>2, <2>3, AppendProperties
  <2> QED
    BY <1>2, <2>1, <2>4 DEF EndInv
<1>3. ASSUME NEW m \in Meetings, local[m] # "ending", NEW v \in {"recording", local[m]},
             local' = [local EXCEPT ![m] = v], UNCHANGED <<ops, pending>>
      PROVE  Queue /\ Kept
  BY <1>0, <1>3 DEF EndInv, DiskType
<1>4. ASSUME NEW m \in Meetings, Start(m) \/ EndUnfinished(m) \/ ResumeUnfinished(m) PROVE Queue /\ Kept
  <2> HIDE DEF Queue, Kept
  <2>1. CASE Start(m)
    BY <1>3, <2>1 DEF Start
  <2>2. CASE EndUnfinished(m)
    BY <1>2, <2>2 DEF EndUnfinished, Live
  <2>3. CASE ResumeUnfinished(m)
    <3>1. local[m] # "ending" /\ UNCHANGED pending
      BY <2>3 DEF ResumeUnfinished
    <3>2. \/ RecordOp(m, "resume")
          \/ local' = [local EXCEPT ![m] = IF local[m] = "none" THEN "recording" ELSE @] /\ UNCHANGED ops
      BY <2>3 DEF ResumeUnfinished
    <3>3. CASE RecordOp(m, "resume")
      BY <1>2, <3>1, <3>3
    <3>4. CASE /\ local' = [local EXCEPT ![m] = IF local[m] = "none" THEN "recording" ELSE @]
               /\ UNCHANGED ops
      BY <1>0, <1>3, <3>1, <3>4 DEF DiskType
    <3> QED
      BY <3>2, <3>3, <3>4
  <2> QED
    BY <1>4, <2>1, <2>2, <2>3
<1>5. ASSUME Hear PROVE Queue /\ Kept
  <2>1. live \in Meetings /\ local[live] = "recording" /\ UNCHANGED <<local, ops>>
        /\ \A n \in Meetings \ {live} : pending'[n] = pending[n]
    BY <1>0, <1>5 DEF Hear, WireType, DiskType
  <2> QED
    BY <2>1 DEF EndInv
<1>6. ASSUME NEW op \in {"pause", "resume", "end"}, Press(op) PROVE Queue /\ Kept
  <2>1. live \in Meetings /\ local[live] # "ending" /\ RecordOp(live, op) /\ UNCHANGED pending
    BY <1>0, <1>6 DEF Press, WireType, Live
  <2> HIDE DEF Queue, Kept
  <2> QED
    BY <1>2, <2>1
<1>7. ASSUME NEW a \in down, ClientAck(a) PROVE Queue /\ Kept
  <2>1. \A n \in Meetings : pending'[n] \subseteq pending[n]
    BY <1>0, <1>7 DEF ClientAck, DiskType
  <2>2. UNCHANGED <<local, ops>>
    BY <1>7 DEF ClientAck
  <2> QED
    BY <2>1, <2>2 DEF EndInv
<1>8. ASSUME NEW r \in http, Told(r) PROVE Queue /\ Kept
  <2>1. r.m \in Meetings /\ r.seqs \subseteq Seqs /\ r.waiting
    BY <1>0, <1>8, RequestType DEF HttpType, Told
  <2>2. CASE r.kind = "bulk" /\ Succeeds(r)
    <3>1. \A n \in Meetings : pending'[n] \subseteq pending[n]
      BY <1>0, <2>2, ZenonT(60) DEF Succeeds, DiskType
    <3> QED
      BY <2>2, <3>1 DEF Succeeds, EndInv
  <2>3. CASE r.kind \in {"pause", "resume"} /\ Succeeds(r)
    <3>1. UNCHANGED <<local, pending>> /\ ops' = [ops EXCEPT ![r.m] = Tail(@)]
      BY <2>3 DEF Succeeds
    <3>2. ops[r.m] \in Seq({"pause", "resume", "end"}) /\ ops[r.m] # <<>>
      BY <1>0, <2>1, <2>3 DEF DiskType, TypeInv, AtCreated
    <3>3. ops'[r.m] = Tail(ops[r.m]) /\ \A n \in Meetings \ {r.m} : ops'[n] = ops[n]
      BY <1>0, <2>1, <3>1 DEF DiskType
    <3>4. \A i \in DOMAIN ops'[r.m] : i + 1 \in DOMAIN ops[r.m] /\ ops'[r.m][i] = ops[r.m][i + 1]
      BY <3>2, <3>3, HeadTailProperties
    <3> QED
      BY <2>1, <3>1, <3>3, <3>4 DEF EndInv
  <2>4. CASE DeleteLocal(r.m)
    <3>1. /\ ops'[r.m] = <<>>
          /\ \A n \in Meetings \ {r.m} : local'[n] = local[n] /\ ops'[n] = ops[n] /\ pending'[n] = pending[n]
      BY <1>0, <2>1, <2>4, DeleteLocalType
    <3> QED
      BY <1>8, <2>1, <3>1 DEF EndInv
  <2>5. CASE UNCHANGED <<local, ops, pending>>
    BY <1>1, <2>5
  <2> HIDE DEF Queue, Kept
  <2> QED
    BY <1>8, <2>2, <2>3, <2>4, <2>5 DEF Told, Succeeds, NotFound, Refused
<1>9. Queue /\ Kept
  <2> HIDE DEF Queue, Kept
  <2> QED
    BY <1>1, <1>4, <1>5, <1>6, <1>7, <1>8, DiskCases
<1>10. ASSUME NEW q \in http', q.waiting, Ends(q) PROVE pending'[q.m] = {} /\ local'[q.m] = "ending"
  <2>1. CASE SendEnd /\ q.m = cur /\ HeadIs(cur, {"end"}) /\ AllSynced(cur)
    <3>1. cur \in Meetings /\ pending[cur] = {} /\ UNCHANGED <<pending, local>>
      BY <2>1 DEF SendEnd, TypeInv, AtCreated, AllSynced
    <3> QED
      BY <2>1, <3>1, HeadEnds
  <2>2. ASSUME NEW r \in http, r.waiting, Ends(r), r.m = q.m
        PROVE  pending'[q.m] = {} /\ local'[q.m] = "ending"
    <3>1. q.m \in Meetings /\ pending[q.m] = {} /\ local[q.m] = "ending"
      <4>1. r.m \in Meetings
        BY <1>0, RequestType DEF HttpType
      <4> QED
        BY <2>2, <4>1 DEF EndInv
    <3>2. ASSUME NEW t \in http, Told(t) PROVE FALSE
      <4>1. http' = http \ {t} /\ t.waiting
        BY <3>2 DEF Told, Answered
      <4>2. q \in http /\ q # t
        BY <1>10, <4>1
      <4> QED
        BY <1>10, <4>1, <4>2 DEF TypeInv, OneAnswer
    <3> QED
      BY <1>9, <3>1, <3>2
  <2> QED
    BY <1>10, <2>1, <2>2, EndsCases
<1> QED
  BY <1>9, <1>10 DEF EndInv

LEMMA NoLossStep ==
  ASSUME TypeInv, SafeInv, [Next]_vars, Numbered'
  PROVE  NoLoss'
<1> SUFFICES ASSUME NEW m \in Meetings, m \notin gone', NEW s \in saved'[m], s \notin pending'[m]
             PROVE  rows'[m][s] = "here"
  BY DEF NoLoss
<1>1. saved'[m] \subseteq Seqs /\ rows'[m] \in [Seqs -> {"none", "here", "there"}]
  BY TypeStep, TypeParts DEF TypeInv, TypeOK
<1>2. RowKept(m) /\ gone \subseteq gone'
  BY RowsStep
<1>3. s \in saved[m] /\ (s \notin pending[m] \/ rows'[m][s] # "none")
  BY PendingStep DEF SafeInv
<1>4. CASE rows'[m][s] # "none"
  BY <1>1, <1>4 DEF Numbered
<1>5. CASE s \notin pending[m]
  <2>1. rows[m][s] = "here"
    BY <1>2, <1>3, <1>5 DEF SafeInv, NoLoss
  <2> QED
    BY <1>1, <1>2, <2>1 DEF RowKept
<1> QED
  BY <1>3, <1>4, <1>5

LEMMA SafeStep ==
  ASSUME Adopted = {} \/ "load_fails" \notin Env
  PROVE  TypeInv /\ SafeInv /\ [Next]_vars => SafeInv'
BY EndInvStep, OnServerStep, NumberedStep, AckStoredStep, NoLossStep DEF SafeInv

\* What leaves the phone is in PostgreSQL, for every number of meetings, segments and
\* faults.  The premise is the code's own weak point: when an adopted meeting is resumed
\* and GET /segments fails, its lines are numbered from 1 again.
THEOREM NoLossCorrect ==
  ASSUME Adopted = {} \/ "load_fails" \notin Env
  PROVE  Spec => []NoLoss
<1>1. TypeInv /\ SafeInv /\ [Next]_vars => SafeInv'
  BY SafeStep
<1>2. SafeInv => NoLoss
  BY DEF SafeInv
<1> QED
  BY <1>1, <1>2, SafeInit, TypeCorrect, PTL DEF Spec

-----------------------------------------------------------------------------
(* What the pipeline reads is all there.  `end` leaves the phone only when   *)
(* nothing is pending, so that every line is stored by then (NoLoss); the    *)
(* phone takes no line after it, and what the server ended does not go back  *)
(* to recording.                                                             *)

Stored(m) == \A s \in saved[m] : rows[m][s] = "here"
Over(m) == local[m] = "ending" \/ (local[m] = "none" /\ status[m] \in Statuses \ Live)
EndedInv ==
  /\ \A m \in ended \ gone : Stored(m) /\ Over(m)
  /\ \A r \in http : Ends(r) /\ r.m \notin gone => Stored(r.m) /\ Over(r.m)

\* A meeting the server has ended goes on to the pipeline, or is deleted.
LEMMA StatusStep ==
  ASSUME TypeInv, [Next]_vars, NEW m \in Meetings, m \notin gone', status[m] \in Statuses \ Live
  PROVE  status'[m] \in Statuses \ Live
<1>0. ServerType /\ HttpType
  BY TypeParts DEF TypeInv
<1>1. status[m] # "none"
  BY DEF Statuses
<1>2. CASE UNCHANGED status
  BY <1>2
<1>3. ASSUME NEW r \in http, Serve(r) PROVE status'[m] \in Statuses \ Live
  <2>1. r.m \in Meetings
    BY <1>0, RequestType DEF HttpType
  <2>2. CASE ServeCreate(r)
    BY <1>0, <1>1, <2>1, <2>2 DEF ServeCreate, ServerType
  <2>3. CASE ServeMove(r)
    BY <1>0, <2>1, <2>3, Moves DEF ServeMove, ServerType, Live
  <2>4. CASE EndCommits(r)
    BY <1>0, <2>1, <2>4, Moves DEF EndCommits, ServerType, Statuses, Live
  <2> QED
    BY <1>3, <2>2, <2>3, <2>4
    DEF Serve, ServeBulk, EndFlushes, EndScans, EndRefused, ConnectionLost
<1>4. ASSUME NEW n \in Meetings, AutoClose(n) \/ StartProcessing(n) \/ EndElsewhere(n)
      PROVE  status'[m] \in Statuses \ Live
  BY <1>0, <1>4, Moves DEF AutoClose, StartProcessing, EndElsewhere, SetStatus, ServerType, Statuses, Live
<1>5. ASSUME NEW n \in Meetings, Delete(n) PROVE status'[m] \in Statuses \ Live
  BY <1>0, <1>5 DEF Delete, SetStatus, ServerType
<1>6. CASE Faulty
  BY <1>2, <1>6 DEF Faulty, AppDies, Disconnect, ApiCrashes, ServerError, TimesOut, Vanishes
<1> QED
  BY <1>2, <1>3, <1>4, <1>5, <1>6
  DEF Next, User, Start, Hear, Press, EndUnfinished, ResumeUnfinished, WindowEnds, Worker, StartPass,
      NextMeeting, ReplayOps, SendOnSocket, SendBulk, NothingToSend, SendEnd, TimerFires,
      InFlightExpires, BulkMinuteEnds, ServeAny, Join, TimePasses, ExpireAny, TokenExpired, ReceiveAny,
      Receive, Incoming, ClientAck,
      ClientError, ConsentChanges, AcceptConsent, vars

\* Only a request to end makes a meeting ended by this phone.
LEMMA EndedCases ==
  ASSUME TypeInv, [Next]_vars, NEW m \in ended'
  PROVE  m \in ended \/ \E r \in http : Ends(r) /\ r.m = m
<1>1. CASE UNCHANGED ended
  BY <1>1
<1>2. ASSUME NEW r \in http, Serve(r)
      PROVE  UNCHANGED ended \/ (Ends(r) /\ ended' = ended \cup {r.m})
  BY <1>2 DEF Serve, ServeCreate, ServeMove, ServeBulk, EndFlushes, EndScans, EndCommits, EndRefused,
              ConnectionLost
<1>3. CASE Faulty
  BY <1>1, <1>3 DEF Faulty, AppDies, Disconnect, ApiCrashes, ServerError, TimesOut, Vanishes
<1> QED
  BY <1>1, <1>2, <1>3
  DEF Next, User, Start, Hear, Press, EndUnfinished, ResumeUnfinished, Delete, EndElsewhere,
      WindowEnds, AutoClose, StartProcessing, Worker, StartPass, NextMeeting, ReplayOps,
      SendOnSocket, SendBulk, NothingToSend, SendEnd, TimerFires, InFlightExpires, BulkMinuteEnds,
      ServeAny, Join, TimePasses, ExpireAny, TokenExpired, ReceiveAny, Receive, Incoming, ClientAck,
      ClientError, ConsentChanges,
      AcceptConsent, vars

\* What is over stays so.
LEMMA OverStep ==
  ASSUME TypeInv, EndInv, OnServer, [Next]_vars, NEW m \in Meetings, m \notin gone', Stored(m), Over(m)
  PROVE  Stored(m)' /\ Over(m)'
<1>0. DiskType /\ HttpType /\ HistoryType /\ WireType /\ ServerType
  BY TypeParts DEF TypeInv
<1>1. RowKept(m) /\ gone \subseteq gone'
  BY RowsStep
<1>2. status[m] \in Statuses \ Live => status'[m] \in Statuses \ Live
  BY <1>1, StatusStep
<1>3. Over(m)' /\ saved'[m] = saved[m]
  <2>1. CASE UNCHANGED <<disk, saved>>
    BY <1>2, <2>1 DEF Over
  <2>2. ASSUME NEW n \in Meetings, Start(n) \/ EndUnfinished(n) \/ ResumeUnfinished(n)
        PROVE  Over(m)' /\ saved'[m] = saved[m]
    <3>1. n # m
      BY <1>0, <2>2 DEF Start, EndUnfinished, ResumeUnfinished, Over, Live, Statuses
    <3>2. local'[m] = local[m] /\ saved' = saved
      BY <1>0, <2>2, <3>1, RecordOpType DEF Start, EndUnfinished, ResumeUnfinished, DiskType
    <3> QED
      BY <1>2, <3>2 DEF Over
  <2>3. CASE Hear
    <3>1. live \in Meetings /\ live # m /\ local' = local
      BY <1>0, <2>3 DEF Hear, WireType, Over
    <3> QED
      BY <1>0, <1>2, <2>3, <3>1 DEF Hear, Over, HistoryType
  <2>4. ASSUME NEW op \in {"pause", "resume", "end"}, Press(op)
        PROVE  Over(m)' /\ saved'[m] = saved[m]
    <3>1. live \in Meetings /\ live # m
      BY <1>0, <2>4 DEF Press, WireType, Over, Live
    <3>2. local'[m] = local[m] /\ saved' = saved
      BY <1>0, <2>4, <3>1, RecordOpType DEF Press
    <3> QED
      BY <1>2, <3>2 DEF Over
  <2>5. ASSUME NEW r \in http, Told(r) PROVE Over(m)' /\ saved'[m] = saved[m]
    <3>1. r.m \in Meetings /\ saved' = saved
      BY <1>0, <2>5, RequestType DEF HttpType, Told
    <3>2. CASE local' = local
      BY <1>2, <3>1, <3>2 DEF Over
    <3>3. CASE DeleteLocal(r.m) /\ m # r.m
      BY <1>0, <1>2, <3>1, <3>3, DeleteLocalType DEF Over
    <3>4. CASE DeleteLocal(r.m) /\ m = r.m /\ status'[r.m] \in Statuses \ Live
      BY <1>0, <3>1, <3>4, DeleteLocalType DEF Over
    <3>5. CASE m = r.m /\ status[r.m] = "none" /\ r.kind # "create"
      <4>1. created[m]
        BY <2>5, <3>5 DEF TypeInv, AtCreated, Told
      <4> QED
        BY <1>1, <3>5, <4>1 DEF OnServer
    <3> QED
      BY <2>5, <3>2, <3>3, <3>4, <3>5 DEF Told, Succeeds, NotFound, Refused, Ends
  <2>6. ASSUME NEW a \in down, ClientAck(a) PROVE Over(m)' /\ saved'[m] = saved[m]
    BY <1>2, <2>6 DEF ClientAck, Over
  <2> QED
    BY <2>1, <2>2, <2>3, <2>4, <2>5, <2>6, DiskCases
<1>4. Stored(m)'
  <2> SUFFICES ASSUME NEW s \in saved[m] PROVE rows'[m][s] = "here"
    BY <1>3 DEF Stored
  <2>1. s \in Seqs /\ rows[m][s] = "here"
    BY <1>0 DEF HistoryType, Stored
  <2> QED
    BY <1>1, <2>1 DEF RowKept
<1> QED
  BY <1>3, <1>4

LEMMA EndedStep == TypeInv /\ SafeInv /\ EndedInv /\ [Next]_vars => EndedInv'
<1> SUFFICES ASSUME TypeInv, SafeInv, EndedInv, [Next]_vars PROVE EndedInv'
  OBVIOUS
<1>0. HttpType /\ HistoryType
  BY TypeParts DEF TypeInv
<1>1. gone \subseteq gone'
  <2>1. CASE Meetings = {}
    BY <1>0, <2>1 DEF HistoryType
  <2> QED
    BY <2>1, RowsStep
<1>2. ASSUME NEW m \in Meetings, m \notin gone', Stored(m), Over(m) PROVE Stored(m)' /\ Over(m)'
  BY <1>2, OverStep DEF SafeInv
<1>3. ASSUME NEW m \in Meetings, m \notin gone', m \in ended' PROVE Stored(m)' /\ Over(m)'
  <2>1. m \in ended \/ \E r \in http : Ends(r) /\ r.m = m
    BY <1>3, EndedCases
  <2> QED
    BY <1>1, <1>2, <1>3, <2>1 DEF EndedInv
<1>4. ASSUME NEW q \in http', Ends(q), q.m \notin gone' PROVE Stored(q.m)' /\ Over(q.m)'
  <2>1. CASE \E r \in http : Ends(r) /\ r.m = q.m
    <3>1. q.m \in Meetings /\ Stored(q.m) /\ Over(q.m)
      BY <1>0, <1>1, <1>4, <2>1, RequestType DEF EndedInv, HttpType
    <3> QED
      BY <1>2, <1>4, <3>1
  <2>2. CASE SendEnd /\ q.m = cur /\ HeadIs(cur, {"end"}) /\ AllSynced(cur)
    <3>1. cur \in Meetings /\ pending[cur] = {}
      BY <2>2 DEF SendEnd, TypeInv, AtCreated, AllSynced
    <3>2. Stored(cur)
      BY <1>1, <1>4, <2>2, <3>1 DEF Stored, SafeInv, NoLoss
    <3>3. local[cur] = "ending"
      BY <2>2, <3>1, HeadEnds DEF SafeInv
    <3> QED
      BY <1>2, <1>4, <2>2, <3>1, <3>2, <3>3 DEF Over
  <2> QED
    BY <1>4, <2>1, <2>2, EndsCases
<1>5. ended' \subseteq Meetings
  BY HistoryStep DEF HistoryType
<1> QED
  BY <1>3, <1>4, <1>5 DEF EndedInv

\* The pipeline reads every line this phone saved of a meeting the phone has ended, for
\* every number of meetings, segments and faults, under the premise of NoLossCorrect.
THEOREM TranscriptCompleteCorrect ==
  ASSUME Adopted = {} \/ "load_fails" \notin Env
  PROVE  Spec => []TranscriptComplete
<1>1. Init => EndedInv
  BY DEF Init, EndedInv
<1>2. TypeInv /\ SafeInv /\ [Next]_vars => SafeInv'
  BY SafeStep
<1>3. EndedInv => TranscriptComplete
  BY DEF EndedInv, TranscriptComplete, Stored
<1> QED
  BY <1>1, <1>2, <1>3, SafeInit, EndedStep, TypeCorrect, PTL DEF Spec

-----------------------------------------------------------------------------
(* The fallback is never needed.  `end` carries the highest seq of the      *)
(* phone, and goes out with nothing pending.  Every seq up to it is a line  *)
(* of this phone, which is stored by then, or was found on the server when  *)
(* the meeting was adopted, with every lower one: another device sent one   *)
(* line, and what this phone sends is never above its own count.  Premise:  *)
(* no meeting is deleted.  A meeting deleted between the flush and the scan *)
(* of its `end` has no rows, and the client ends it anyway, in vain.        *)

\* Nothing on its way to the server, and nothing there, is of a seq this phone has not counted,
\* but for the line another device sent.
HeardOnly ==
  /\ \A m \in Meetings : pending[m] \subseteq saved[m] /\ \A s \in saved[m] : s <= lastSeq[m]
  /\ \A i \in buffer : i.seq <= lastSeq[i.m]
  /\ room # None => \A s \in up : s <= lastSeq[room]
  /\ \A r \in http : \A s \in r.seqs : s <= lastSeq[r.m]
  /\ \A m \in Meetings : \A s \in Seqs : rows[m][s] # "none" => s <= lastSeq[m] \/ s = 1

\* What was counted is pending or on the server.
Filled == \A m \in Meetings : \A s \in Seqs : s <= lastSeq[m] => s \in pending[m] \/ rows[m][s] # "none"

EndsFull == \A r \in http : r.kind = "end" => \A s \in Seqs : s <= r.last => rows[r.m][s] # "none"

FullInv == gone = {} /\ HeardOnly /\ Filled /\ EndsFull /\ NeverEndsAnyway

LEMMA FullInit == Init => FullInv
<1> SUFFICES ASSUME Init PROVE FullInv
  OBVIOUS
<1>1. \A s \in Seqs : s \in Nat /\ s >= 1
  BY SyncAssumption DEF Seqs
<1>2. HeardOnly
  BY DEF Init, HeardOnly
<1>3. Filled
  BY <1>1 DEF Init, Filled
<1> QED
  BY <1>2, <1>3 DEF Init, FullInv, EndsFull, NeverEndsAnyway

\* Lines are counted upwards, and a new one is pending.
LEMMA CountStep ==
  ASSUME TypeInv, [Next]_vars, NEW m \in Meetings
  PROVE  /\ lastSeq[m] \in Nat /\ lastSeq'[m] \in Nat /\ lastSeq[m] <= lastSeq'[m]
         /\ pending'[m] \subseteq pending[m] \cup saved'[m] /\ saved[m] \subseteq saved'[m]
         /\ \A s \in saved'[m] \ saved[m] : s \in pending'[m] /\ s = lastSeq[m] + 1 /\ lastSeq'[m] = s
         /\ \/ lastSeq'[m] = lastSeq[m]
            \/ lastSeq'[m] = lastSeq[m] + 1 /\ lastSeq'[m] \in saved'[m] /\ lastSeq'[m] \in pending'[m]
            \/ lastSeq'[m] \in Highest(m) /\ lastSeq'[m] \in Seqs
<1> DEFINE Goal ==
         /\ lastSeq[m] <= lastSeq'[m]
         /\ pending'[m] \subseteq pending[m] \cup saved'[m] /\ saved[m] \subseteq saved'[m]
         /\ \A s \in saved'[m] \ saved[m] : s \in pending'[m] /\ s = lastSeq[m] + 1 /\ lastSeq'[m] = s
         /\ \/ lastSeq'[m] = lastSeq[m]
            \/ lastSeq'[m] = lastSeq[m] + 1 /\ lastSeq'[m] \in saved'[m] /\ lastSeq'[m] \in pending'[m]
            \/ lastSeq'[m] \in Highest(m) /\ lastSeq'[m] \in Seqs
<1>0. DiskType /\ HttpType /\ HistoryType /\ WireType /\ DiskType'
  BY TypeParts, DiskStep DEF TypeInv
<1>n. lastSeq[m] \in Nat /\ lastSeq'[m] \in Nat
  BY <1>0, SyncAssumption DEF DiskType
<1>1. ASSUME lastSeq' = lastSeq, saved' = saved, pending'[m] \subseteq pending[m] PROVE Goal
  BY <1>n, <1>1
<1>2. ASSUME NEW n \in Meetings, Start(n) \/ EndUnfinished(n) PROVE Goal
  BY <1>1, <1>2 DEF Start, EndUnfinished
<1>3. ASSUME NEW n \in Meetings, ResumeUnfinished(n) PROVE Goal
  <2>1. PICK top \in Loads(n) : lastSeq' = [lastSeq EXCEPT ![n] = IF created[n] /\ top > @ THEN top ELSE @]
    BY <1>3 DEF ResumeUnfinished
  <2>2. saved' = saved /\ pending' = pending
    BY <1>3 DEF ResumeUnfinished
  <2>3. CASE lastSeq'[m] = lastSeq[m]
    BY <1>n, <2>2, <2>3
  <2>4. CASE lastSeq'[m] # lastSeq[m]
    <3>1. m = n /\ lastSeq'[m] = top /\ top > lastSeq[m]
      BY <1>0, <2>1, <2>4 DEF DiskType
    <3>2. top \in Highest(n) \/ top = 0
      BY DEF Loads
    <3>3. top # 0
      BY <1>n, <3>1
    <3>4. top \in Highest(n) /\ top \in Seqs
      BY <3>2, <3>3 DEF Highest
    <3> QED
      BY <1>n, <2>2, <3>1, <3>4
  <2> QED
    BY <2>3, <2>4
<1>4. ASSUME Hear PROVE Goal
  <2>1. live \in Meetings
    BY <1>0, <1>4 DEF WireType, Hear
  <2>2. CASE m = live
    <3>1. /\ lastSeq'[m] = lastSeq[m] + 1 /\ saved'[m] = saved[m] \cup {lastSeq[m] + 1}
          /\ pending'[m] = pending[m] \cup {lastSeq[m] + 1}
      BY <1>0, <1>4, <2>1, <2>2 DEF Hear, DiskType, HistoryType
    <3> QED
      BY <1>n, <3>1
  <2>3. CASE m # live
    <3>1. lastSeq'[m] = lastSeq[m] /\ saved'[m] = saved[m] /\ pending'[m] = pending[m]
      BY <1>0, <1>4, <2>1, <2>3 DEF Hear, DiskType, HistoryType
    <3> QED
      BY <1>n, <3>1
  <2> QED
    BY <2>2, <2>3
<1>5. ASSUME NEW op \in {"pause", "resume", "end"}, Press(op) PROVE Goal
  BY <1>1, <1>5 DEF Press
<1>6. ASSUME NEW r \in http, Told(r) PROVE Goal
  <2>1. r.m \in Meetings
    BY <1>0, RequestType DEF HttpType
  <2>2. lastSeq' = lastSeq /\ saved' = saved
    BY <1>6 DEF Told, Succeeds, NotFound, Refused
  <2>3. \/ pending' = pending \/ pending' = [pending EXCEPT ![r.m] = @ \ r.seqs]
        \/ pending' = [pending EXCEPT ![r.m] = {}]
    BY <1>6 DEF Told, Succeeds, NotFound, Refused, DeleteLocal
  <2>4. pending'[m] \subseteq pending[m]
    BY <1>0, <2>1, <2>3 DEF DiskType
  <2> QED
    BY <1>1, <2>2, <2>4
<1>7. ASSUME NEW a \in down, ClientAck(a) PROVE Goal
  <2>1. lastSeq' = lastSeq /\ saved' = saved /\ pending' = [pending EXCEPT ![room] = @ \ {a.seq}]
    BY <1>7 DEF ClientAck
  <2>2. pending'[m] \subseteq pending[m]
    BY <1>0, <2>1 DEF DiskType
  <2> QED
    BY <1>1, <2>1, <2>2
<1>8. ASSUME UNCHANGED <<disk, saved>> PROVE Goal
  BY <1>1, <1>8
<1>9. Goal
  <2> HIDE DEF Goal
  <2> QED
    BY <1>2, <1>3, <1>4, <1>5, <1>6, <1>7, <1>8, DiskCases
<1> QED
  BY <1>9, <1>n

\* A deleted meeting stays deleted.
LEMMA GoneStep ==
  ASSUME [Next]_vars
  PROVE  gone \subseteq gone'
<1>1. ASSUME NEW r \in http, Serve(r) PROVE UNCHANGED gone
  BY <1>1 DEF Serve, ServeCreate, ServeMove, ServeBulk, EndFlushes, EndScans, EndCommits, EndRefused,
              ConnectionLost
<1>2. CASE Faulty
  BY <1>2 DEF Faulty, AppDies, Disconnect, ApiCrashes, ServerError, TimesOut, Vanishes
<1> QED
  BY <1>1, <1>2
  DEF Next, User, Start, Hear, Press, EndUnfinished, ResumeUnfinished, Delete, EndElsewhere,
      WindowEnds, AutoClose, StartProcessing, Worker, StartPass, NextMeeting, ReplayOps,
      SendOnSocket, SendBulk, NothingToSend, SendEnd, TimerFires, InFlightExpires, BulkMinuteEnds,
      ServeAny, Join, TimePasses, ExpireAny, TokenExpired, ReceiveAny, Receive, Incoming, ClientAck,
      ClientError, ConsentChanges,
      AcceptConsent, vars

\* Where requests come from.
LEMMA RequestCases ==
  ASSUME TypeInv, [Next]_vars, NEW q \in http'
  PROVE  \/ \E r \in http : q.kind = r.kind /\ q.m = r.m /\ q.seqs = r.seqs /\ q.last = r.last
         \/ q.kind \notin {"end", "endAnyway"} /\ q.m \in Meetings /\ q.seqs \subseteq pending[q.m]
         \/ /\ q.kind = "end" /\ q.seqs = {} /\ q.m = cur /\ cur \in Meetings
            /\ q.last = lastSeq[cur] /\ AllSynced(cur)
         \/ /\ q.kind = "endAnyway" /\ q.seqs = {}
            /\ \E r \in http : Ends(r) /\ r.m = q.m /\ \E s \in 1..r.last : rows[r.m][s] = "none"
<1> DEFINE Same(r) == q.kind = r.kind /\ q.m = r.m /\ q.seqs = r.seqs /\ q.last = r.last
           Old == \E r \in http : Same(r)
           Other == q.kind \notin {"end", "endAnyway"} /\ q.m \in Meetings /\ q.seqs \subseteq pending[q.m]
           New == /\ q.kind = "end" /\ q.seqs = {} /\ q.m = cur /\ cur \in Meetings
                  /\ q.last = lastSeq[cur] /\ AllSynced(cur)
           Anyway == /\ q.kind = "endAnyway" /\ q.seqs = {}
                     /\ \E r \in http : Ends(r) /\ r.m = q.m /\ \E s \in 1..r.last : rows[r.m][s] = "none"
<1>0. /\ \A r \in http : r \in Requests
      /\ DiskType /\ PassType /\ todo \subseteq Meetings
  BY TypeParts DEF TypeInv, HttpType, PassType
<1>1. ASSUME q \in http PROVE Old
  BY <1>1
<1>2. ASSUME NEW kind \in Kinds, NEW m \in Meetings, NEW S \in SUBSET Seqs, S \subseteq pending[m],
             kind \notin {"end", "endAnyway"}, Send(Call(kind, m, S, 0))
      PROVE  Old \/ Other
  <2>1. CASE q \in http
    BY <1>1, <2>1
  <2>2. CASE q = Call(kind, m, S, 0)
    BY <1>2, <2>2, CallType, BareType
  <2> QED
    BY <1>2, <2>1, <2>2 DEF Send
<1>3. ASSUME Worker PROVE Old \/ Other \/ New
  <2>1. pc \in {"ops", "send", "bulk", "end"} => cur \in Meetings
    BY DEF TypeInv, AtCreated
  <2>2. ASSUME NextMeeting PROVE Old \/ Other
    <3>1. http' = http \/ \E m \in Meetings : Send(Call("create", m, {}, 0))
      BY <1>0, <2>2 DEF NextMeeting
    <3> HIDE DEF Old, Other
    <3> QED
      BY <1>1, <1>2, <3>1, BareType
  <2>3. ASSUME ReplayOps PROVE Old \/ Other
    <3>1. http' = http \/ \E kind \in {"pause", "resume"} : Send(Call(kind, cur, {}, 0))
      BY <2>3 DEF ReplayOps, HeadIs
    <3>2. cur \in Meetings
      BY <2>1, <2>3 DEF ReplayOps
    <3> HIDE DEF Old, Other
    <3> QED
      BY <1>1, <1>2, <3>1, <3>2, BareType
  <2>4. ASSUME SendBulk PROVE Old \/ Other
    <3>1. Send(Call("bulk", cur, Lowest(pending[cur], BulkLimit), 0)) /\ cur \in Meetings
      BY <2>1, <2>4 DEF SendBulk
    <3>2. Lowest(pending[cur], BulkLimit) \in SUBSET Seqs /\ Lowest(pending[cur], BulkLimit) \subseteq pending[cur]
      BY <1>0, <3>1 DEF Lowest, DiskType
    <3> HIDE DEF Old, Other
    <3> QED
      BY <1>2, <3>1, <3>2, BareType
  <2>5. ASSUME SendEnd PROVE Old \/ New
    <3> DEFINE c == Call("end", cur, {}, lastSeq[cur])
    <3>1. cur \in Meetings /\ lastSeq[cur] \in 0..MaxSeq
      BY <1>0, <2>1, <2>5 DEF SendEnd, DiskType
    <3>2. c.m = cur /\ c.kind = "end" /\ c.seqs = {} /\ c.last = lastSeq[cur]
      BY <3>1, CallType, BareType
    <3>3. http' = http \/ (http' = http \cup {c} /\ HeadIs(cur, {"end"}) /\ AllSynced(cur))
      BY <2>5 DEF SendEnd, Send
    <3> HIDE DEF c
    <3>4. CASE q \in http
      BY <1>1, <3>4
    <3>5. CASE q = c /\ AllSynced(cur)
      BY <3>1, <3>2, <3>5
    <3> QED
      BY <3>3, <3>4, <3>5
  <2> HIDE DEF Old, Other, New
  <2>6. ASSUME http' = http PROVE Old
    BY <1>1, <2>6
  <2> QED
    BY <1>3, <2>2, <2>3, <2>4, <2>5, <2>6 DEF Worker, StartPass, SendOnSocket, NothingToSend
<1>4. ASSUME NEW r \in http, Serve(r) PROVE Old \/ Anyway
  <2>1. CASE Answered(r)
    BY <1>1, <2>1 DEF Answered
  <2>2. ASSUME NEW stage \in {"flushed", "checked"}, Ends(r), Advance(r, stage) PROVE Old
    <3> DEFINE c == [r EXCEPT !.stage = stage]
    <3>1. Same(r) \/ q # c
      BY <1>0 DEF Requests
    <3>2. q \in http \/ q = c
      BY <2>2 DEF Advance
    <3> HIDE DEF c
    <3> QED
      BY <1>1, <3>1, <3>2
  <2>3. CASE /\ Ends(r) /\ \E s \in 1..r.last : rows[r.m][s] = "none"
             /\ http' = (http \ {r}) \cup {Call("endAnyway", r.m, {}, 0)}
    <3>1. r.m \in Meetings
      BY <1>0, RequestType
    <3>2. /\ Call("endAnyway", r.m, {}, 0).m = r.m /\ Call("endAnyway", r.m, {}, 0).kind = "endAnyway"
          /\ Call("endAnyway", r.m, {}, 0).seqs = {}
      BY <3>1, CallType, BareType
    <3> QED
      BY <1>1, <2>3, <3>2
  <2> HIDE DEF Old, Anyway
  <2> QED
    BY <1>4, <2>1, <2>2, <2>3
    DEF Serve, ServeCreate, ServeMove, ServeBulk, EndFlushes, EndScans, EndCommits, EndRefused,
        ConnectionLost, Reply
<1>5. ASSUME Faulty PROVE Old
  <2>1. CASE AppDies
    <3> DEFINE late(r) == [r EXCEPT !.waiting = FALSE]
    <3>1. \A r \in http : q = late(r) => Same(r)
      BY <1>0 DEF Requests
    <3>2. http' = {late(r) : r \in http}
      BY <2>1 DEF AppDies
    <3> HIDE DEF late, Same
    <3> QED
      BY <3>1, <3>2
  <2>2. CASE ApiCrashes
    <3> DEFINE lost(r) == [r EXCEPT !.stage = "lost"]
    <3>1. \A r \in http : q = lost(r) => Same(r)
      BY <1>0 DEF Requests
    <3>2. http' = {lost(r) : r \in http}
      BY <2>2 DEF ApiCrashes
    <3> HIDE DEF lost, Same
    <3> QED
      BY <3>1, <3>2
  <2>3. ASSUME NEW r \in http, TimesOut(r) PROVE Old
    <3> DEFINE late == [r EXCEPT !.waiting = FALSE]
    <3>1. q = late => Same(r)
      BY <1>0 DEF Requests
    <3>2. q \in http \/ q = late
      BY <2>3 DEF TimesOut
    <3> HIDE DEF late
    <3> QED
      BY <1>1, <3>1, <3>2
  <2>4. ASSUME NEW r \in http, Vanishes(r) \/ ServerError(r) PROVE Old
    BY <1>1, <2>4 DEF Vanishes, ServerError, Reply, Answered
  <2>5. CASE Disconnect
    BY <1>1, <2>5 DEF Disconnect
  <2> HIDE DEF Old
  <2> QED
    BY <1>5, <2>1, <2>2, <2>3, <2>4, <2>5 DEF Faulty
<1> HIDE DEF Old, Other, New, Anyway
<1>6. Old \/ Other \/ New \/ Anyway
  BY <1>1, <1>3, <1>4, <1>5
  DEF Next, User, Start, Hear, Press, EndUnfinished, ResumeUnfinished, Delete, EndElsewhere,
      WindowEnds, AutoClose, StartProcessing, TimerFires, InFlightExpires, BulkMinuteEnds, ServeAny,
      Join, TimePasses, ExpireAny, TokenExpired, ReceiveAny, Receive, Incoming, ClientAck, ClientError,
      ConsentChanges, AcceptConsent, vars
<1> QED
  BY <1>6 DEF Old, Other, New, Anyway

\* Where the batch writer's lines come from.
LEMMA BufferCases ==
  ASSUME TypeInv, [Next]_vars, NEW i \in buffer'
  PROVE  \/ \E j \in buffer : j.m = i.m /\ j.seq = i.seq
         \/ i.seq \in up /\ i.m = room
<1> DEFINE Old == \E j \in buffer : j.m = i.m /\ j.seq = i.seq
           New == i.seq \in up /\ i.m = room
<1>0. WireType
  BY TypeParts DEF TypeInv
<1>1. ASSUME i \in buffer PROVE Old
  BY <1>1
<1>2. ASSUME NEW c, Hangup(c) PROVE Old
  <2>1. \A j \in buffer : j \in [m : Meetings, seq : Seqs, live : BOOLEAN]
    BY <1>0 DEF WireType
  <2>2. PICK j \in buffer : i = [j EXCEPT !.live = FALSE]
    BY <1>2 DEF Hangup, Orphaned
  <2> QED
    BY <2>1, <2>2
<1>3. ASSUME NEW m \in Meetings, NEW ok, WriteBatch(m, ok) PROVE Old
  BY <1>1, <1>3 DEF WriteBatch
<1>4. ASSUME Quiet \/ SetLiveNone PROVE Old
  BY <1>1, <1>2, <1>4 DEF Quiet, SetLiveNone
<1>5. ASSUME NEW r \in http, Serve(r) PROVE Old
  <2>1. r.m \in Meetings
    BY TypeParts, RequestType DEF TypeInv, HttpType
  <2>2. CASE EndFlushes(r)
    BY <1>3, <2>1, <2>2 DEF EndFlushes
  <2>3. CASE EndScans(r)
    BY <1>1, <2>3 DEF EndScans
  <2>4. ASSUME Succeeds(r) \/ NotFound(r) \/ Refused(r) \/ FailsForNow \/ Offline \/ Ignored PROVE Old
    <3> HIDE DEF Old
    <3> QED
      BY <1>4, <2>4 DEF Succeeds, NotFound, Refused, FailsForNow, Offline, Ignored, DeleteLocal
  <2> HIDE DEF Old
  <2> QED
    BY <1>5, <2>2, <2>3, <2>4
    DEF Serve, ServeCreate, ServeMove, ServeBulk, EndCommits, EndRefused, ConnectionLost, Reply
<1>6. ASSUME NEW m \in Meetings, WindowEnds(m) PROVE Old
  BY <1>3, <1>6 DEF WindowEnds
<1>7. ASSUME NEW s \in up, Receive(s) PROVE Old \/ New
  <2>1. CASE i \in buffer
    BY <2>1
  <2>2. CASE i = [m |-> room, seq |-> s, live |-> TRUE]
    BY <2>2
  <2> QED
    BY <1>7, <2>1, <2>2 DEF Receive
<1>8. ASSUME Faulty PROVE Old
  <2>1. CASE AppDies \/ Disconnect
    BY <1>2, <2>1 DEF AppDies, Disconnect
  <2>2. CASE ApiCrashes
    BY <2>2 DEF ApiCrashes
  <2>3. ASSUME NEW r \in http, ServerError(r) \/ TimesOut(r) \/ Vanishes(r) PROVE Old
    <3> HIDE DEF Old
    <3> QED
      BY <1>1, <1>4, <2>3 DEF ServerError, TimesOut, Vanishes, Reply, FailsForNow, Offline, Ignored
  <2> HIDE DEF Old
  <2> QED
    BY <1>8, <2>1, <2>2, <2>3 DEF Faulty
<1>9. ASSUME Worker PROVE Old
  BY <1>1, <1>9 DEF Worker, StartPass, NextMeeting, ReplayOps, SendOnSocket, SendBulk, NothingToSend, SendEnd
<1>11. ASSUME NEW s \in up, TokenExpired(s) PROVE Old
  BY <1>2, <1>11 DEF TokenExpired
<1> HIDE DEF Old, New
<1>10. Old \/ New
  BY <1>1, <1>5, <1>6, <1>7, <1>8, <1>9, <1>11
  DEF Next, User, Start, Hear, Press, EndUnfinished, ResumeUnfinished, Delete, EndElsewhere,
      AutoClose, StartProcessing, TimerFires, InFlightExpires, BulkMinuteEnds, ServeAny, Join, TimePasses,
      ExpireAny,
      ReceiveAny, Incoming, ClientAck, ClientError, ConsentChanges, AcceptConsent, vars
<1> QED
  BY <1>10 DEF Old, New

\* Where the lines on the socket come from.
LEMMA UpCases ==
  ASSUME TypeInv, [Next]_vars, NEW s \in up', room' # None
  PROVE  room' = room /\ (s \in up \/ s \in pending[room])
<1> DEFINE Goal == room' = room /\ (s \in up \/ s \in pending[room])
<1>1. ASSUME up' = {} \/ (up' \subseteq up /\ room' = room) PROVE Goal
  BY <1>1
<1>2. ASSUME Quiet \/ SetLiveNone PROVE Goal
  BY <1>1, <1>2 DEF Quiet, SetLiveNone, Hangup
<1>3. ASSUME ReplayOps PROVE Goal
  <2>1. room' = room \/ room = None
    BY <1>3 DEF ReplayOps, TypeInv, RoomInv
  <2>2. up' = up /\ (room = None => up = {})
    BY <1>3 DEF ReplayOps, TypeInv, RoomInv
  <2> QED
    BY <2>1, <2>2
<1>4. ASSUME SendOnSocket PROVE Goal
  <2>1. up' \subseteq up \cup pending[cur] /\ room' = room /\ room = cur
    BY <1>4 DEF SendOnSocket, ViaSocket, Lowest
  <2> QED
    BY <2>1
<1>5. ASSUME NEW r \in http, Serve(r) PROVE Goal
  <2>1. CASE EndFlushes(r) \/ EndScans(r)
    BY <1>1, <2>1 DEF EndFlushes, EndScans
  <2>2. ASSUME Succeeds(r) \/ NotFound(r) \/ Refused(r) \/ FailsForNow \/ Offline \/ Ignored PROVE Goal
    <3> HIDE DEF Goal
    <3> QED
      BY <1>2, <2>2 DEF Succeeds, NotFound, Refused, FailsForNow, Offline, Ignored, DeleteLocal
  <2> HIDE DEF Goal
  <2> QED
    BY <1>5, <2>1, <2>2
    DEF Serve, ServeCreate, ServeMove, ServeBulk, EndCommits, EndRefused, ConnectionLost, Reply
<1>6. ASSUME Faulty PROVE Goal
  <2>1. CASE AppDies \/ Disconnect \/ ApiCrashes
    BY <1>1, <2>1 DEF AppDies, Disconnect, ApiCrashes, Hangup
  <2>2. ASSUME NEW r \in http, ServerError(r) \/ TimesOut(r) \/ Vanishes(r) PROVE Goal
    <3>1. ASSUME UNCHANGED <<up, room>> PROVE Goal
      BY <1>1, <3>1
    <3> HIDE DEF Goal
    <3> QED
      BY <1>2, <2>2, <3>1 DEF ServerError, TimesOut, Vanishes, Reply, FailsForNow, Offline, Ignored
  <2> HIDE DEF Goal
  <2> QED
    BY <1>6, <2>1, <2>2 DEF Faulty
<1>7. ASSUME NEW m \in Meetings, WindowEnds(m) PROVE Goal
  BY <1>1, <1>7 DEF WindowEnds
<1>8. ASSUME NEW t \in up, Receive(t) PROVE Goal
  BY <1>1, <1>8 DEF Receive
<1>9. ASSUME NEW a \in down, ClientAck(a) \/ ClientError(a) PROVE Goal
  BY <1>1, <1>9 DEF ClientAck, ClientError
<1>10. ASSUME UNCHANGED <<up, room>> PROVE Goal
  BY <1>1, <1>10
<1>12. ASSUME NEW t \in up, TokenExpired(t) PROVE Goal
  BY <1>1, <1>12 DEF TokenExpired, Hangup
<1> HIDE DEF Goal
<1>11. Goal
  BY <1>3, <1>4, <1>5, <1>6, <1>7, <1>8, <1>9, <1>10, <1>12
  DEF Next, User, Start, Hear, Press, EndUnfinished, ResumeUnfinished, Delete, EndElsewhere, Worker,
      StartPass, NextMeeting, SendBulk, NothingToSend, SendEnd, AutoClose, StartProcessing, TimerFires,
      InFlightExpires, BulkMinuteEnds, ServeAny, Join, TimePasses, ExpireAny, ReceiveAny, Incoming,
      ConsentChanges, AcceptConsent,
      vars
<1> QED
  BY <1>11 DEF Goal

\* Where a new row comes from.
LEMMA RowCases ==
  ASSUME TypeInv, [Next]_vars, NEW m \in Meetings, NEW s \in Seqs, rows[m][s] = "none", rows'[m][s] # "none"
  PROVE  \/ \E i \in buffer : i.m = m /\ i.seq = s
         \/ \E r \in http : r.m = m /\ s \in r.seqs
<1> DEFINE Goal == \/ \E i \in buffer : i.m = m /\ i.seq = s
                   \/ \E r \in http : r.m = m /\ s \in r.seqs
<1>0. ServerType /\ HttpType
  BY TypeParts DEF TypeInv
<1>1. ASSUME NEW n \in Meetings, NEW S, rows' = [rows EXCEPT ![n] = Written(n, S)] PROVE n = m /\ s \in S
  <2>1. n = m
    BY <1>0, <1>1 DEF ServerType
  <2>2. rows'[m] = Written(m, S)
    BY <1>0, <1>1, <2>1 DEF ServerType
  <2> QED
    BY <2>1, <2>2 DEF Written
<1>2. ASSUME NEW n \in Meetings, NEW ok, WriteBatch(n, ok) PROVE Goal
  <2>1. n = m /\ s \in {i.seq : i \in BatchOf(n)}
    BY <1>1, <1>2 DEF WriteBatch
  <2> QED
    BY <2>1 DEF BatchOf
<1>3. ASSUME NEW r \in http, Serve(r) PROVE Goal
  <2>1. r.m \in Meetings
    BY <1>0, RequestType DEF HttpType
  <2>2. CASE EndFlushes(r)
    BY <1>2, <2>1, <2>2 DEF EndFlushes
  <2>3. CASE ServeBulk(r)
    <3>1. r.m = m /\ s \in r.seqs
      BY <1>1, <2>1, <2>3 DEF ServeBulk
    <3> QED
      BY <3>1
  <2> QED
    BY <1>3, <2>2, <2>3 DEF Serve, ServeCreate, ServeMove, EndScans, EndCommits, EndRefused, ConnectionLost
<1>4. ASSUME NEW n \in Meetings, WindowEnds(n) PROVE Goal
  BY <1>2, <1>4 DEF WindowEnds
<1>5. ASSUME NEW n \in Meetings, Delete(n) PROVE FALSE
  BY <1>0, <1>5 DEF Delete, ServerType
<1>6. ASSUME Faulty PROVE FALSE
  BY <1>6 DEF Faulty, AppDies, Disconnect, ApiCrashes, ServerError, TimesOut, Vanishes
<1> HIDE DEF Goal
<1>7. Goal
  BY <1>3, <1>4, <1>5, <1>6
  DEF Next, User, Start, Hear, Press, EndUnfinished, ResumeUnfinished, EndElsewhere, Worker, StartPass,
      NextMeeting, ReplayOps, SendOnSocket, SendBulk, NothingToSend, SendEnd, AutoClose, StartProcessing,
      TimerFires, InFlightExpires, BulkMinuteEnds, ServeAny, Join, TimePasses, ExpireAny, TokenExpired,
      ReceiveAny, Receive, Incoming, ClientAck,
      ClientError, ConsentChanges, AcceptConsent, vars
<1> QED
  BY <1>7 DEF Goal

LEMMA HeardOnlyStep ==
  ASSUME TypeInv, FullInv, [Next]_vars, gone' = {}
  PROVE  HeardOnly'
<1>0. TypeInv' /\ HeardOnly
  BY TypeStep DEF FullInv
<1>1. /\ buffer \subseteq [m : Meetings, seq : Seqs, live : BOOLEAN] /\ room \in Meetings \cup {None}
      /\ http \subseteq Requests /\ rows \in [Meetings -> [Seqs -> {"none", "here", "there"}]]
      /\ pending \in [Meetings -> SUBSET Seqs]
  BY DEF TypeInv, TypeOK
<1>2. \A m \in Meetings : \A s \in Seqs : s <= lastSeq[m] => s <= lastSeq'[m]
  BY CountStep, SyncAssumption DEF Seqs
<1>3. \A m \in Meetings : \A s \in pending[m] : s \in Seqs /\ s <= lastSeq[m]
  BY <1>0, <1>1 DEF HeardOnly
<1>4. \A m \in Meetings : pending'[m] \subseteq saved'[m] /\ \A s \in saved'[m] : s <= lastSeq'[m]
  <2> SUFFICES ASSUME NEW m \in Meetings
               PROVE  pending'[m] \subseteq saved'[m] /\ \A s \in saved'[m] : s <= lastSeq'[m]
    OBVIOUS
  <2>1. pending[m] \subseteq saved[m] /\ (\A s \in saved[m] : s <= lastSeq[m]) /\ saved[m] \subseteq Seqs
    BY <1>0 DEF HeardOnly, TypeInv, TypeOK
  <2>2. /\ pending'[m] \subseteq pending[m] \cup saved'[m] /\ saved[m] \subseteq saved'[m]
        /\ \A s \in saved'[m] \ saved[m] : s = lastSeq[m] + 1 /\ lastSeq'[m] = s
        /\ lastSeq[m] \in Nat /\ lastSeq'[m] \in Nat
    BY CountStep
  <2>3. \A s \in saved'[m] : s <= lastSeq'[m]
    BY <1>2, <2>1, <2>2
  <2> QED
    BY <2>1, <2>2, <2>3
<1>5. \A i \in buffer' : i.seq <= lastSeq'[i.m]
  <2> SUFFICES ASSUME NEW i \in buffer' PROVE i.seq <= lastSeq'[i.m]
    OBVIOUS
  <2>1. CASE \E j \in buffer : j.m = i.m /\ j.seq = i.seq
    <3>1. PICK j \in buffer : j.m = i.m /\ j.seq = i.seq
      BY <2>1
    <3>2. j.seq \in Seqs /\ j.m \in Meetings /\ j.seq <= lastSeq[j.m]
      BY <1>0, <1>1 DEF HeardOnly
    <3> QED
      BY <1>2, <3>1, <3>2
  <2>2. CASE i.seq \in up /\ i.m = room
    <3>1. room # None /\ up \subseteq Seqs
      BY <2>2 DEF TypeInv, RoomInv, TypeOK
    <3>2. room \in Meetings /\ i.seq <= lastSeq[room] /\ i.seq \in Seqs
      BY <1>0, <1>1, <2>2, <3>1 DEF HeardOnly
    <3> QED
      BY <1>2, <2>2, <3>2
  <2> QED
    BY <2>1, <2>2, BufferCases
<1>6. room' # None => \A s \in up' : s <= lastSeq'[room']
  <2> SUFFICES ASSUME room' # None, NEW s \in up' PROVE s <= lastSeq'[room']
    OBVIOUS
  <2>1. room' = room /\ (s \in up \/ s \in pending[room]) /\ room \in Meetings
    BY <1>1, UpCases
  <2>2. s <= lastSeq[room] /\ s \in Seqs
    BY <1>0, <1>3, <2>1 DEF HeardOnly, TypeInv, TypeOK
  <2> QED
    BY <1>2, <2>1, <2>2
<1>7. \A r \in http' : \A s \in r.seqs : s <= lastSeq'[r.m]
  <2> SUFFICES ASSUME NEW q \in http', NEW s \in q.seqs PROVE s <= lastSeq'[q.m]
    OBVIOUS
  <2>1. CASE \E r \in http : q.kind = r.kind /\ q.m = r.m /\ q.seqs = r.seqs /\ q.last = r.last
    <3>1. PICK r \in http : q.m = r.m /\ q.seqs = r.seqs
      BY <2>1
    <3>2. r.m \in Meetings /\ r.seqs \subseteq Seqs
      BY <1>1, RequestType
    <3>3. s \in Seqs /\ s <= lastSeq[r.m]
      BY <1>0, <3>1, <3>2 DEF HeardOnly
    <3> QED
      BY <1>2, <3>1, <3>2, <3>3
  <2>2. CASE q.m \in Meetings /\ q.seqs \subseteq pending[q.m]
    BY <1>2, <1>3, <2>2
  <2> QED
    BY <2>1, <2>2, RequestCases
<1>8. ASSUME NEW m \in Meetings, NEW s \in Seqs, rows'[m][s] # "none" PROVE s <= lastSeq'[m] \/ s = 1
  <2>1. CASE rows[m][s] # "none"
    BY <1>0, <1>2, <2>1 DEF HeardOnly
  <2>2. CASE rows[m][s] = "none"
    <3>1. CASE \E i \in buffer : i.m = m /\ i.seq = s
      BY <1>0, <1>2, <3>1 DEF HeardOnly
    <3>2. CASE \E r \in http : r.m = m /\ s \in r.seqs
      BY <1>0, <1>2, <3>2 DEF HeardOnly
    <3> QED
      BY <1>8, <2>2, <3>1, <3>2, RowCases
  <2> QED
    BY <2>1, <2>2
<1> QED
  BY <1>4, <1>5, <1>6, <1>7, <1>8 DEF HeardOnly

LEMMA FilledStep ==
  ASSUME TypeInv, EndInv, OnServer, AckStored, FullInv, [Next]_vars, gone' = {}
  PROVE  Filled'
<1> SUFFICES ASSUME NEW m \in Meetings, NEW s \in Seqs, s <= lastSeq'[m], s \notin pending'[m]
             PROVE  rows'[m][s] # "none"
  BY DEF Filled
<1>0. HeardOnly /\ Filled /\ s \in Nat /\ s >= 1
  BY SyncAssumption DEF FullInv, Seqs
<1>1. rows[m][s] # "none" => rows'[m][s] # "none"
  BY RowsStep DEF RowKept
<1>2. CASE s <= lastSeq[m]
  <2>1. CASE s \in pending[m]
    <3>1. s \in saved'[m]
      BY <1>0, <2>1, CountStep DEF HeardOnly
    <3> QED
      BY <2>1, <3>1, PendingStep
  <2>2. CASE s \notin pending[m]
    BY <1>0, <1>1, <1>2, <2>2 DEF Filled
  <2> QED
    BY <2>1, <2>2
<1>3. CASE ~(s <= lastSeq[m])
  <2>1. lastSeq[m] \in Nat /\ lastSeq'[m] \in Nat /\ lastSeq'[m] # lastSeq[m]
    BY <1>0, <1>3, CountStep
  <2>2. CASE lastSeq'[m] = lastSeq[m] + 1 /\ lastSeq'[m] \in saved'[m] /\ lastSeq'[m] \in pending'[m]
    <3>1. s = lastSeq'[m]
      BY <1>0, <1>3, <2>1, <2>2
    <3> QED
      BY <2>2, <3>1
  <2>3. CASE lastSeq'[m] \in Highest(m) /\ lastSeq'[m] \in Seqs
    <3>1. rows[m][lastSeq'[m]] # "none"
      BY <2>3 DEF Highest
    <3>2. lastSeq'[m] <= lastSeq[m] \/ lastSeq'[m] = 1
      BY <1>0, <2>3, <3>1 DEF HeardOnly
    <3>3. s = 1 /\ lastSeq'[m] = 1
      BY <1>0, <1>3, <2>1, <3>2
    <3> QED
      BY <1>1, <3>1, <3>3
  <2> QED
    BY <2>1, <2>2, <2>3, CountStep
<1> QED
  BY <1>2, <1>3

LEMMA EndsFullStep ==
  ASSUME TypeInv, FullInv, [Next]_vars, gone' = {}
  PROVE  EndsFull' /\ NeverEndsAnyway'
<1>0. EndsFull /\ NeverEndsAnyway /\ Filled /\ http \subseteq Requests /\ lastSeq \in [Meetings -> 0..MaxSeq]
  BY DEF FullInv, TypeInv, TypeOK
<1>n. gone = {}
  BY DEF FullInv
<1>1. ASSUME NEW q \in http' PROVE q.kind # "endAnyway"
  <2>1. ASSUME NEW r \in http, Ends(r), NEW s \in 1..r.last, rows[r.m][s] = "none" PROVE FALSE
    <3>1. r.kind = "end"
      BY <1>0, <1>n, <2>1 DEF Ends, NeverEndsAnyway
    <3>2. r.last \in 0..MaxSeq
      BY <1>0, RequestType
    <3>3. s \in Seqs /\ s <= r.last
      BY <3>2, SyncAssumption DEF Seqs
    <3> QED
      BY <1>0, <2>1, <3>1, <3>3 DEF EndsFull
  <2> QED
    BY <1>0, <1>n, <2>1, RequestCases DEF NeverEndsAnyway
<1>2. ASSUME NEW q \in http', q.kind = "end", NEW s \in Seqs, s <= q.last PROVE rows'[q.m][s] # "none"
  <2>1. q.m \in Meetings /\ rows[q.m][s] # "none"
    <3>1. CASE \E r \in http : q.kind = r.kind /\ q.m = r.m /\ q.seqs = r.seqs /\ q.last = r.last
      <4>1. PICK r \in http : r.kind = "end" /\ q.m = r.m /\ q.last = r.last
        BY <1>2, <3>1
      <4>2. r.m \in Meetings
        BY <1>0, RequestType
      <4> QED
        BY <1>0, <1>2, <4>1, <4>2 DEF EndsFull
    <3>2. CASE q.m = cur /\ cur \in Meetings /\ q.last = lastSeq[cur] /\ AllSynced(cur)
      BY <1>0, <1>2, <3>2 DEF Filled, AllSynced
    <3> QED
      BY <1>2, <3>1, <3>2, RequestCases
  <2> QED
    BY <2>1, RowsStep DEF RowKept
<1> QED
  BY <1>1, <1>2 DEF EndsFull, NeverEndsAnyway

\* The phone never has to end a meeting without naming its last line (sync-worker.ts, replay), for any number
\* of meetings, of segments, presses and faults, and also where GET /segments fails, as long as no meeting has
\* been deleted: the server never lacks a line that the phone counted and holds no more.
THEOREM NeverEndsAnywayCorrect == Spec => []NeverEndsAnyway
<1> DEFINE Sound == EndInv /\ OnServer /\ AckStored /\ (gone = {} => FullInv)
<1>1. Init => Sound
  BY FullInit, SafeInit DEF SafeInv
<1>2. TypeInv /\ Sound /\ [Next]_vars => Sound'
  <2> SUFFICES ASSUME TypeInv, Sound, [Next]_vars PROVE Sound'
    OBVIOUS
  <2>1. gone' = {} => FullInv
    BY GoneStep
  <2>2. gone' = {} => FullInv'
    BY <2>1, HeardOnlyStep, FilledStep, EndsFullStep DEF FullInv
  <2> QED
    BY <2>2, EndInvStep, OnServerStep, AckStoredStep
<1>3. Sound => NeverEndsAnyway
  BY DEF FullInv, NeverEndsAnyway
<1> QED
  BY <1>1, <1>2, <1>3, TypeCorrect, PTL DEF Spec
=============================================================================

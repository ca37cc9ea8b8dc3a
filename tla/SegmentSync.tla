---------------------------- MODULE SegmentSync ----------------------------
(***************************************************************************)
(* How a transcript gets from the phone to PostgreSQL.                     *)
(*                                                                         *)
(* On the phone: the SQLite queue (segment-queue.ts, lifecycle-ops.ts,     *)
(* local-meetings.ts), the sync worker that drains it (sync-worker.ts), the*)
(* socket of the meeting being recorded (meeting-socket.ts) and the session*)
(* that fills it (recording-session.ts, recording-recovery.ts).  On the    *)
(* server: the segment ingest and batch writer (segment-ingest.handler.ts, *)
(* segment-batch-writer.service.ts), the single write path of segments     *)
(* (segment-upsert.repository.ts) and the lifecycle requests               *)
(* (meetings.service.ts).                                                  *)
(*                                                                         *)
(* One phone and one signed-in user.  Translations ride on the same queue  *)
(* and are left out.  A segment is its seq; `rows` tells text recorded on  *)
(* this phone from text recorded elsewhere.                                *)
(***************************************************************************)
EXTENDS Integers, FiniteSets, Sequences, MeetingLifecycle

CONSTANTS
  Meetings,       \* meeting ids, numbered in the order they were started
  Adopted,        \* those another device of the user started, one segment long
  MaxSeq,         \* bound: segments of a meeting
  MaxPresses,     \* bound: pauses and resumes pressed during sessions
  BulkThreshold,  \* BULK_THRESHOLD: a larger backlog goes through /segments/bulk
  BulkLimit,      \* BULK_LIMIT: segments per bulk request
  Window,         \* INFLIGHT_WINDOW: socket segments awaiting their ack
  Env,            \* adversities explored besides faults, see below
  MaxFaults       \* bound: lost requests and answers, dropped sockets, crashes, deletions

\* load_fails: GET /segments fails while an adopted meeting is resumed;
\* auto_close: 24 h pass without activity; new_consent: the consent text changes after
\* the meeting started; delete: the user deletes meetings from another device (without
\* it a deletion counts as a fault).
Adversities == {"load_fails", "auto_close", "new_consent", "delete"}

ASSUME SyncAssumption ==
  /\ Meetings \subseteq Nat \ {0} /\ Adopted \subseteq Meetings
  /\ MaxSeq \in Nat \ {0} /\ MaxPresses \in Nat /\ MaxFaults \in Nat
  /\ BulkThreshold \in Nat /\ BulkLimit \in Nat \ {0} /\ Window \in Nat \ {0}
  /\ Env \subseteq Adversities

Seqs == 1..MaxSeq
None == 0

VARIABLES
  \* the phone's SQLite
  local,      \* local_meetings.status, "none" when there is no row
  created,    \* local_meetings.server_created
  lastSeq,    \* local_meetings.last_seq
  pending,    \* pending_segments: seqs per meeting
  ops,        \* pending_ops: queue per meeting
  blocked,    \* local_meetings.blocked
  \* the phone's memory
  live,       \* the meeting of the session and of the worker's socket
  pc,         \* where the worker's pass is
  cur,        \* the meeting it is syncing
  todo,       \* the meetings still to be synced in this pass
  retry,      \* a meeting of this pass failed
  again,      \* kick() was called during the pass
  timer,      \* later() is armed
  inFlight,   \* seqs sent on the socket and not yet acked
  stale,      \* those sent longer than RESEND_AFTER_MS ago
  bulkOnly,   \* RATE_LIMITED less than a minute ago
  \* the socket
  conn,       \* "closed", "open", "joined", or "aged": joined for long enough that
              \* the handshake's token may have expired
  room,       \* the meeting the client opened it for
  up,         \* segments on their way to the server
  down,       \* acks and errors on their way back
  \* the server
  status,     \* meetings.status, "none" without a row
  rows,       \* transcript_segments: none, recorded here, recorded there
  buffer,     \* SegmentBatchWriter: segments waiting to be written
  http,       \* requests under way
  consent,    \* the user accepted the current consent text
  \* history and bounds
  saved,      \* history: seqs given to text recorded on this phone
  gone,       \* history: meetings the user deleted
  ended,      \* history: meetings whose `end` the server accepted from the phone
  faults,
  presses

disk == <<local, created, lastSeq, pending, ops, blocked>>
pass == <<pc, cur, todo, retry, again, timer>>
flight == <<inFlight, stale, bulkOnly>>
socket == <<conn, room, up, down>>
server == <<status, rows, buffer, consent>>
history == <<saved, gone, ended>>
bounds == <<faults, presses>>
vars == <<disk, live, pass, flight, socket, server, http, history, bounds>>

Kinds == {"create", "pause", "resume", "end", "endAnyway", "bulk"}
Requests == [kind: Kinds, m: Meetings, seqs: SUBSET Seqs, last: 0..MaxSeq,
             stage: {"new", "flushed", "checked", "lost"}, waiting: BOOLEAN]
Call(kind, m, seqs, last) ==
  [kind |-> kind, m |-> m, seqs |-> seqs, last |-> last, stage |-> "new", waiting |-> TRUE]

Init ==
  /\ local = [m \in Meetings |-> "none"] /\ created = [m \in Meetings |-> m \in Adopted]
  /\ lastSeq = [m \in Meetings |-> 0] /\ pending = [m \in Meetings |-> {}]
  /\ ops = [m \in Meetings |-> <<>>] /\ blocked = [m \in Meetings |-> FALSE]
  /\ live = None
  /\ pc = "idle" /\ cur = None /\ todo = {} /\ retry = FALSE /\ again = FALSE /\ timer = FALSE
  /\ inFlight = {} /\ stale = {} /\ bulkOnly = FALSE
  /\ conn = "closed" /\ room = None /\ up = {} /\ down = {}
  /\ status = [m \in Meetings |-> IF m \in Adopted THEN "recording" ELSE "none"]
  /\ rows = [m \in Meetings |-> [s \in Seqs |-> IF m \in Adopted /\ s = 1 THEN "there" ELSE "none"]]
  /\ buffer = {} /\ http = {} /\ consent = TRUE
  /\ saved = [m \in Meetings |-> {}] /\ gone = {} /\ ended = {} /\ faults = 0 /\ presses = 0

Fault == faults < MaxFaults /\ faults' = faults + 1 /\ UNCHANGED presses

-----------------------------------------------------------------------------
(* kick(): a pass starts, or the running one is told to go round again.     *)

BadKick_DroppedWhileRunning == IF pc = "idle" THEN pc' = "start" /\ UNCHANGED again ELSE UNCHANGED <<pc, again>>
Kick == IF pc = "idle" THEN pc' = "start" /\ UNCHANGED again ELSE again' = TRUE /\ UNCHANGED pc
Kicked == Kick /\ UNCHANGED <<cur, todo, retry, timer>>

\* socket.disconnect(): what is on its way is lost, and so are later acks of
\* segments the server still holds.
Orphaned == {[i EXCEPT !.live = FALSE] : i \in buffer}
Hangup(c) == conn' = c /\ up' = {} /\ down' = {} /\ buffer' = Orphaned

\* setLive(null) and RecordingSession.finish(); setLive(m) keeps an open socket.
SetLiveNone == live' = None /\ inFlight' = {} /\ stale' = {} /\ room' = None /\ Hangup("closed")
Quiet == UNCHANGED <<live, inFlight, stale, socket, buffer>>

-----------------------------------------------------------------------------
(* The session: every button acts on the disk first.                        *)

RecordOp(m, op) ==
  /\ local' = [local EXCEPT ![m] = [pause |-> "paused", resume |-> "recording", end |-> "ending"][op]]
  /\ ops' = [ops EXCEPT ![m] = Append(@, op)]

GoLive(m) == live' = m /\ inFlight' = {} /\ stale' = {}

Start(m) ==
  /\ live = None /\ local[m] = "none" /\ status[m] = "none" /\ m \notin gone
  /\ \A n \in Meetings \ Adopted : n < m => status[n] # "none" \/ local[n] # "none"
  /\ local' = [local EXCEPT ![m] = "recording"]
  /\ GoLive(m) /\ Kicked
  /\ UNCHANGED <<created, lastSeq, pending, ops, blocked, bulkOnly, socket, server, http, history, bounds>>

\* enqueueSegment: the seq and the row in one transaction.
Hear ==
  /\ live # None /\ local[live] = "recording" /\ lastSeq[live] < MaxSeq
  /\ LET s == lastSeq[live] + 1 IN
     /\ lastSeq' = [lastSeq EXCEPT ![live] = s]
     /\ pending' = [pending EXCEPT ![live] = @ \cup {s}]
     /\ saved' = [saved EXCEPT ![live] = @ \cup {s}]
  /\ Kicked
  /\ UNCHANGED <<local, created, ops, blocked, live, flight, socket, server, http, gone, ended, bounds>>

Press(op) ==
  /\ live # None /\ op \in {"pause", "resume", "end"}
  /\ local[live] \in (IF op = "resume" THEN {"paused"} ELSE IF op = "pause" THEN {"recording"} ELSE Live)
  /\ IF op = "end" THEN UNCHANGED presses ELSE presses < MaxPresses /\ presses' = presses + 1
  /\ RecordOp(live, op) /\ Kicked
  /\ UNCHANGED <<created, lastSeq, pending, blocked, live, flight, socket, server, http, history, faults>>

\* Home's "Kết thúc" on a meeting left unfinished on this phone; Home's buttons are
\* off while a session is on.
EndUnfinished(m) ==
  /\ live = None /\ local[m] \in Live
  /\ RecordOp(m, "end") /\ Kicked
  /\ UNCHANGED <<created, lastSeq, pending, blocked, live, flight, socket, server, http, history, bounds>>

\* The highest seq of GET /segments, 0 when there is none or the request fails.
Highest(m) == {top \in Seqs \cup {0} : /\ top \in Seqs => rows[m][top] # "none"
                                      /\ \A t \in Seqs : t > top => rows[m][t] = "none"}
BadLoads_NotRaised(m) == {0}
Loads(m) == Highest(m) \cup (IF "load_fails" \in Env THEN {0} ELSE {})

\* resumeUnfinished: "Tiếp tục", after adopting a meeting known only to the server.
ResumeUnfinished(m) ==
  LET adopt == local[m] = "none" IN
  /\ live = None /\ local[m] # "ending"
  /\ adopt => m \in Adopted /\ status[m] \in Live
  /\ \E top \in Loads(m) :
       lastSeq' = [lastSeq EXCEPT ![m] = IF created[m] /\ top > @ THEN top ELSE @]
  /\ IF (IF adopt THEN status[m] ELSE local[m]) = "paused"
       THEN RecordOp(m, "resume")
       ELSE local' = [local EXCEPT ![m] = IF adopt THEN "recording" ELSE @] /\ UNCHANGED ops
  /\ GoLive(m) /\ Kicked
  /\ UNCHANGED <<created, pending, blocked, bulkOnly, socket, server, http, history, bounds>>

\* The process is killed; the next launch starts a pass for the signed-in user.
AppDies ==
  /\ Fault
  /\ live' = None /\ inFlight' = {} /\ stale' = {} /\ bulkOnly' = FALSE
  /\ room' = None /\ Hangup("closed")
  /\ http' = {[r EXCEPT !.waiting = FALSE] : r \in http}
  /\ pc' = "start" /\ cur' = None /\ todo' = {} /\ retry' = FALSE /\ again' = FALSE /\ timer' = FALSE
  /\ UNCHANGED <<disk, status, rows, consent, history>>

-----------------------------------------------------------------------------
(* The worker's pass: oldest meeting first; create, pause and resume in      *)
(* order, segments, and `end` once nothing is pending.                      *)

Send(r) == http' = http \cup {r} /\ pc' = "wait"

StartPass ==
  /\ pc = "start"
  /\ todo' = {m \in Meetings : local[m] # "none" /\ ~blocked[m]}
  /\ retry' = FALSE /\ again' = FALSE /\ pc' = "next"
  /\ UNCHANGED <<disk, live, cur, timer, flight, socket, server, http, history, bounds>>

\* The pass is over; after a failure the timer is armed with the backoff.
BadEndPass_NoRetry(failed) ==
  /\ pc' = IF again THEN "start" ELSE "idle"
  /\ again' = FALSE /\ retry' = FALSE /\ cur' = None /\ todo' = {} /\ UNCHANGED timer
EndPass(failed) ==
  /\ timer' = (timer \/ failed)
  /\ pc' = IF again THEN "start" ELSE "idle"
  /\ again' = FALSE /\ retry' = FALSE /\ cur' = None /\ todo' = {}

NextMeeting ==
  /\ pc = "next"
  /\ \/ todo = {} /\ EndPass(retry) /\ UNCHANGED http
     \/ \E m \in todo :
          /\ \A n \in todo : m <= n
          /\ cur' = m /\ todo' = todo \ {m}
          /\ IF created[m] THEN pc' = "ops" /\ UNCHANGED http
             ELSE Send(Call("create", m, {}, 0))
          /\ UNCHANGED <<retry, again, timer>>
  /\ UNCHANGED <<disk, live, flight, socket, server, history, bounds>>

HeadIs(m, S) == ops[m] # <<>> /\ Head(ops[m]) \in S

\* Every pause and resume is out: the socket is opened for the live meeting.
ReplayOps ==
  /\ pc = "ops"
  /\ \/ /\ HeadIs(cur, {"pause", "resume"})
        /\ Send(Call(Head(ops[cur]), cur, {}, 0))
        /\ UNCHANGED <<conn, room>>
     \/ /\ ~HeadIs(cur, {"pause", "resume"})
        /\ pc' = "send"
        /\ IF cur = live /\ room # live
           THEN room' = cur /\ conn' = "open"
           ELSE UNCHANGED <<conn, room>>
        /\ UNCHANGED http
  /\ UNCHANGED <<disk, live, cur, todo, retry, again, timer, flight, up, down, server, history, bounds>>

\* The n lowest seqs of S.
Lowest(S, n) == {s \in S : Cardinality({t \in S : t < s}) < n}

Joined == {"joined", "aged"}
ViaSocket == /\ cur = live /\ conn \in Joined /\ room = cur
             /\ Cardinality(pending[cur]) <= BulkThreshold /\ ~bulkOnly

SendOnSocket ==
  /\ pc = "send" /\ pending[cur] # {} /\ ViaSocket
  /\ LET kept == inFlight \ stale
         send == Lowest(pending[cur] \ kept, Window - Cardinality(kept)) IN
     /\ inFlight' = kept \cup send
     /\ up' = up \cup send
     /\ timer' = (timer \/ inFlight' # {})
  /\ stale' = {} /\ pc' = "end"
  /\ UNCHANGED <<disk, live, cur, todo, retry, again, bulkOnly, conn, room, down, server, http, history, bounds>>

\* One request per BULK_LIMIT segments, until none is pending.
SendBulk ==
  /\ \/ pc = "send" /\ pending[cur] # {} /\ ~ViaSocket
     \/ pc = "bulk" /\ pending[cur] # {}
  /\ inFlight' = {} /\ stale' = {}
  /\ Send(Call("bulk", cur, Lowest(pending[cur], BulkLimit), 0))
  /\ UNCHANGED <<disk, live, cur, todo, retry, again, timer, bulkOnly, socket, server, history, bounds>>

NothingToSend ==
  /\ pc \in {"send", "bulk"} /\ pending[cur] = {}
  /\ pc' = "end"
  /\ UNCHANGED <<disk, live, cur, todo, retry, again, timer, flight, socket, server, http, history, bounds>>

BadAllSynced_NotChecked(m) == TRUE
AllSynced(m) == pending[m] = {}

SendEnd ==
  /\ pc = "end"
  /\ IF HeadIs(cur, {"end"}) /\ AllSynced(cur)
     THEN Send(Call("end", cur, {}, lastSeq[cur]))
     ELSE pc' = "next" /\ UNCHANGED http
  /\ UNCHANGED <<disk, live, cur, todo, retry, again, timer, flight, socket, server, history, bounds>>

\* Time: the backoff or resend timer, RESEND_AFTER_MS, the minute of bulk.
TimerFires ==
  /\ timer /\ timer' = FALSE /\ Kick
  /\ UNCHANGED <<disk, live, cur, todo, retry, flight, socket, server, http, history, bounds>>
InFlightExpires ==
  /\ stale # inFlight /\ stale' = inFlight
  /\ UNCHANGED <<disk, live, pass, inFlight, bulkOnly, socket, server, http, history, bounds>>
BulkMinuteEnds ==
  /\ bulkOnly /\ bulkOnly' = FALSE
  /\ UNCHANGED <<disk, live, pass, inFlight, stale, socket, server, http, history, bounds>>

-----------------------------------------------------------------------------
(* What the worker does with the answer to request r.                       *)

Answered(r) == http' = http \ {r}

DeleteLocal(m) ==
  /\ local' = [local EXCEPT ![m] = "none"]
  /\ pending' = [pending EXCEPT ![m] = {}]
  /\ ops' = [ops EXCEPT ![m] = <<>>]
  /\ IF m = live THEN SetLiveNone ELSE Quiet

\* 2xx, or for a pause, resume or end also INVALID_STATE_TRANSITION.
Succeeds(r) ==
  /\ \/ /\ r.kind = "create"
        /\ created' = [created EXCEPT ![r.m] = TRUE] /\ pc' = "ops"
        /\ UNCHANGED <<local, pending, ops>> /\ Quiet
     \/ /\ r.kind \in {"pause", "resume"}
        /\ ops' = [ops EXCEPT ![r.m] = Tail(@)] /\ pc' = "ops"
        /\ UNCHANGED <<local, created, pending>> /\ Quiet
     \/ /\ r.kind = "bulk"
        /\ pending' = [pending EXCEPT ![r.m] = @ \ r.seqs] /\ pc' = "bulk"
        /\ UNCHANGED <<local, created, ops>> /\ Quiet
     \/ /\ r.kind \in {"end", "endAnyway"}
        /\ DeleteLocal(r.m) /\ pc' = "next"
        /\ UNCHANGED created
  /\ UNCHANGED <<lastSeq, blocked, bulkOnly, cur, todo, retry, again, timer>>

\* MEETING_NOT_FOUND: nothing left to sync it into.
NotFound(r) ==
  /\ DeleteLocal(r.m) /\ pc' = "next"
  /\ UNCHANGED <<created, lastSeq, blocked, bulkOnly, cur, todo, retry, again, timer>>

Refused(r) ==
  /\ blocked' = [blocked EXCEPT ![r.m] = TRUE] /\ pc' = "next"
  /\ UNCHANGED <<local, created, lastSeq, pending, ops, bulkOnly, cur, todo, retry, again, timer>> /\ Quiet

\* 5xx and any other refusal: go on with the next meeting, come back later.
FailsForNow ==
  /\ retry' = TRUE /\ pc' = "next"
  /\ UNCHANGED <<disk, bulkOnly, cur, todo, again, timer>> /\ Quiet

Offline == EndPass(TRUE) /\ UNCHANGED <<disk, bulkOnly>> /\ Quiet

Ignored == UNCHANGED <<disk, pass, bulkOnly>> /\ Quiet

Reply(r, answer) == Answered(r) /\ IF r.waiting THEN answer ELSE Ignored

-----------------------------------------------------------------------------
(* The API: one request, or one step of a longer one.                       *)

Deleted(r) == status[r.m] = "none"

\* INSERT ... ON CONFLICT DO NOTHING: a replay finds the row it already made.
ServeCreate(r) ==
  /\ r.kind = "create" /\ r.stage = "new"
  /\ IF consent /\ status[r.m] = "none"
     THEN status' = [status EXCEPT ![r.m] = "recording"] ELSE UNCHANGED status
  /\ Reply(r, IF consent THEN Succeeds(r) ELSE Refused(r))
  /\ UNCHANGED <<rows, consent, history, bounds>>

ServeMove(r) ==
  /\ r.kind \in {"pause", "resume"} /\ r.stage = "new"
  /\ IF ~Deleted(r) /\ CanMove(status[r.m], r.kind)
     THEN status' = [status EXCEPT ![r.m] = After(r.kind)] ELSE UNCHANGED status
  /\ Reply(r, IF Deleted(r) THEN NotFound(r) ELSE Succeeds(r))
  /\ UNCHANGED <<rows, consent, history, bounds>>

\* upsertMany: ON CONFLICT (meeting_id, seq) DO NOTHING, under the row lock.
Written(m, seqs) == [s \in Seqs |-> IF s \in seqs /\ rows[m][s] = "none" THEN "here" ELSE rows[m][s]]

ServeBulk(r) ==
  /\ r.kind = "bulk" /\ r.stage = "new"
  /\ rows' = IF status[r.m] \in AcceptsSegments
             THEN [rows EXCEPT ![r.m] = Written(r.m, r.seqs)] ELSE rows
  /\ Reply(r, IF Deleted(r) THEN NotFound(r)
              ELSE IF status[r.m] \in AcceptsSegments THEN Succeeds(r) ELSE FailsForNow)
  /\ UNCHANGED <<status, consent, history, bounds>>

\* What the batch writer holds for m is written, or refused, in one transaction.
BatchOf(m) == {i \in buffer : i.m = m}
BadAck_BeforeCommit(ok) == "ack"
Ack(ok) == IF ok THEN "ack" ELSE "error"
WriteBatch(m, ok) ==
  /\ buffer' = buffer \ BatchOf(m)
  /\ rows' = IF ok THEN [rows EXCEPT ![m] = Written(m, {i.seq : i \in BatchOf(m)})] ELSE rows
  /\ down' = down \cup {[kind |-> Ack(ok), seq |-> i.seq] : i \in {j \in BatchOf(m) : j.live}}

\* `end`, up to the row lock: refused at once, or the batch writer is flushed ...
Ends(r) == r.kind \in {"end", "endAnyway"}
Advance(r, stage) == http' = (http \ {r}) \cup {[r EXCEPT !.stage = stage]}
EndFlushes(r) ==
  /\ Ends(r) /\ r.stage = "new" /\ CanMove(status[r.m], "end")
  /\ WriteBatch(r.m, TRUE) /\ Advance(r, "flushed")
  /\ UNCHANGED <<disk, live, pass, flight, conn, room, up, status, consent, history, bounds>>

\* ... and seqs 1..last_seq are looked for.  With one missing the client ends anyway.
EndScans(r) ==
  /\ Ends(r) /\ r.stage = "flushed"
  /\ IF \E s \in 1..r.last : rows[r.m][s] = "none"
     THEN IF r.waiting THEN http' = (http \ {r}) \cup {Call("endAnyway", r.m, {}, 0)}
                       ELSE Answered(r)
     ELSE Advance(r, "checked")
  /\ UNCHANGED <<disk, live, pass, flight, socket, server, history, bounds>>

\* Under the row lock: recording or paused -> ended -> queued.
EndCommits(r) ==
  /\ Ends(r) /\ r.stage = "checked" /\ CanMove(status[r.m], "end")
  /\ status' = [status EXCEPT ![r.m] = After("enqueue")]
  /\ ended' = ended \cup {r.m}
  /\ Reply(r, Succeeds(r))
  /\ UNCHANGED <<rows, consent, saved, gone, bounds>>

EndRefused(r) ==
  /\ Ends(r) /\ r.stage \in {"new", "checked"} /\ ~CanMove(status[r.m], "end")
  /\ Reply(r, IF Deleted(r) THEN NotFound(r)
              ELSE IF r.kind = "end" THEN Succeeds(r) ELSE FailsForNow)
  /\ UNCHANGED <<status, rows, consent, history, bounds>>

\* The API died under the request.
ConnectionLost(r) ==
  /\ r.stage = "lost" /\ Reply(r, Offline)
  /\ UNCHANGED <<status, rows, consent, history, bounds>>

Serve(r) == \/ ServeCreate(r) \/ ServeMove(r) \/ ServeBulk(r) \/ EndFlushes(r)
            \/ EndScans(r) \/ EndCommits(r) \/ EndRefused(r) \/ ConnectionLost(r)

\* A 5xx before anything was committed.
ServerError(r) ==
  /\ Fault /\ Reply(r, FailsForNow)
  /\ UNCHANGED <<status, rows, consent, history>>

\* The phone gives up on an answer; the request may still be served, or not.
TimesOut(r) ==
  /\ Fault /\ r.waiting
  /\ http' = (http \ {r}) \cup {[r EXCEPT !.waiting = FALSE]} /\ Offline
  /\ UNCHANGED <<status, rows, consent, history>>
Vanishes(r) ==
  /\ ~r.waiting /\ Answered(r)
  /\ UNCHANGED <<disk, live, pass, flight, socket, server, history, bounds>>

-----------------------------------------------------------------------------
(* The socket and the segment ingest.                                       *)

SocketDown == inFlight' = {} /\ stale' = {} /\ Kicked

\* join_meeting on every (re)connect; refused once the meeting is deleted.
Join ==
  /\ conn = "open" /\ status[room] # "none"
  /\ conn' = "joined" /\ Kicked
  /\ UNCHANGED <<disk, live, flight, room, up, down, server, http, history, bounds>>

\* The network; socket.io connects again by itself.
Disconnect ==
  /\ Fault /\ conn \in Joined
  /\ Hangup("open") /\ SocketDown
  /\ UNCHANGED <<disk, live, bulkOnly, room, status, rows, consent, http, history>>

\* The token of a handshake lasts for much longer than a segment and its answer take:
\* it is young until the server has answered once, or nothing was to be sent.
Ages == conn' = IF conn = "joined" THEN "aged" ELSE conn
TimePasses ==
  /\ conn = "joined" /\ pending[room] = {} /\ Ages
  /\ UNCHANGED <<disk, live, pass, flight, room, up, down, server, http, history, bounds>>

\* TOKEN_EXPIRED: the segment is refused and the socket closed; the phone gets a
\* fresh token, connects and joins again.
TokenExpired(s) ==
  /\ s \in up /\ conn = "aged"
  /\ Hangup("open") /\ inFlight' = {} /\ stale' = {}
  /\ Kick /\ timer' = TRUE
  /\ UNCHANGED <<disk, live, cur, todo, retry, bulkOnly, room, status, rows, consent, http, history, bounds>>

\* A segment waits in the batch writer, unless the meeting is over its rate.
Receive(s) ==
  /\ s \in up /\ up' = up \ {s}
  /\ \/ /\ buffer' = buffer \cup {[m |-> room, seq |-> s, live |-> TRUE]}
        /\ UNCHANGED <<down, bounds>>
     \/ /\ Fault /\ down' = down \cup {[kind |-> "limited", seq |-> s]}
        /\ UNCHANGED buffer
  /\ UNCHANGED <<disk, live, pass, flight, conn, room, status, rows, consent, http, history>>

\* 200 ms later; the transaction may fail as a whole.
WindowEnds(m) ==
  /\ BatchOf(m) # {}
  /\ \/ WriteBatch(m, status[m] \in AcceptsSegments) /\ UNCHANGED bounds
     \/ Fault /\ WriteBatch(m, FALSE)
  /\ UNCHANGED <<disk, live, pass, flight, conn, room, up, status, consent, http, history>>

ClientAck(a) ==
  /\ a \in down /\ a.kind = "ack" /\ down' = down \ {a}
  /\ inFlight' = inFlight \ {a.seq} /\ stale' = stale \ {a.seq}
  /\ pending' = [pending EXCEPT ![room] = @ \ {a.seq}]
  /\ Ages /\ Kicked
  /\ UNCHANGED <<local, created, lastSeq, ops, blocked, live, bulkOnly, room, up, server, http, history, bounds>>

ClientError(a) ==
  /\ a \in down /\ a.kind # "ack" /\ down' = down \ {a}
  /\ inFlight' = inFlight \ {a.seq} /\ stale' = stale \ {a.seq}
  /\ bulkOnly' = (bulkOnly \/ a.kind = "limited") /\ timer' = TRUE /\ Ages
  /\ UNCHANGED <<disk, live, pc, cur, todo, retry, again, room, up, server, http, history, bounds>>

\* The API process dies: its buffer, its connections and the requests it was serving.
ApiCrashes ==
  /\ Fault
  /\ buffer' = {} /\ up' = {} /\ down' = {}
  /\ http' = {[r EXCEPT !.stage = "lost"] : r \in http}
  /\ IF room = None THEN UNCHANGED <<conn, pass, inFlight, stale>>
                    ELSE conn' = "open" /\ SocketDown
  /\ UNCHANGED <<disk, live, bulkOnly, room, status, rows, consent, history>>

-----------------------------------------------------------------------------
(* The rest of the world.                                                   *)

SetStatus(m, s) == status' = [status EXCEPT ![m] = s]
OnPhone == <<disk, live, pass, flight, socket>>

\* closeAbandonedMeetings: nothing was heard of the meeting for 24 hours.
AutoClose(m) ==
  /\ "auto_close" \in Env /\ status[m] \in Live
  /\ BatchOf(m) = {} /\ \A r \in http : r.m # m
  /\ SetStatus(m, After("enqueue"))
  /\ UNCHANGED <<OnPhone, rows, buffer, consent, http, history, bounds>>

StartProcessing(m) ==
  /\ status[m] = "queued" /\ SetStatus(m, After("start_processing"))
  /\ UNCHANGED <<OnPhone, rows, buffer, consent, http, history, bounds>>

\* A physical delete: the segments go with the row.
Delete(m) ==
  /\ status[m] # "none" /\ IF "delete" \in Env THEN UNCHANGED bounds ELSE Fault
  /\ SetStatus(m, "none") /\ rows' = [rows EXCEPT ![m] = [s \in Seqs |-> "none"]]
  /\ gone' = gone \cup {m}
  /\ UNCHANGED <<OnPhone, buffer, consent, http, saved, ended>>

\* A release asks for consent to a new text; the user gives it in the app.
ConsentChanges ==
  /\ "new_consent" \in Env /\ consent /\ consent' = FALSE
  /\ UNCHANGED <<OnPhone, status, rows, buffer, http, history, bounds>>
AcceptConsent ==
  /\ ~consent /\ consent' = TRUE
  /\ UNCHANGED <<OnPhone, status, rows, buffer, http, history, bounds>>

\* "Kết thúc" on a meeting only the server knows.
EndElsewhere(m) ==
  /\ m \in Adopted /\ status[m] \in Live /\ local[m] = "none"
  /\ SetStatus(m, After("enqueue"))
  /\ UNCHANGED <<OnPhone, rows, buffer, consent, http, history, bounds>>

User(m) == \/ Start(m) \/ EndUnfinished(m) \/ ResumeUnfinished(m)
           \/ Delete(m) \/ EndElsewhere(m)
Worker == StartPass \/ NextMeeting \/ ReplayOps \/ SendOnSocket \/ SendBulk \/ NothingToSend \/ SendEnd
ServeAny == \E r \in http : Serve(r)
Incoming == \E a \in down : ClientAck(a) \/ ClientError(a)
ReceiveAny == \E s \in up : Receive(s)
ExpireAny == \E s \in up : TokenExpired(s)
Faulty == \/ AppDies \/ Disconnect \/ ApiCrashes
          \/ \E r \in http : ServerError(r) \/ TimesOut(r) \/ Vanishes(r)

Next == \/ \E m \in Meetings : User(m) \/ WindowEnds(m) \/ AutoClose(m) \/ StartProcessing(m)
        \/ Hear \/ \E op \in {"pause", "resume", "end"} : Press(op)
        \/ Worker \/ TimerFires \/ InFlightExpires \/ BulkMinuteEnds
        \/ ServeAny \/ Join \/ TimePasses \/ ReceiveAny \/ ExpireAny \/ Incoming
        \/ ConsentChanges \/ AcceptConsent \/ Faulty

Spec == Init /\ [][Next]_vars

\* The event loops of the phone and of the API go on, timers fire, messages that
\* are not lost arrive.  Nothing is owed by the user, nor by what fails; the socket
\* need not come back, since without it the worker uses the bulk path.  A socket that
\* sends for ever outlives its token: of the segments it sends, one is refused for it.
Fairness ==
  /\ WF_vars(Worker) /\ WF_vars(TimerFires) /\ WF_vars(InFlightExpires)
  /\ WF_vars(ServeAny) /\ WF_vars(ReceiveAny) /\ WF_vars(Incoming) /\ SF_vars(ExpireAny)
  /\ \A m \in Meetings : WF_vars(WindowEnds(m))
FairSpec == Spec /\ Fairness

-----------------------------------------------------------------------------
(* Properties                                                               *)

\* The state of the phone, the wires and the server keeps its shape, and the
\* worker's pass only waits while a request of the meeting it syncs is out.
TypeOK ==
  /\ local \in [Meetings -> {"none", "recording", "paused", "ending"}]
  /\ created \in [Meetings -> BOOLEAN] /\ blocked \in [Meetings -> BOOLEAN]
  /\ lastSeq \in [Meetings -> 0..MaxSeq] /\ pending \in [Meetings -> SUBSET Seqs]
  /\ ops \in [Meetings -> Seq({"pause", "resume", "end"})]
  /\ live \in Meetings \cup {None} /\ cur \in Meetings \cup {None} /\ todo \subseteq Meetings
  /\ pc \in {"idle", "start", "next", "ops", "send", "bulk", "end", "wait"}
  /\ retry \in BOOLEAN /\ again \in BOOLEAN /\ timer \in BOOLEAN /\ bulkOnly \in BOOLEAN
  /\ inFlight \subseteq Seqs /\ stale \subseteq inFlight
  /\ conn \in {"closed", "open", "joined", "aged"} /\ room \in Meetings \cup {None} /\ up \subseteq Seqs
  /\ down \subseteq [kind : {"ack", "error", "limited"}, seq : Seqs]
  /\ status \in [Meetings -> Statuses \cup {"none"}]
  /\ rows \in [Meetings -> [Seqs -> {"none", "here", "there"}]]
  /\ buffer \subseteq [m : Meetings, seq : Seqs, live : BOOLEAN]
  /\ http \subseteq Requests /\ consent \in BOOLEAN
  /\ saved \in [Meetings -> SUBSET Seqs] /\ gone \subseteq Meetings /\ ended \subseteq Meetings
  /\ faults \in 0..MaxFaults /\ presses \in 0..MaxPresses
  /\ (pc = "wait") = (\E r \in http : r.waiting) /\ \A r \in http : r.waiting => r.m = cur

\* segment-queue.ts, ackSegments: a line leaves the phone only once PostgreSQL
\* holds it, whatever is lost, resent, restarted or crashes in between; only a
\* meeting its user deleted may take its lines with it.
NoLoss ==
  \A m \in Meetings \ gone : \A s \in saved[m] : s \in pending[m] \/ rows[m][s] = "here"

\* meetings.service.ts, end (US-16): what the pipeline reads of a meeting this
\* phone ended is every line it saved.
TranscriptComplete ==
  \A m \in ended \ gone : status[m] = "processing" => \A s \in saved[m] : rows[m][s] = "here"

\* sync-worker.ts, replay: `end` without last_seq is sent only if the server lost
\* rows it had acked, which it never does as long as no meeting is deleted.
NeverEndsAnyway == gone = {} => \A r \in http : r.kind # "endAnyway"

\* sync-worker.ts: a meeting ended on the phone is synced and leaves the phone in
\* the end, once requests, sockets and processes stop failing, also when it was deleted
\* on another device while its segments were on the socket.
Synced == \A m \in Meetings : local[m] = "ending" ~> local[m] = "none"

\* system-architecture.md, the queue of the offline phone: what is kept while the
\* connection is away is sent when it is back.
BacklogIsSent == \A m \in Meetings : pending[m] # {} ~> pending[m] = {}

\* sync-errors.ts, `blocked`: the meeting is refused until the user gives consent.
BlockedUntilConsent == \A m \in Meetings : blocked[m] ~> (~blocked[m] \/ ~consent)
=============================================================================

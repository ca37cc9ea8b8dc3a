---------------------------- MODULE StreamEngine ----------------------------
(***************************************************************************)
(* Recognition by the server over a live stream, on the phone: the engine  *)
(* (server-stream-stt-engine.ts), the /stt-stream socket it opens          *)
(* (server-stream-stt-channel.ts) and the audio that waits while the link  *)
(* is down (server-stream-stt-uplink.ts).                                  *)
(*                                                                         *)
(* A run is one accepted start(), numbered by `epoch`.  Every              *)
(* channel.open() has a number, which is also its socket's.  Audio is a    *)
(* sequence of numbered frames; connecting, the acknowledgement and the    *)
(* back-off take any time.                                                 *)
(***************************************************************************)
EXTENDS Naturals, Sequences

CONSTANTS
  Attempts,    \* reconnectDelays.length
  Backlog,     \* maxBacklogMs, in frames
  MaxRuns,     \* bound: runs
  MaxOpens,    \* bound: calls of channel.open
  MaxFrames    \* bound: frames spoken

ASSUME StreamAssumption == Attempts \in Nat /\ Backlog \in Nat

VARIABLES
  streamState,       \* State: "idle" | "starting" | "recording" | "stopping"
  epoch,
  stopRequested,
  reconnecting,
  droppedStarting,   \* droppedWhileStarting
  loops,             \* the calls of reconnect() that went on: [run, left, at]
  opens,             \* the calls of channel.open: [run, by, at]; `by` a loop, or 0 for run()
  socket,            \* the channel's socket, 0 for null
  linked,            \* sockets that are connected
  ended,             \* sockets whose stream the server has ended, their token expired
  mic,               \* the microphone and the run it was opened for: [at, run]
  online,            \* the uplink's flag, its queue and whether it dropped audio
  queue,
  dropped,
  spoken,            \* frames spoken
  sent,              \* history: frames that left, with their run and whether a stop sent
                     \* them, and the gaps reported, as frame 0
  crowded            \* history: runs that began while work of an earlier one was pending

streamVars == <<streamState, epoch, stopRequested, reconnecting, droppedStarting, loops, opens,
                socket, linked, ended, mic, online, queue, dropped, spoken, sent, crowded>>

uplinkVars == <<online, queue, dropped, sent>>
linkVars == <<opens, socket, linked, ended>>

MicOff == [at |-> "off", run |-> 0]

StreamInit ==
  /\ streamState = "idle" /\ epoch = 0 /\ stopRequested = FALSE
  /\ reconnecting = FALSE /\ droppedStarting = FALSE
  /\ loops = <<>> /\ opens = <<>> /\ socket = 0 /\ linked = {} /\ ended = {}
  /\ mic = MicOff /\ online = TRUE /\ queue = <<>> /\ dropped = FALSE
  /\ spoken = 0 /\ sent = <<>> /\ crowded = {}

Live(e) == e = epoch /\ streamState \in {"starting", "recording"}

-----------------------------------------------------------------------------
(* The uplink.                                                             *)

\* channel.send() to no socket, to a dead one, or to an ended stream, loses the frame.
Leaves(frames, tail) ==
  IF socket \in linked \ ended
    THEN [i \in DOMAIN frames |-> [n |-> frames[i].n, run |-> frames[i].run, tail |-> tail]]
    ELSE <<>>

Lowest(frames) == SubSeq(frames, Len(frames) - Backlog + 1, Len(frames))

Push(frame) ==
  LET more == Append(queue, frame) IN
  IF online
    THEN queue' = <<>> /\ sent' = sent \o Leaves(more, FALSE) /\ UNCHANGED <<online, dropped>>
  ELSE IF Len(more) > Backlog
    THEN queue' = Lowest(more) /\ dropped' = TRUE /\ UNCHANGED <<online, sent>>
  ELSE queue' = more /\ UNCHANGED <<online, dropped, sent>>

GapMark == IF dropped THEN <<[n |-> 0, run |-> epoch, tail |-> FALSE]>> ELSE <<>>

-----------------------------------------------------------------------------
(* The channel.                                                            *)

\* close(): the socket is forgotten first, so that its disconnect is not taken for a drop.
Close == socket' = 0 /\ linked' = linked \ {socket}

\* open() closes what there is and connects.
OpenChannel(run, by) ==
  /\ Len(opens) < MaxOpens
  /\ opens' = Append(opens, [run |-> run, by |-> by, at |-> "connecting"])
  /\ Close

OpenOver(i) == [opens EXCEPT ![i].at = "over"]

-----------------------------------------------------------------------------
(* The ends of a run.                                                      *)

\* A stop of the microphone that comes while it is being opened may come too early.
Released == {MicOff} \cup (IF mic.at = "opening" THEN {mic} ELSE {})

\* fail(): release the microphone and the socket, report the error, then the end.
Fail(e) ==
  IF ~Live(e) THEN UNCHANGED <<streamState, mic>>
  ELSE /\ streamState' = "idle"
       /\ mic' \in Released

\* release() closes the channel too.
Hangup(e, link, live) ==
  IF Live(e) THEN socket' = 0 /\ linked' = live \ {link}
             ELSE socket' = link /\ linked' = live

\* reconnect(): the link is down, the audio waits.
Reconnect(e) ==
  IF reconnecting \/ ~Live(e) \/ streamState # "recording"
    THEN UNCHANGED <<reconnecting, online, loops>>
    ELSE /\ reconnecting' = TRUE /\ online' = FALSE
         /\ loops' = Append(loops, [run |-> e, left |-> Attempts, at |-> "delay"])

\* shutdown(): the microphone stops and the tail goes out; then the server flushes its words.
ShutDown ==
  /\ streamState' = "stopping" /\ mic' = MicOff
  /\ online' = TRUE /\ queue' = <<>> /\ sent' = sent \o Leaves(queue, TRUE)
  /\ UNCHANGED dropped

-----------------------------------------------------------------------------
(* start() and stop().                                                     *)

Pending ==
  (\E i \in DOMAIN opens : opens[i].at # "over") \/ (\E k \in DOMAIN loops : loops[k].at # "over")

StreamStart ==
  /\ streamState = "idle" /\ epoch < MaxRuns
  /\ crowded' = IF Pending THEN crowded \cup {epoch + 1} ELSE crowded
  /\ epoch' = epoch + 1 /\ stopRequested' = FALSE
  /\ reconnecting' = FALSE /\ droppedStarting' = FALSE
  /\ \/ streamState' = "starting" /\ OpenChannel(epoch + 1, 0) /\ UNCHANGED <<mic>>
     \/ \* verifyOwner: another account is signed in
        /\ streamState' = "idle"
        /\ mic' = MicOff /\ Close /\ UNCHANGED opens
  /\ UNCHANGED <<ended, loops, uplinkVars, spoken>>

StreamStop ==
  /\ streamState \in {"starting", "recording"} /\ ~stopRequested
  /\ stopRequested' = TRUE
  /\ IF streamState = "recording" THEN ShutDown ELSE UNCHANGED <<streamState, mic, uplinkVars>>
  /\ UNCHANGED <<epoch, reconnecting, droppedStarting, loops, linkVars, spoken, crowded>>

\* The server flushed, or the flush timed out.
Flushed ==
  /\ streamState = "stopping"
  /\ streamState' = "idle" /\ Close
  /\ UNCHANGED <<epoch, stopRequested, reconnecting, droppedStarting, loops, opens, ended, mic,
                 uplinkVars, spoken, crowded>>

-----------------------------------------------------------------------------
(* channel.open() goes on: it connects, then waits for the acknowledgement. *)

Connected(i) ==
  /\ opens[i].at = "connecting"
  /\ opens' = [opens EXCEPT ![i].at = "ack"]
  /\ socket' = i /\ linked' = linked \cup {i}
  /\ UNCHANGED <<streamState, epoch, stopRequested, reconnecting, droppedStarting, loops, ended,
                 mic, uplinkVars, spoken, crowded>>

\* The microphone is opened if the run still waits for it.
OpenedRun(e) ==
  mic' = IF e = epoch /\ streamState = "starting" THEN [at |-> "opening", run |-> e] ELSE mic

\* Mutant: the audio lost while the link was down is not reported.
BadReopened_NoGap(e) ==
  IF ~Live(e) THEN UNCHANGED uplinkVars
  ELSE /\ online' = TRUE /\ dropped' = FALSE /\ queue' = <<>>
       /\ sent' = sent \o Leaves(queue, FALSE)

\* A loop reopened the link: report what was lost, then send what waited.
Reopened(e) ==
  IF ~Live(e) THEN UNCHANGED uplinkVars
  ELSE /\ online' = TRUE /\ dropped' = FALSE /\ queue' = <<>>
       /\ sent' = sent \o (GapMark \o Leaves(queue, FALSE))

Later(loop) == [loop EXCEPT !.left = @ - 1, !.at = "delay"]

LoopOver(k) == [loops EXCEPT ![k].at = "over"]

Acked(i) ==
  /\ opens[i].at = "ack" /\ i \in linked
  /\ opens' = OpenOver(i)
  /\ IF opens[i].by = 0
       THEN OpenedRun(opens[i].run) /\ UNCHANGED <<reconnecting, loops, uplinkVars>>
       ELSE /\ Reopened(opens[i].run) /\ UNCHANGED mic
            /\ loops' = LoopOver(opens[i].by) /\ reconnecting' = FALSE
  /\ UNCHANGED <<streamState, epoch, stopRequested, droppedStarting, socket, linked, ended, spoken,
                 crowded>>

\* A loop tries again until its delays are used up.
TryAgain(k, link, live) ==
  IF loops[k].left > 1
    THEN /\ loops' = [loops EXCEPT ![k] = Later(@)]
         /\ socket' = link /\ linked' = live
         /\ UNCHANGED <<reconnecting, streamState, mic>>
    ELSE /\ loops' = LoopOver(k) /\ reconnecting' = FALSE
         /\ Fail(loops[k].run) /\ Hangup(loops[k].run, link, live)

\* No connection, or no acknowledgement: then whatever socket the channel has is closed.
OpenFails(i) ==
  /\ opens[i].at \in {"connecting", "ack"}
  /\ opens' = OpenOver(i)
  /\ LET link == IF opens[i].at = "ack" THEN 0 ELSE socket
         live == IF opens[i].at = "ack" THEN linked \ {socket} ELSE linked
     IN IF opens[i].by = 0
          THEN /\ Fail(opens[i].run) /\ Hangup(opens[i].run, link, live)
               /\ UNCHANGED <<reconnecting, loops>>
          ELSE TryAgain(opens[i].by, link, live)
  /\ UNCHANGED <<epoch, stopRequested, droppedStarting, ended, uplinkVars, spoken, crowded>>

\* A back-off is over: give up with the run, stop for another owner, or open a new link.
DelayOver(k) ==
  /\ loops[k].at = "delay"
  /\ LET e == loops[k].run IN
     \/ /\ ~(Live(e) /\ streamState = "recording")
        /\ loops' = LoopOver(k) /\ reconnecting' = FALSE
        /\ UNCHANGED <<streamState, mic, opens, socket, linked>>
     \/ /\ Live(e) /\ streamState = "recording"
        /\ loops' = LoopOver(k) /\ reconnecting' = FALSE
        /\ Fail(e) /\ Hangup(e, socket, linked) /\ UNCHANGED opens
     \/ /\ Live(e) /\ streamState = "recording"
        /\ OpenChannel(e, k) /\ loops' = [loops EXCEPT ![k].at = "open"]
        /\ UNCHANGED <<reconnecting, streamState, mic>>
  /\ UNCHANGED <<epoch, stopRequested, droppedStarting, ended, uplinkVars, spoken, crowded>>

-----------------------------------------------------------------------------
(* The microphone.                                                         *)

\* mic.start() resolves: recording begins unless the run is over.  A stop pressed meanwhile is
\* acted on, else a drop.
MicOpened ==
  /\ mic.at = "opening"
  /\ IF ~(streamState = "starting" /\ mic.run = epoch)
       THEN mic' = [mic EXCEPT !.at = "on"] /\ UNCHANGED <<streamState, reconnecting, loops, uplinkVars>>
     ELSE IF stopRequested
       THEN ShutDown /\ UNCHANGED <<reconnecting, loops>>
     ELSE /\ mic' = [mic EXCEPT !.at = "on"] /\ streamState' = "recording"
          /\ IF droppedStarting /\ ~reconnecting
               THEN /\ reconnecting' = TRUE /\ online' = FALSE
                    /\ loops' = Append(loops, [run |-> epoch, left |-> Attempts, at |-> "delay"])
               ELSE UNCHANGED <<reconnecting, online, loops>>
          /\ UNCHANGED <<queue, dropped, sent>>
  /\ UNCHANGED <<epoch, stopRequested, droppedStarting, linkVars, spoken, crowded>>

MicFails ==
  /\ mic.at = "opening"
  /\ IF streamState = "starting" /\ mic.run = epoch
       THEN streamState' = "idle" /\ Close
       ELSE UNCHANGED <<streamState, socket, linked>>
  /\ mic' = MicOff
  /\ UNCHANGED <<epoch, stopRequested, reconnecting, droppedStarting, loops, opens, ended,
                 uplinkVars, spoken, crowded>>

Speak ==
  /\ mic = [at |-> "on", run |-> epoch] /\ streamState = "recording" /\ spoken < MaxFrames
  /\ spoken' = spoken + 1
  /\ Push([n |-> spoken + 1, run |-> epoch])
  /\ UNCHANGED <<streamState, epoch, stopRequested, reconnecting, droppedStarting, loops,
                 linkVars, mic, crowded>>

-----------------------------------------------------------------------------
(* The link.                                                               *)

\* The connection drops.  Only the channel's own socket reports it (onDown).
Drops(i) ==
  /\ i \in linked
  /\ linked' = linked \ {i}
  /\ IF socket # i THEN UNCHANGED <<droppedStarting, reconnecting, online, loops>>
     ELSE IF streamState = "starting"
       THEN droppedStarting' = TRUE /\ UNCHANGED <<reconnecting, online, loops>>
     ELSE Reconnect(opens[i].run) /\ UNCHANGED droppedStarting
  /\ UNCHANGED <<streamState, epoch, stopRequested, opens, socket, ended, mic, queue, dropped,
                 spoken, sent, crowded>>

\* onFatal: an expired token is a reason to reconnect, anything else ends the run: so does a
\* frame that reaches a stream which has ended.
ServerEnds(i) ==
  /\ i \in linked /\ i = socket
  /\ \/ /\ opens[i].at = "over" /\ i \notin ended
        /\ Reconnect(opens[i].run) /\ ended' = ended \cup {i}
        /\ UNCHANGED <<streamState, mic, socket, linked>>
     \/ Fail(opens[i].run) /\ Hangup(opens[i].run, socket, linked)
        /\ UNCHANGED <<reconnecting, online, loops, ended>>
  /\ UNCHANGED <<epoch, stopRequested, droppedStarting, opens, queue, dropped, spoken, sent,
                 crowded>>

StreamNext ==
  \/ StreamStart \/ StreamStop \/ Flushed \/ MicOpened \/ MicFails \/ Speak
  \/ \E i \in DOMAIN opens : Connected(i) \/ Acked(i) \/ OpenFails(i) \/ Drops(i) \/ ServerEnds(i)
  \/ \E k \in DOMAIN loops : DelayOver(k)

StreamSpec == StreamInit /\ [][StreamNext]_streamVars

-----------------------------------------------------------------------------
(* Properties.                                                             *)

\* Audio leaves in the order it was spoken, and where frames of one run are missing between
\* two that left while it recorded, a gap was reported between them
\* (server-stream-stt-uplink.ts).  What is missing before the tail that a stop sends is not,
\* nor is what an old reconnect() or open() loses that was still pending when the run began.
LossIsShown ==
  \A i, j \in DOMAIN sent :
    (i < j /\ sent[i].n # 0 /\ sent[j].n # 0) =>
      /\ sent[i].n < sent[j].n
      /\ (sent[i].run = sent[j].run /\ j = i + 1 /\ ~sent[j].tail /\ sent[j].run \notin crowded)
            => sent[j].n = sent[i].n + 1

\* What the engine says of onStart: "once audio is flowing".  While a run records and nobody is
\* reconnecting, what is spoken is sent.
AudioFlows == (streamState = "recording" /\ ~reconnecting) => online
=============================================================================

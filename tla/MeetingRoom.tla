---------------------------- MODULE MeetingRoom ----------------------------
(***************************************************************************)
(* A screen that follows one meeting while the server works on it          *)
(* (recording-done.tsx, meeting-detail.tsx): its query for the meeting     *)
(* (use-meeting-detail-query.ts), and the socket that has the query run    *)
(* again whenever the room hears of progress (use-meeting-room-socket.ts,  *)
(* meeting.gateway.ts, ws-auth.middleware.ts, meeting-room.notifier.ts).   *)
(*                                                                         *)
(* What the screen shows is the number of status changes its data holds,   *)
(* -1 before the first answer.  Requests and the socket share the session: *)
(* an access token expires, one refresh at a time renews it, and the       *)
(* renewed token has the hook open another socket.                         *)
(***************************************************************************)
EXTENDS Integers, Sequences

CONSTANTS
  MaxStatuses,     \* bound: status changes of the meeting
  MaxRoomTrouble   \* bound: lost connections and requests, expiries, restarts, visits

VARIABLES
  progress,   \* status changes committed
  announced,  \* of those, announced to the room
  room,       \* the socket is in the meeting's room
  wire,       \* announcements on their way to the phone
  sock,       \* "off" (no screen) | "connecting" | "joining" | "open" | "refreshing" | "dead"
  access,     \* the access token in the session store: "good" | "expired"
  page,       \* the query's data: [v, old]; `old` is isInvalidated
  fetch,      \* its request: [st, v], st "none" | "asked" | "answered"
  missed,     \* history: a change was committed after the screen's data was read, and the room did not tell
  raced,      \* history: a change was heard while the first answer, which is older, was on its way
  roomTrouble

roomVars == <<progress, announced, room, wire, sock, access, page, fetch, missed, raced, roomTrouble>>

Asked == [st |-> "asked", v |-> 0]
NoFetch == [st |-> "none", v |-> 0]

\* The screen mounts: the query asks, the socket connects.
RoomInit ==
  /\ progress = 0 /\ announced = 0 /\ room = FALSE /\ wire = <<>>
  /\ sock = "connecting" /\ access = "good"
  /\ page = [v |-> -1, old |-> FALSE] /\ fetch = Asked
  /\ missed = FALSE /\ raced = FALSE /\ roomTrouble = 0

RoomTrouble == roomTrouble < MaxRoomTrouble /\ roomTrouble' = roomTrouble + 1

\* The socket is gone for the server, and with it what was on its way.
OutOfRoom == room' = FALSE /\ wire' = <<>> /\ missed' = (missed \/ wire # <<>>)

-----------------------------------------------------------------------------
(* The server.                                                             *)

\* The pipeline commits a status; it announces each before the next.
StatusChanges ==
  /\ announced = progress /\ progress < MaxStatuses /\ progress' = progress + 1
  /\ UNCHANGED <<announced, room, wire, sock, access, page, fetch, missed, raced, roomTrouble>>

\* MeetingRoomNotifier: to whoever is in the room.
Announce ==
  /\ announced < progress /\ announced' = progress
  /\ wire' = IF room THEN Append(wire, progress) ELSE wire
  /\ missed' = (missed \/ ~room)
  /\ UNCHANGED <<progress, room, sock, access, page, fetch, raced, roomTrouble>>

\* The process restarts: what was committed and not announced never is.
ServerRestarts ==
  /\ RoomTrouble
  /\ announced' = progress /\ room' = FALSE /\ wire' = <<>>
  /\ missed' = (missed \/ wire # <<>> \/ announced < progress)
  /\ sock' = IF sock \in {"joining", "open"} THEN "connecting" ELSE sock
  /\ UNCHANGED <<progress, access, page, fetch, raced>>

\* MeetingGateway.join; a refusal (a failed read of the meeting) leaves the socket open outside the room.
Joined(ok) ==
  /\ sock = "joining" /\ sock' = "open" /\ room' = ok
  /\ IF ok THEN UNCHANGED roomTrouble ELSE RoomTrouble
  /\ UNCHANGED <<progress, announced, wire, access, page, fetch, missed, raced>>

-----------------------------------------------------------------------------
(* The socket of the hook.                                                 *)

\* The handshake carries the store's token; a refused one starts the recovery.
Handshake ==
  /\ sock = "connecting"
  /\ sock' = IF access = "good" THEN "joining" ELSE "refreshing"
  /\ UNCHANGED <<progress, announced, room, wire, access, page, fetch, missed, raced, roomTrouble>>

\* A lost connection is tried again, one the server closed is recovered.
Disconnected ==
  /\ sock \in {"joining", "open"} /\ RoomTrouble
  /\ sock' \in {"connecting", "refreshing"}
  /\ OutOfRoom
  /\ UNCHANGED <<progress, announced, access, page, fetch, raced>>

\* recoverFromExpiredToken: another socket with the new token, or none any more.
Recovered(ok) ==
  /\ sock = "refreshing"
  /\ IF ok THEN sock' = "connecting" /\ access' = "good" /\ UNCHANGED roomTrouble
     ELSE sock' = "dead" /\ RoomTrouble /\ UNCHANGED access
  /\ UNCHANGED <<progress, announced, room, wire, page, fetch, missed, raced>>

BadInvalidated_KeepsFetch == IF fetch.st # "none" THEN fetch ELSE Asked

\* invalidateQueries: a first request under way is left alone, any other asked again.
Invalidated ==
  IF page.v = -1 /\ fetch.st # "none" THEN fetch ELSE Asked

\* processing_status or meeting_ready.
Hear ==
  /\ wire # <<>> /\ wire' = Tail(wire)
  /\ page' = [page EXCEPT !.old = TRUE] /\ fetch' = Invalidated
  /\ raced' = (raced \/ (page.v = -1 /\ fetch.st = "answered" /\ fetch.v < Head(wire)))
  /\ UNCHANGED <<progress, announced, room, sock, access, missed, roomTrouble>>

-----------------------------------------------------------------------------
(* The query of the screen.                                                *)

\* GET /meetings/:id reads the meeting.
FetchServed ==
  /\ fetch.st = "asked" /\ access = "good"
  /\ fetch' = [st |-> "answered", v |-> progress]
  /\ missed' = FALSE /\ raced' = FALSE
  /\ UNCHANGED <<progress, announced, room, wire, sock, access, page, roomTrouble>>

FetchDone ==
  /\ fetch.st = "answered" /\ fetch' = NoFetch
  /\ page' = [v |-> fetch.v, old |-> FALSE]
  /\ UNCHANGED <<progress, announced, room, wire, sock, access, missed, raced, roomTrouble>>

\* The request and its retry failed: the data stays, as old as it was.
FetchFails ==
  /\ fetch.st # "none" /\ RoomTrouble
  /\ fetch' = NoFetch /\ missed' = (missed \/ ~page.old)
  /\ UNCHANGED <<progress, announced, room, wire, sock, access, page, raced>>

TokenExpires ==
  /\ access = "good" /\ RoomTrouble /\ access' = "expired"
  /\ UNCHANGED <<progress, announced, room, wire, sock, page, fetch, missed, raced>>

\* A request's 401 refreshes the token: the hook's effect runs again, with another socket.
RequestRefreshes ==
  /\ access = "expired" /\ fetch.st = "asked" /\ access' = "good"
  /\ IF sock = "off" THEN UNCHANGED <<sock, room, wire, missed>>
     ELSE sock' = "connecting" /\ OutOfRoom
  /\ UNCHANGED <<progress, announced, page, fetch, raced, roomTrouble>>

\* Back in the foreground, or shown again: a query whose data is old asks again.
Focus(stale) ==
  /\ RoomTrouble /\ fetch.st = "none" /\ (stale \/ page.old)
  /\ fetch' = Asked
  /\ UNCHANGED <<progress, announced, room, wire, sock, access, page, missed, raced>>

LeaveScreen ==
  /\ sock # "off" /\ RoomTrouble /\ sock' = "off" /\ OutOfRoom
  /\ UNCHANGED <<progress, announced, access, page, fetch, raced>>

VisitScreen ==
  /\ sock = "off" /\ sock' = "connecting"
  /\ fetch' = IF page.old \/ page.v = -1 THEN Asked ELSE fetch
  /\ UNCHANGED <<progress, announced, room, wire, access, page, missed, raced, roomTrouble>>

RoomNext ==
  \/ StatusChanges \/ Announce \/ ServerRestarts
  \/ Handshake \/ Disconnected \/ Hear
  \/ \E ok \in BOOLEAN : Joined(ok) \/ Recovered(ok) \/ Focus(ok)
  \/ FetchServed \/ FetchDone \/ FetchFails \/ TokenExpires \/ RequestRefreshes
  \/ LeaveScreen \/ VisitScreen

RoomSpec == RoomInit /\ [][RoomNext]_roomVars
-----------------------------------------------------------------------------
Quiet == fetch.st = "none" /\ wire = <<>> /\ announced = progress

(* Once all is quiet the screen shows the meeting's status, with two       *)
(* exceptions.  A change may fall where the room does not reach: between   *)
(* the read of the screen's data and the join, or while the socket was     *)
(* away (`missed`).  And one that is heard while the screen's first GET is *)
(* answered already is lost too: the query, which has no data yet, is not  *)
(* asked again, and the older answer clears the mark (`raced`).  A screen  *)
(* that has data asks again for whatever it hears                          *)
(* (use-meeting-room-socket.ts:121-126).                                   *)
HeardIsShown == Quiet /\ ~missed /\ ~raced /\ ~page.old => page.v = progress
=============================================================================

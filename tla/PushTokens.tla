----------------------------- MODULE PushTokens -----------------------------
(***************************************************************************)
(* Whose notifications one phone gets: the row of its Expo token in        *)
(* push_tokens (push-tokens.controller.ts), the pushCalls the app makes when   *)
(* somebody signs in or leaves (use-push-notifications-lifecycle.ts,       *)
(* push-registration.ts, use-auth-mutations.ts, use-account-mutations.ts), *)
(* and the notifier that drops a token Expo no longer knows                *)
(* (meeting-ready.notifier.ts).                                            *)
(*                                                                         *)
(* An installation keeps one Expo token, also over a reinstallation.       *)
(* Nobody signs in before a log-out is over.                               *)
(***************************************************************************)
EXTENDS Integers

CONSTANTS
  Members,     \* accounts used on this phone
  NoMember,
  MaxPushRuns, \* bound: registrations and unregistrations
  MaxLosses    \* bound: lost answers, expired tokens, lost sessions, kills and reinstallations

ASSUME PushAssumption == NoMember \notin Members /\ MaxPushRuns \in Nat /\ MaxLosses \in Nat

VARIABLES
  row,        \* the user of the token's row, NoMember when there is none
  user,       \* the account signed in
  installed,
  going,      \* the log-out or removal in progress: "no", "unregistering" or "telling"
  why,        \* "logout" or "remove"
  pushCalls,  \* runs of register and unregister, and their requests: [kind, by, st, waited, no]
  pushRuns,   \* runs so far
  losses,     \* losses left
  removed,    \* accounts with deleted_at
  notice,     \* a push under way: "none", "read" or "gone"
  registered, \* history: this sign-in's registration was answered, and not taken back
  late,       \* history: a call or a push was overtaken by this sign-in, restart or unregistration
  cut         \* history: the row was not taken back, and no registration has replaced it

pushVars == <<row, user, installed, going, why, pushCalls, pushRuns, losses, removed, notice,
              registered, late, cut>>

seat == <<user, installed, going, why>>
pushMarks == <<registered, late, cut>>

AnyMember == Members \union {NoMember}
PushCalls ==
  [kind : {"post", "delete"}, by : AnyMember, st : {"asking", "sent", "done", "refused"},
   waited : BOOLEAN, no : 1..MaxPushRuns]

PushTypeOK ==
  /\ row \in AnyMember /\ user \in AnyMember /\ installed \in BOOLEAN
  /\ going \in {"no", "unregistering", "telling"} /\ why \in {"logout", "remove"}
  /\ pushCalls \subseteq PushCalls /\ pushRuns \in 0..MaxPushRuns /\ losses \in 0..MaxLosses
  /\ removed \subseteq Members /\ notice \in {"none", "read", "gone"}
  /\ registered \in BOOLEAN /\ late \in BOOLEAN /\ cut \in BOOLEAN

PushInit ==
  /\ row = NoMember /\ user = NoMember /\ installed = TRUE /\ going = "no" /\ why = "logout"
  /\ pushCalls = {} /\ pushRuns = 0 /\ losses = MaxLosses /\ removed = {} /\ notice = "none"
  /\ registered = FALSE /\ late = FALSE /\ cut = FALSE

\* A run of registerForPushNotifications or unregisterCurrentPushToken: permission and token first.
Runs(kind, among) ==
  /\ pushRuns < MaxPushRuns /\ pushRuns' = pushRuns + 1
  /\ pushCalls' = among \union {[kind |-> kind, by |-> NoMember, st |-> "asking", waited |-> TRUE,
                             no |-> pushRuns + 1]}
Lose == losses > 0 /\ losses' = losses - 1
------------------------------------------------------------------------------
(* The phone.                                                              *)

\* The status becomes `authenticated`, and the hook registers the device.
EnterAs(p) ==
  /\ user = NoMember /\ going = "no" /\ installed /\ p \notin removed
  /\ user' = p /\ Runs("post", pushCalls)
  /\ registered' = FALSE /\ late' = (pushCalls # {} \/ notice # "none")
  /\ UNCHANGED <<row, installed, going, why, losses, removed, notice, cut>>

BadStartLeaving_ClearsFirst(w) ==
  /\ user # NoMember /\ going = "no"
  /\ going' = "unregistering" /\ why' = w /\ Runs("delete", pushCalls)
  /\ registered' = FALSE /\ late' = (late \/ pushCalls # {}) /\ cut' = (cut \/ pushCalls # {})
  /\ user' = NoMember /\ UNCHANGED <<row, installed, losses, removed, notice>>

\* Logging out, or asking for the account's removal, starts with the unregistration.
StartLeaving(w) ==
  /\ user # NoMember /\ going = "no"
  /\ going' = "unregistering" /\ why' = w /\ Runs("delete", pushCalls)
  /\ registered' = FALSE /\ late' = (late \/ pushCalls # {}) /\ cut' = (cut \/ pushCalls # {})
  /\ UNCHANGED <<row, user, installed, losses, removed, notice>>

\* The interceptor adds the access token there is by now.
Send(c) ==
  /\ c \in pushCalls /\ c.st = "asking"
  /\ pushCalls' = (pushCalls \ {c}) \union {[c EXCEPT !.st = "sent", !.by = user]}
  /\ UNCHANGED <<row, seat, pushRuns, losses, removed, notice, pushMarks>>

\* TOKEN_EXPIRED: the request is sent again as whoever is signed in after the refresh.
SendAgain(c) ==
  /\ c \in pushCalls /\ c.st = "sent" /\ c.waited /\ c.by # NoMember /\ user # NoMember /\ Lose
  /\ pushCalls' = (pushCalls \ {c}) \union {[c EXCEPT !.by = user]}
  /\ UNCHANGED <<row, seat, pushRuns, removed, notice, pushMarks>>

\* unregisterCurrentPushToken is over, however it went.
Unregistered(c) == going' = IF c.kind = "delete" /\ c.waited THEN "telling" ELSE going
MovesHere(c) == c.kind = "post" /\ c.st = "done" /\ c.by = user /\ going = "no"

CallAnswered(c) ==
  /\ c \in pushCalls /\ c.st \in {"done", "refused"}
  /\ pushCalls' = pushCalls \ {c} /\ Unregistered(c)
  /\ registered' = (registered \/ MovesHere(c)) /\ cut' = (cut /\ (late \/ ~MovesHere(c)))
  /\ UNCHANGED <<row, user, installed, why, pushRuns, losses, removed, notice, late>>

\* No permission, no token.
NotAsked(c) ==
  /\ c \in pushCalls /\ c.st = "asking" /\ pushCalls' = pushCalls \ {c} /\ Unregistered(c)
  /\ cut' = (cut \/ c.kind = "delete")
  /\ UNCHANGED <<row, user, installed, why, pushRuns, losses, removed, notice, registered, late>>

\* The request, or its answer, is lost; a request that is still on its way may arrive.
CallLost(c) ==
  /\ c \in pushCalls /\ c.waited /\ c.st # "asking" /\ Lose /\ Unregistered(c)
  /\ pushCalls' = (pushCalls \ {c}) \union
       (IF c.st = "sent" THEN {[c EXCEPT !.waited = FALSE]} ELSE {})
  /\ cut' = (cut \/ c.kind = "delete")
  /\ UNCHANGED <<row, user, installed, why, pushRuns, removed, notice, registered, late>>

\* UNREGISTER_TIMEOUT_MS: the log-out goes on, and so does the call.
TimedOut(c) ==
  /\ c \in pushCalls /\ c.kind = "delete" /\ c.waited /\ Lose /\ Unregistered(c)
  /\ pushCalls' = (pushCalls \ {c}) \union
       (IF c.st \in {"asking", "sent"} THEN {[c EXCEPT !.waited = FALSE]} ELSE {})
  /\ cut' = TRUE
  /\ UNCHANGED <<row, user, installed, why, pushRuns, removed, notice, registered, late>>

\* onSettled or onSuccess: a log-out always ends the session, a removal when the server agreed.
Left(agreed) ==
  /\ going = "telling" /\ going' = "no"
  /\ user' = IF why = "logout" \/ agreed THEN NoMember ELSE user
  /\ removed' = IF why = "remove" /\ agreed THEN removed \union ({user} \ {NoMember}) ELSE removed
  /\ UNCHANGED <<row, installed, why, pushCalls, pushRuns, losses, notice, pushMarks>>

\* A refresh fails: the interceptor throws the session away.
SessionLost ==
  /\ user # NoMember /\ Lose /\ user' = NoMember /\ registered' = FALSE /\ cut' = TRUE
  /\ UNCHANGED <<row, installed, going, why, pushCalls, pushRuns, removed, notice, late>>

OnTheWay == {[c EXCEPT !.waited = FALSE] : c \in {d \in pushCalls : d.st = "sent"}}

\* The app is killed and opened again: a stored session is authenticated anew.
AppReopened ==
  /\ installed /\ Lose /\ going' = "no" /\ registered' = FALSE
  /\ late' = (late \/ pushCalls # {} \/ notice # "none")
  /\ cut' = (cut \/ pushCalls # {} \/ going # "no")
  /\ IF user # NoMember THEN Runs("post", OnTheWay)
                        ELSE pushCalls' = OnTheWay /\ UNCHANGED pushRuns
  /\ UNCHANGED <<row, user, installed, why, removed, notice>>

Uninstall ==
  /\ installed /\ Lose /\ installed' = FALSE /\ user' = NoMember /\ going' = "no"
  /\ pushCalls' = OnTheWay /\ registered' = FALSE /\ cut' = TRUE
  /\ UNCHANGED <<row, why, pushRuns, removed, notice, late>>
Reinstall ==
  /\ ~installed /\ installed' = TRUE
  /\ UNCHANGED <<row, user, going, why, pushCalls, pushRuns, losses, removed, notice, pushMarks>>
------------------------------------------------------------------------------
(* The server.                                                             *)

\* JwtAuthGuard, then INSERT ... ON CONFLICT DO UPDATE, or the caller's own DELETE.
Serve(c) ==
  /\ c \in pushCalls /\ c.st = "sent"
  /\ row' = CASE c.by = NoMember -> row
              [] c.by # NoMember /\ c.kind = "post" -> c.by
              [] OTHER -> IF row = c.by THEN NoMember ELSE row
  /\ pushCalls' = (pushCalls \ {c}) \union
       (IF c.waited THEN {[c EXCEPT !.st = IF c.by = NoMember THEN "refused" ELSE "done"]} ELSE {})
  /\ UNCHANGED <<seat, pushRuns, losses, removed, notice, pushMarks>>
Vanishes(c) ==
  /\ c \in pushCalls /\ ~c.waited /\ c.st = "sent" /\ pushCalls' = pushCalls \ {c}
  /\ UNCHANGED <<row, seat, pushRuns, losses, removed, notice, pushMarks>>

\* notify reads the tokens, sends, and deletes those whose device is gone, whoever has them by then.
NoticeReads ==
  /\ notice = "none" /\ row # NoMember /\ notice' = "read"
  /\ UNCHANGED <<row, seat, pushCalls, pushRuns, losses, removed, pushMarks>>
NoticeSent ==
  /\ notice = "read" /\ notice' = IF installed THEN "none" ELSE "gone"
  /\ UNCHANGED <<row, seat, pushCalls, pushRuns, losses, removed, pushMarks>>
DropGone ==
  /\ notice = "gone" /\ notice' = "none" /\ row' = NoMember
  /\ UNCHANGED <<seat, pushCalls, pushRuns, losses, removed, pushMarks>>

\* The hard delete of an account, 30 days on, takes its tokens with it (ON DELETE CASCADE).
Cascade(p) ==
  /\ p \in removed /\ row = p /\ (\A c \in pushCalls : c.by # p) /\ row' = NoMember
  /\ UNCHANGED <<seat, pushCalls, pushRuns, losses, removed, notice, pushMarks>>

PushNext ==
  \/ SessionLost \/ AppReopened \/ Uninstall \/ Reinstall \/ NoticeReads \/ NoticeSent \/ DropGone
  \/ \E p \in Members : EnterAs(p) \/ Cascade(p)
  \/ \E w \in {"logout", "remove"} : StartLeaving(w)
  \/ \E agreed \in BOOLEAN : Left(agreed)
  \/ \E c \in pushCalls : Send(c) \/ SendAgain(c) \/ CallAnswered(c) \/ NotAsked(c) \/ CallLost(c)
                      \/ TimedOut(c) \/ Serve(c) \/ Vanishes(c)
PushSpec == PushInit /\ [][PushNext]_pushVars
------------------------------------------------------------------------------
(* A phone gets the notifications of the account that is signed in on it,  *)
(* whatever its last user left behind, once the registration was answered  *)
(* and unless a call from before it is still about; and a phone somebody   *)
(* has left gets none, unless the call that takes the row back failed, was *)
(* given up on or ran into the registration (push-tokens.controller.ts:20, *)
(* push-registration.ts:77-90).                                            *)
PushesFollowTheUser ==
  /\ registered /\ ~late => row = user
  /\ user = NoMember /\ going = "no" /\ ~cut => row = NoMember
=============================================================================

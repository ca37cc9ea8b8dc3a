------------------------------ MODULE Sessions ------------------------------
(***************************************************************************)
(* Signing in and out on one phone that several users share: the server's  *)
(* refresh tokens (auth.service.ts), the phone's token pair in secure      *)
(* storage and in memory (secure-store.ts, session.store.ts,               *)
(* use-auth-mutations.ts, use-hydrate-session.ts), and the requests that   *)
(* carry it (axios-client.ts, refresh-single-flight.ts).                   *)
(*                                                                         *)
(* A refresh token and the access token signed with it (jti) have one      *)
(* number.  Refresh calls of an app that was killed, or that timed out,    *)
(* may still be served.                                                    *)
(***************************************************************************)
EXTENDS Integers, FiniteSets

CONSTANTS
  People,      \* accounts used on this phone
  MaxTokens,   \* bound: refresh tokens issued
  MaxTrouble   \* bound: app deaths, lost answers, log-outs

Tokens == 1..MaxTokens

ASSUME SessionsAssumption == People # {} /\ MaxTokens \in Nat /\ MaxTrouble \in Nat

VARIABLES
  issued,    \* refresh tokens issued so far
  holder,    \* holder[t], family[t]
  family,
  revoked,   \* tokens with revoked_at
  expired,   \* tokens whose access token has expired
  memory,    \* the session store's pair, 0 when signed out
  disk,      \* the secure store's pair
  storing,   \* the pair a sign-in or a refresh has written to disk but not to memory yet
  leaving,   \* the log-out in progress: "no", "asked", "waiting" for a refresh, "retried" or "told"
  refreshing,\* the single flight: the token it presented, 0 when there is none
  asked,     \* refresh requests on their way: [tok, st, new, at]; `at`, the troubles left when it
             \* was sent, tells two for one token apart
  uploads,   \* uploads[u]: [st, tok]: u's queued recording
  trouble,   \* deaths, losses and log-outs left
  landed,    \* history: whose recording went into whose account
  disturbed, \* history: the app died, or gave up on an answer
  alarmed    \* history: a revoked token came back and cost its family a live one

sessionVars == <<issued, holder, family, revoked, expired, memory, disk, storing, leaving,
  refreshing, asked, uploads, trouble, landed, disturbed, alarmed>>

SessionsInit ==
  /\ issued = 0 /\ holder = [t \in Tokens |-> CHOOSE u \in People : TRUE] /\ family = [t \in Tokens |-> t]
  /\ revoked = {} /\ expired = {} /\ memory = 0 /\ disk = 0 /\ storing = 0 /\ leaving = "no"
  /\ refreshing = 0 /\ asked = {} /\ uploads = [u \in People |-> [st |-> "queued", tok |-> 0]]
  /\ trouble = MaxTrouble /\ landed = {} /\ disturbed = FALSE /\ alarmed = FALSE

SessionsTypeOK ==
  /\ issued \in 0..MaxTokens /\ holder \in [Tokens -> People] /\ family \in [Tokens -> Tokens]
  /\ {memory, disk, storing, refreshing} \subseteq 0..issued
  /\ uploads \in [People -> [st : {"queued", "sent", "waiting", "done"}, tok : 0..MaxTokens]]

Issue(u, f) ==
  /\ issued < MaxTokens /\ issued' = issued + 1
  /\ holder' = [holder EXCEPT ![issued + 1] = u] /\ family' = [family EXCEPT ![issued + 1] = f]

\* What waited for a refresh goes on when it is over.
Requeued == [u \in People |-> IF uploads[u].st = "waiting" THEN [st |-> "queued", tok |-> 0] ELSE uploads[u]]
Resumed(how) == IF leaving = "waiting" THEN how ELSE leaving

\* login, register or Google: a new family, stored in two steps.
SignIn(u) ==
  /\ memory = 0 /\ storing = 0 /\ leaving = "no"
  /\ Issue(u, issued + 1) /\ disk' = issued + 1 /\ storing' = issued + 1
  /\ UNCHANGED <<revoked, expired, memory, leaving, refreshing, asked, uploads, trouble, landed,
                 disturbed, alarmed>>
Stored ==
  /\ storing # 0 /\ memory' = storing /\ storing' = 0
  /\ IF refreshing # 0 /\ family[refreshing] = family[storing]
     THEN refreshing' = 0 /\ uploads' = Requeued /\ leaving' = Resumed("retried")
     ELSE UNCHANGED <<refreshing, uploads, leaving>>
  /\ UNCHANGED <<issued, holder, family, revoked, expired, disk, asked, trouble, landed,
                 disturbed, alarmed>>

BadUpload_Unchecked(u) ==
  /\ uploads[u].st = "queued" /\ memory # 0
  /\ uploads' = [uploads EXCEPT ![u] = [st |-> "sent", tok |-> memory]]
  /\ UNCHANGED <<issued, holder, family, revoked, expired, memory, disk, storing, leaving,
                 refreshing, asked, trouble, landed, disturbed, alarmed>>

\* The request interceptor: the token goes out only with its owner's data.
Upload(u) ==
  /\ uploads[u].st = "queued" /\ memory # 0 /\ holder[memory] = u
  /\ uploads' = [uploads EXCEPT ![u] = [st |-> "sent", tok |-> memory]]
  /\ UNCHANGED <<issued, holder, family, revoked, expired, memory, disk, storing, leaving,
                 refreshing, asked, trouble, landed, disturbed, alarmed>>

Expires(t) ==
  /\ t \in 1..issued /\ t \notin expired /\ expired' = expired \union {t}
  /\ UNCHANGED <<issued, holder, family, revoked, memory, disk, storing, leaving, refreshing,
                 asked, uploads, trouble, landed, disturbed, alarmed>>

BadJoinRefresh_EachItsOwn ==
  IF memory = 0 THEN disk' = 0 /\ UNCHANGED <<refreshing, asked, memory>>
  ELSE /\ refreshing' = memory
       /\ asked' = asked \union {[tok |-> memory, st |-> "sent", new |-> 0, at |-> trouble]}
       /\ UNCHANGED <<memory, disk>>

\* performRefresh behind the single flight; without a refresh token it fails at once.
JoinRefresh ==
  IF refreshing # 0 THEN UNCHANGED <<refreshing, asked, memory, disk>>
  ELSE IF memory = 0 THEN disk' = 0 /\ UNCHANGED <<refreshing, asked, memory>>
  ELSE /\ refreshing' = memory
       /\ asked' = asked \union {[tok |-> memory, st |-> "sent", new |-> 0, at |-> trouble]}
       /\ UNCHANGED <<memory, disk>>

\* The server takes the upload, or answers TOKEN_EXPIRED and the request waits for a refresh.
UploadServed(u) ==
  /\ uploads[u].st = "sent"
  /\ IF uploads[u].tok \in expired
     THEN /\ JoinRefresh /\ UNCHANGED landed
          /\ uploads' = [uploads EXCEPT ![u] =
                IF memory = 0 /\ refreshing = 0 THEN [st |-> "queued", tok |-> 0]
                                               ELSE [@ EXCEPT !.st = "waiting"]]
     ELSE /\ landed' = landed \union {<<u, holder[uploads[u].tok]>>}
          /\ uploads' = [uploads EXCEPT ![u].st = "done"]
          /\ UNCHANGED <<refreshing, asked, memory, disk>>
  /\ UNCHANGED <<issued, holder, family, revoked, expired, storing, leaving, trouble, disturbed,
                 alarmed>>

\* AuthService.refresh: the row is read, and later revoked and replaced.
RefreshLooked(r) ==
  /\ r \in asked /\ r.st = "sent"
  /\ IF r.tok \in revoked
     THEN /\ revoked' = revoked \union {t \in 1..issued : family[t] = family[r.tok]}
          /\ alarmed' = (alarmed \/ \E t \in 1..issued : family[t] = family[r.tok] /\ t \notin revoked)
          /\ asked' = (asked \ {r}) \union {[r EXCEPT !.st = "refused"]}
     ELSE asked' = (asked \ {r}) \union {[r EXCEPT !.st = "looked"]} /\ UNCHANGED <<revoked, alarmed>>
  /\ UNCHANGED <<issued, holder, family, expired, memory, disk, storing, leaving, refreshing,
                 uploads, trouble, landed, disturbed>>
RefreshRotated(r) ==
  /\ r \in asked /\ r.st = "looked" /\ Issue(holder[r.tok], family[r.tok])
  /\ revoked' = revoked \union {r.tok}
  /\ asked' = (asked \ {r}) \union {[r EXCEPT !.st = "rotated", !.new = issued + 1]}
  /\ UNCHANGED <<expired, memory, disk, storing, leaving, refreshing, uploads, trouble, landed,
                 disturbed, alarmed>>

\* The answer: the new pair is stored; a refusal signs the user out.
RefreshAnswered(r) ==
  /\ r \in asked /\ r.tok = refreshing /\ \A q \in asked : q.tok = r.tok => r.at <= q.at
  /\ r.st \in {"rotated", "refused"} /\ storing = 0
  /\ asked' = asked \ {r}
  /\ IF r.st = "rotated"
     THEN disk' = r.new /\ storing' = r.new /\ UNCHANGED <<memory, refreshing, uploads, leaving>>
     ELSE /\ disk' = 0 /\ memory' = 0 /\ refreshing' = 0 /\ uploads' = Requeued /\ leaving' = Resumed("told")
          /\ UNCHANGED storing
  /\ UNCHANGED <<issued, holder, family, revoked, expired, trouble, landed, disturbed, alarmed>>
\* No connection or a time-out: the pair is thrown away as well.
RefreshFails ==
  /\ refreshing # 0 /\ storing = 0 /\ trouble > 0 /\ trouble' = trouble - 1 /\ disturbed' = TRUE
  /\ disk' = 0 /\ memory' = 0 /\ refreshing' = 0 /\ uploads' = Requeued /\ leaving' = Resumed("told")
  /\ UNCHANGED <<issued, holder, family, revoked, expired, storing, asked, landed, alarmed>>

\* useLogoutMutation: the request carries the token in memory; whatever it says, the phone forgets the pair.
LogOut ==
  /\ memory # 0 /\ leaving = "no" /\ trouble > 0 /\ trouble' = trouble - 1 /\ leaving' = "asked"
  /\ UNCHANGED <<issued, holder, family, revoked, expired, memory, disk, storing, refreshing,
                 asked, uploads, landed, disturbed, alarmed>>
LogOutServed ==
  /\ leaving \in {"asked", "retried"}
  /\ IF leaving = "asked" /\ memory \in expired
     THEN JoinRefresh /\ leaving' = "waiting" /\ UNCHANGED revoked
     ELSE /\ leaving' = "told" /\ revoked' = IF memory \in expired THEN revoked ELSE revoked \union ({memory} \ {0})
          /\ UNCHANGED <<refreshing, asked, memory, disk>>
  /\ UNCHANGED <<issued, holder, family, expired, storing, uploads, trouble, landed, disturbed,
                 alarmed>>
\* The request fails on the network: the server keeps the token, the phone goes on all the same.
LogOutLost ==
  /\ leaving \in {"asked", "retried"} /\ leaving' = "told"
  /\ UNCHANGED <<issued, holder, family, revoked, expired, memory, disk, storing, refreshing,
                 asked, uploads, trouble, landed, disturbed, alarmed>>
LoggedOut ==
  /\ leaving = "told" /\ leaving' = "no" /\ disk' = 0 /\ memory' = 0
  /\ UNCHANGED <<issued, holder, family, revoked, expired, storing, refreshing, asked, uploads,
                 trouble, landed, disturbed, alarmed>>

\* The app is killed and opened again: useHydrateSession.
Restart ==
  /\ trouble > 0 /\ trouble' = trouble - 1 /\ disturbed' = TRUE
  /\ memory' = disk /\ storing' = 0 /\ leaving' = "no" /\ refreshing' = 0
  /\ uploads' = [u \in People |-> IF uploads[u].st = "done" THEN uploads[u] ELSE [st |-> "queued", tok |-> 0]]
  /\ UNCHANGED <<issued, holder, family, revoked, expired, disk, asked, landed, alarmed>>

SessionsNext ==
  \/ Stored \/ RefreshFails \/ LogOut \/ LogOutServed \/ LogOutLost \/ LoggedOut \/ Restart
  \/ \E u \in People : SignIn(u) \/ Upload(u) \/ UploadServed(u)
  \/ \E t \in Tokens : Expires(t)
  \/ \E r \in asked : RefreshLooked(r) \/ RefreshRotated(r) \/ RefreshAnswered(r)
SessionsSpec == SessionsInit /\ [][SessionsNext]_sessionVars
------------------------------------------------------------------------------
(* What one user recorded on a shared phone never goes into the account of *)
(* another, whoever signs out, signs in or is refreshed while it is on its *)
(* way (axios-client.ts:14-19).                                            *)
OwnersDataStaysHome == \A p \in landed : p[1] = p[2]

(* An app that keeps running and gets its answers never trips the alarm    *)
(* for stolen tokens: no token is presented twice                          *)
(* (refresh-single-flight.ts:1-11, auth.service.ts:108-117).               *)
NoFalseAlarm == alarmed => disturbed
=============================================================================

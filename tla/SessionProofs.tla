---------------------------- MODULE SessionProofs ----------------------------
(***************************************************************************)
(* Theorems about Sessions and PushTokens, for any number of people,       *)
(* tokens, calls and troubles.                                             *)
(***************************************************************************)
EXTENDS Sessions, PushTokens, Accounts, TLAPS

USE DEF Tokens

-----------------------------------------------------------------------------
(* A recording goes out only under its owner's token.                      *)

Refreshes == [tok : 1..issued, st : {"sent", "looked", "rotated", "refused"}, new : 0..issued, at : 0..MaxTrouble]
Shipments == [st : {"queued", "sent", "waiting", "done"}, tok : 0..MaxTokens]
Waits(u) == uploads[u].st \in {"sent", "waiting"}

\* Types, tighter than SessionsTypeOK: requests carry tokens that were issued.
TypeInv ==
  /\ issued \in 0..MaxTokens /\ holder \in [Tokens -> People] /\ family \in [Tokens -> Tokens]
  /\ memory \in 0..issued /\ disk \in 0..issued /\ storing \in 0..issued /\ refreshing \in 0..issued
  /\ trouble \in 0..MaxTrouble /\ asked \subseteq Refreshes
  /\ \A r \in asked : r.st = "rotated" => r.new \in 1..issued
  /\ uploads \in [People -> Shipments]

\* A recording on its way carries a token of its owner.
OwnToken == \A u \in People : Waits(u) => uploads[u].tok \in 1..issued /\ holder[uploads[u].tok] = u

OwnerInv == TypeInv /\ OwnToken /\ OwnersDataStaysHome

LEMMA OwnerInit == SessionsInit => OwnerInv
<1> SUFFICES ASSUME SessionsInit PROVE OwnerInv
  OBVIOUS
<1>1. TypeInv
  BY SessionsAssumption DEF SessionsInit, TypeInv, Refreshes, Shipments
<1>2. OwnToken /\ OwnersDataStaysHome
  BY DEF SessionsInit, OwnToken, Waits, OwnersDataStaysHome
<1> QED BY <1>1, <1>2 DEF OwnerInv

\* What waited is queued again: no upload is on its way under a token it did not have.
LEMMA RequeuedKeeps ==
  ASSUME TypeInv, OwnToken
  PROVE  /\ Requeued \in [People -> Shipments]
         /\ \A u \in People : Requeued[u].st \in {"sent", "waiting"} =>
              Requeued[u].tok \in 1..issued /\ holder[Requeued[u].tok] = u
<1>1. [st |-> "queued", tok |-> 0] \in Shipments
  BY SessionsAssumption DEF Shipments
<1>2. \A u \in People : Requeued[u] = IF uploads[u].st = "waiting" THEN [st |-> "queued", tok |-> 0] ELSE uploads[u]
  BY DEF Requeued
<1>3. Requeued \in [People -> Shipments]
  BY <1>1 DEF Requeued, TypeInv
<1>4. \A u \in People : Requeued[u].st \in {"sent", "waiting"} => Requeued[u] = uploads[u]
  BY <1>2
<1> QED BY <1>3, <1>4 DEF OwnToken, Waits

\* An issued token changes nothing about the earlier ones.
LEMMA IssueKeeps ==
  ASSUME TypeInv, NEW u \in People, NEW f \in Tokens, Issue(u, f)
  PROVE  /\ issued' = issued + 1 /\ issued' \in 0..MaxTokens
         /\ holder' \in [Tokens -> People] /\ family' \in [Tokens -> Tokens]
         /\ \A t \in 1..issued : holder'[t] = holder[t] /\ family'[t] = family[t]
         /\ holder'[issued + 1] = u /\ family'[issued + 1] = f
<1>1. issued \in 0..MaxTokens /\ issued < MaxTokens /\ MaxTokens \in Nat
  BY SessionsAssumption DEF TypeInv, Issue
<1>2. issued + 1 \in Tokens /\ issued + 1 \in 0..MaxTokens /\ \A t \in 1..issued : t \in Tokens /\ t # issued + 1
  BY <1>1
<1>3. /\ issued' = issued + 1
      /\ holder' = [holder EXCEPT ![issued + 1] = u] /\ family' = [family EXCEPT ![issued + 1] = f]
  BY DEF Issue
<1>4. holder \in [Tokens -> People] /\ family \in [Tokens -> Tokens]
  BY DEF TypeInv
<1> HIDE DEF Tokens
<1> QED BY <1>2, <1>3, <1>4

\* More tokens, more possible requests.
LEMMA RefreshesGrow ==
  ASSUME issued \in Nat, issued' = issued + 1
  PROVE  Refreshes \subseteq Refreshes' /\ 0..issued \subseteq 0..issued' /\ 1..issued \subseteq 1..issued'
<1>1. 0..issued \subseteq 0..issued' /\ 1..issued \subseteq 1..issued'
  OBVIOUS
<1> QED BY <1>1 DEF Refreshes

\* Joining a refresh, or starting one, keeps the types.
LEMMA JoinKeeps ==
  ASSUME TypeInv, issued' = issued, JoinRefresh \/ UNCHANGED <<refreshing, asked, memory, disk>>
  PROVE  /\ memory' \in 0..issued /\ disk' \in 0..issued /\ refreshing' \in 0..issued
         /\ Refreshes' = Refreshes /\ asked' \subseteq Refreshes
         /\ \A r \in asked' : r.st = "rotated" => r.new \in 1..issued
<1> DEFINE fresh == [tok |-> memory, st |-> "sent", new |-> 0, at |-> trouble]
<1>1. Refreshes' = Refreshes /\ issued \in Nat
  BY SessionsAssumption DEF Refreshes, TypeInv
<1>2. memory # 0 => fresh \in Refreshes /\ fresh.st = "sent"
  BY <1>1 DEF TypeInv, Refreshes
<1>3. asked' = asked \/ (memory # 0 /\ asked' = asked \union {fresh})
  BY DEF JoinRefresh
<1>4. memory' = memory /\ disk' \in {disk, 0} /\ refreshing' \in {refreshing, memory}
  BY DEF JoinRefresh
<1> HIDE DEF fresh
<1> QED BY <1>1, <1>2, <1>3, <1>4 DEF TypeInv

LEMMA TroubleBound ==
  ASSUME trouble \in 0..MaxTrouble, [SessionsNext]_sessionVars
  PROVE  trouble' \in 0..MaxTrouble
<1>1. trouble' = trouble \/ (trouble > 0 /\ trouble' = trouble - 1)
  <2>1. CASE Stored \/ LogOutServed \/ LogOutLost \/ LoggedOut \/ UNCHANGED sessionVars
    BY <2>1 DEF Stored, LogOutServed, LogOutLost, LoggedOut, sessionVars
  <2>2. CASE RefreshFails \/ LogOut \/ Restart
    BY <2>2 DEF RefreshFails, LogOut, Restart
  <2>3. ASSUME NEW u \in People, SignIn(u) \/ Upload(u) \/ UploadServed(u) PROVE trouble' = trouble
    BY <2>3 DEF SignIn, Upload, UploadServed
  <2>4. ASSUME NEW t \in Tokens, Expires(t) PROVE trouble' = trouble
    BY <2>4 DEF Expires
  <2>5. ASSUME NEW r \in asked, RefreshLooked(r) \/ RefreshRotated(r) \/ RefreshAnswered(r) PROVE trouble' = trouble
    BY <2>5 DEF RefreshLooked, RefreshRotated, RefreshAnswered
  <2> QED BY <2>1, <2>2, <2>3, <2>4, <2>5 DEF SessionsNext
<1> QED BY <1>1, SessionsAssumption

\* The types of a step that issues no token, from what it does to each variable.
LEMMA TypesStay ==
  ASSUME TypeInv, issued' = issued, holder' = holder, family' = family, trouble' \in 0..MaxTrouble,
         memory' \in 0..issued, disk' \in 0..issued, storing' \in 0..issued, refreshing' \in 0..issued,
         asked' \subseteq Refreshes, \A r \in asked' : r.st = "rotated" => r.new \in 1..issued,
         uploads' \in [People -> Shipments]
  PROVE  TypeInv'
<1>1. Refreshes' = Refreshes
  BY DEF Refreshes
<1> QED BY <1>1 DEF TypeInv

LEMMA OwnerStep == OwnerInv /\ [SessionsNext]_sessionVars => OwnerInv'
<1> SUFFICES ASSUME OwnerInv, [SessionsNext]_sessionVars PROVE OwnerInv'
  OBVIOUS
<1> USE SessionsAssumption
<1>t. TypeInv /\ OwnToken /\ OwnersDataStaysHome
  BY DEF OwnerInv
<1>u. trouble' \in 0..MaxTrouble
  BY <1>t, TroubleBound DEF TypeInv
<1>1. CASE Stored
  <2>a. /\ UNCHANGED <<issued, holder, family, disk, asked>> /\ memory' = storing /\ storing' = 0
        /\ refreshing' \in {refreshing, 0} /\ uploads' \in {uploads, Requeued}
    BY <1>1 DEF Stored
  <2>1. TypeInv'
    <3>1. uploads' \in [People -> Shipments]
      BY <1>t, <2>a, RequeuedKeeps DEF TypeInv
    <3>2. /\ memory' \in 0..issued /\ storing' \in 0..issued /\ refreshing' \in 0..issued /\ disk' \in 0..issued
          /\ asked' \subseteq Refreshes /\ \A r \in asked' : r.st = "rotated" => r.new \in 1..issued
      BY <1>t, <2>a DEF TypeInv
    <3> QED BY <1>t, <1>u, <2>a, <3>1, <3>2, TypesStay
  <2>2. OwnToken'
    BY <1>1, <1>t, RequeuedKeeps DEF Stored, OwnToken, Waits
  <2> QED BY <2>1, <2>2, <1>1, <1>t DEF Stored, OwnerInv, OwnersDataStaysHome
<1>2. CASE RefreshFails
  <2>0. Refreshes' = Refreshes
    BY <1>2 DEF RefreshFails, Refreshes
  <2>1. TypeInv'
    BY <1>2, <1>t, <2>0, RequeuedKeeps DEF RefreshFails, TypeInv
  <2>2. OwnToken'
    BY <1>2, <1>t, RequeuedKeeps DEF RefreshFails, OwnToken, Waits
  <2> QED BY <2>1, <2>2, <1>2, <1>t DEF RefreshFails, OwnerInv, OwnersDataStaysHome
<1>3. CASE LogOut \/ LogOutLost \/ LoggedOut
  <2>1. /\ UNCHANGED <<issued, holder, family, storing, refreshing, asked, uploads, landed>>
        /\ memory' \in {memory, 0} /\ disk' \in {disk, 0}
    BY <1>3 DEF LogOut, LogOutLost, LoggedOut
  <2>2. /\ memory' \in 0..issued /\ storing' \in 0..issued /\ refreshing' \in 0..issued /\ disk' \in 0..issued
        /\ asked' \subseteq Refreshes /\ \A r \in asked' : r.st = "rotated" => r.new \in 1..issued
        /\ uploads' \in [People -> Shipments]
    BY <1>t, <2>1 DEF TypeInv
  <2>3. TypeInv'
    BY <1>t, <1>u, <2>1, <2>2, TypesStay
  <2> QED BY <1>t, <2>1, <2>3 DEF OwnerInv, OwnToken, Waits, OwnersDataStaysHome
<1>4. CASE LogOutServed
  <2>1. UNCHANGED <<issued, holder, family, storing, uploads, landed>>
    BY <1>4 DEF LogOutServed
  <2>2. JoinRefresh \/ UNCHANGED <<refreshing, asked, memory, disk>>
    BY <1>4 DEF LogOutServed
  <2>3. TypeInv'
    BY <1>t, <1>u, <2>1, <2>2, JoinKeeps DEF TypeInv
  <2> QED BY <1>t, <2>1, <2>3 DEF OwnerInv, OwnToken, Waits, OwnersDataStaysHome
<1>5. CASE Restart
  <2>2. [st |-> "queued", tok |-> 0] \in Shipments
    BY DEF Shipments
  <2>4. /\ memory' \in 0..issued /\ storing' \in 0..issued /\ refreshing' \in 0..issued /\ disk' \in 0..issued
        /\ UNCHANGED <<issued, holder, family>>
    BY <1>5, <1>t DEF Restart, TypeInv
  <2>5. asked' \subseteq Refreshes /\ \A r \in asked' : r.st = "rotated" => r.new \in 1..issued
    BY <1>5, <1>t DEF Restart, TypeInv
  <2>6. uploads' \in [People -> Shipments]
    BY <1>5, <1>t, <2>2 DEF Restart, TypeInv
  <2>1. TypeInv'
    BY <1>t, <1>u, <2>4, <2>5, <2>6, TypesStay
  <2>3. OwnToken'
    BY <1>5, <1>t DEF Restart, TypeInv, OwnToken, Waits
  <2> QED BY <2>1, <2>3, <1>5, <1>t DEF Restart, OwnerInv, OwnersDataStaysHome
<1>6. ASSUME NEW u \in People, SignIn(u) PROVE OwnerInv'
  <2>1. Issue(u, issued + 1) /\ issued \in Nat /\ issued + 1 \in Tokens
    BY <1>6, <1>t DEF SignIn, Issue, TypeInv
  <2>2. /\ issued' = issued + 1 /\ issued' \in 0..MaxTokens
        /\ holder' \in [Tokens -> People] /\ family' \in [Tokens -> Tokens]
        /\ \A t \in 1..issued : holder'[t] = holder[t]
    BY <2>1, <1>t, IssueKeeps
  <2>3. Refreshes \subseteq Refreshes' /\ 0..issued \subseteq 0..issued' /\ 1..issued \subseteq 1..issued'
    BY <2>1, <2>2, RefreshesGrow
  <2>4. /\ memory' = memory /\ refreshing' = refreshing /\ asked' = asked /\ uploads' = uploads /\ landed' = landed
        /\ disk' = issued' /\ storing' = issued' /\ issued' \in 0..issued'
    BY <1>6, <2>1, <2>2 DEF SignIn
  <2>5. TypeInv'
    BY <1>t, <1>u, <2>2, <2>3, <2>4 DEF TypeInv
  <2>6. OwnToken'
    BY <1>t, <2>2, <2>3, <2>4 DEF OwnToken, Waits
  <2> QED BY <2>4, <2>5, <2>6, <1>t DEF OwnerInv, OwnersDataStaysHome
<1>7. ASSUME NEW u \in People, Upload(u) PROVE OwnerInv'
  <2>1. memory \in 1..issued /\ memory \in 0..MaxTokens /\ holder[memory] = u
    BY <1>7, <1>t DEF Upload, TypeInv
  <2>2. TypeInv'
    BY <1>7, <1>t, <2>1 DEF Upload, TypeInv, Refreshes, Shipments
  <2>3. OwnToken'
    BY <1>7, <1>t, <2>1 DEF Upload, TypeInv, OwnToken, Waits
  <2> QED BY <2>2, <2>3, <1>7, <1>t DEF Upload, OwnerInv, OwnersDataStaysHome
<1>8. ASSUME NEW u \in People, UploadServed(u) PROVE OwnerInv'
  <2> DEFINE back == IF memory = 0 /\ refreshing = 0 THEN [st |-> "queued", tok |-> 0]
                                                     ELSE [uploads[u] EXCEPT !.st = "waiting"]
  <2>1. uploads[u].tok \in 1..issued /\ holder[uploads[u].tok] = u /\ uploads[u].st = "sent"
    BY <1>8, <1>t DEF UploadServed, OwnToken, Waits
  <2>2. uploads[u] \in Shipments
    BY <1>t DEF TypeInv
  <2>3. /\ back \in Shipments
        /\ back.st = "waiting" => back.tok = uploads[u].tok
        /\ back.st # "sent"
    BY <2>2 DEF Shipments
  <2>4. CASE uploads[u].tok \in expired
    <3>1. uploads' = [uploads EXCEPT ![u] = back] /\ JoinRefresh /\ landed' = landed
      BY <1>8, <2>4 DEF UploadServed
    <3> HIDE DEF back
    <3>2. TypeInv'
      BY <1>8, <1>t, <2>3, <3>1 DEF UploadServed, JoinRefresh, TypeInv, Refreshes
    <3>3. OwnToken'
      BY <1>8, <1>t, <2>1, <2>3, <3>1 DEF UploadServed, TypeInv, OwnToken, Waits
    <3> QED BY <3>1, <3>2, <3>3, <1>t DEF OwnerInv, OwnersDataStaysHome
  <2>5. CASE uploads[u].tok \notin expired
    <3> DEFINE over == [uploads[u] EXCEPT !.st = "done"]
    <3>1. uploads' = [uploads EXCEPT ![u] = over]
      BY <1>8, <2>5 DEF UploadServed
    <3>2. over \in Shipments /\ over.st = "done"
      BY <2>2 DEF Shipments
    <3> HIDE DEF over
    <3>3. TypeInv'
      BY <1>8, <1>t, <2>5, <3>1, <3>2 DEF UploadServed, TypeInv, Refreshes
    <3>4. OwnToken'
      BY <1>8, <1>t, <2>5, <3>1, <3>2 DEF UploadServed, TypeInv, OwnToken, Waits
    <3>5. landed' = landed \union {<<u, u>>}
      BY <1>8, <2>1, <2>5 DEF UploadServed
    <3> QED BY <3>3, <3>4, <3>5, <1>t DEF OwnerInv, OwnersDataStaysHome
  <2> QED BY <2>4, <2>5
<1>9. ASSUME NEW t \in Tokens, Expires(t) PROVE OwnerInv'
  BY <1>9, <1>t DEF Expires, OwnerInv, TypeInv, Refreshes, OwnToken, Waits, OwnersDataStaysHome
<1>10. ASSUME NEW r \in asked, RefreshLooked(r) PROVE OwnerInv'
  <2>1. r \in Refreshes
    BY <1>t DEF TypeInv
  <2>2. [r EXCEPT !.st = "refused"] \in Refreshes /\ [r EXCEPT !.st = "looked"] \in Refreshes
    BY <2>1 DEF Refreshes
  <2>3. [r EXCEPT !.st = "refused"].st = "refused" /\ [r EXCEPT !.st = "looked"].st = "looked"
    BY <2>1 DEF Refreshes
  <2>4. TypeInv'
    BY <1>10, <1>t, <2>2, <2>3 DEF RefreshLooked, TypeInv, Refreshes
  <2> QED BY <1>10, <1>t, <2>4 DEF RefreshLooked, OwnerInv, OwnToken, Waits, OwnersDataStaysHome
<1>11. ASSUME NEW r \in asked, RefreshRotated(r) PROVE OwnerInv'
  <2> DEFINE over == [[r EXCEPT !.st = "rotated"] EXCEPT !.new = issued + 1]
  <2>1. r \in Refreshes /\ issued \in Nat /\ r.tok \in Tokens
    BY <1>t DEF TypeInv, Refreshes
  <2>2. holder[r.tok] \in People /\ family[r.tok] \in Tokens
    BY <1>t, <2>1 DEF TypeInv
  <2>3. /\ issued' = issued + 1 /\ issued' \in 0..MaxTokens
        /\ holder' \in [Tokens -> People] /\ family' \in [Tokens -> Tokens]
        /\ \A t \in 1..issued : holder'[t] = holder[t]
    BY <1>11, <1>t, <2>2, IssueKeeps DEF RefreshRotated
  <2>4. Refreshes \subseteq Refreshes' /\ 0..issued \subseteq 0..issued' /\ 1..issued \subseteq 1..issued'
    BY <2>1, <2>3, RefreshesGrow
  <2>5. over \in Refreshes' /\ over.new \in 1..issued'
    <3>1. r \in Refreshes' /\ issued + 1 \in 0..issued' /\ issued + 1 \in 1..issued'
      BY <2>1, <2>3, <2>4
    <3>2. [r EXCEPT !.st = "rotated"] \in Refreshes'
      BY <3>1 DEF Refreshes
    <3> QED BY <3>1, <3>2 DEF Refreshes
  <2>6. asked' = (asked \ {r}) \union {over}
    BY <1>11, <2>1 DEF RefreshRotated, Refreshes
  <2> HIDE DEF over
  <2>7. UNCHANGED <<memory, disk, storing, refreshing, uploads, landed>>
    BY <1>11 DEF RefreshRotated
  <2>8. TypeInv'
    BY <1>t, <1>u, <2>3, <2>4, <2>5, <2>6, <2>7 DEF TypeInv
  <2>9. OwnToken'
    BY <1>t, <2>3, <2>4, <2>7 DEF OwnToken, Waits
  <2> QED BY <1>t, <2>7, <2>8, <2>9 DEF OwnerInv, OwnersDataStaysHome
<1>12. ASSUME NEW r \in asked, RefreshAnswered(r) PROVE OwnerInv'
  <2>0. Refreshes' = Refreshes
    BY <1>12 DEF RefreshAnswered, Refreshes
  <2>1. UNCHANGED <<issued, holder, family, landed>> /\ asked' = asked \ {r}
    BY <1>12 DEF RefreshAnswered
  <2>2. CASE r.st = "rotated"
    <3>1. UNCHANGED <<memory, refreshing, uploads>> /\ disk' = r.new /\ storing' = r.new /\ r.new \in 0..issued
      BY <1>12, <1>t, <2>2 DEF RefreshAnswered, TypeInv, Refreshes
    <3>2. \A q \in asked' : q.st = "rotated" => q.new \in 1..issued'
      BY <1>t, <2>1 DEF TypeInv
    <3>3. asked' \subseteq Refreshes'
      BY <1>t, <2>0, <2>1 DEF TypeInv
    <3>4. TypeInv'
      BY <1>t, <1>u, <2>1, <3>1, <3>2, <3>3 DEF TypeInv
    <3> QED BY <1>t, <2>1, <3>1, <3>4 DEF OwnerInv, OwnToken, Waits, OwnersDataStaysHome
  <2>3. CASE r.st # "rotated"
    <3>1. disk' = 0 /\ memory' = 0 /\ refreshing' = 0 /\ storing' = storing /\ uploads' = Requeued
      BY <1>12, <2>3 DEF RefreshAnswered
    <3>2. \A q \in asked' : q.st = "rotated" => q.new \in 1..issued'
      BY <1>t, <2>1 DEF TypeInv
    <3>3. asked' \subseteq Refreshes'
      BY <1>t, <2>0, <2>1 DEF TypeInv
    <3>4. uploads' \in [People -> Shipments]
      BY <1>t, <3>1, RequeuedKeeps
    <3>a. memory' \in 0..issued /\ storing' \in 0..issued /\ refreshing' \in 0..issued /\ disk' \in 0..issued
      BY <1>t, <3>1 DEF TypeInv
    <3>5. TypeInv'
      BY <1>t, <1>u, <2>0, <2>1, <3>2, <3>3, <3>4, <3>a, TypesStay
    <3>6. OwnToken'
      BY <1>t, <2>1, <3>1, RequeuedKeeps DEF OwnToken, Waits
    <3> QED BY <1>t, <2>1, <3>5, <3>6 DEF OwnerInv, OwnersDataStaysHome
  <2> QED BY <2>2, <2>3
<1>13. CASE UNCHANGED sessionVars
  BY <1>13, <1>t DEF sessionVars, OwnerInv, TypeInv, Refreshes, OwnToken, Waits, OwnersDataStaysHome
<1> QED
  BY <1>1, <1>2, <1>3, <1>4, <1>5, <1>6, <1>7, <1>8, <1>9, <1>10, <1>11, <1>12, <1>13 DEF SessionsNext

\* Nobody's recording lands in somebody else's account (axios-client.ts:14-19), however many
\* people share the phone and whatever is lost: an upload that waits for a refresh is queued
\* again and checked again, so it never goes on under the pair the refresh left.
THEOREM OwnersDataStaysHomeCorrect == SessionsSpec => []OwnersDataStaysHome
<1>1. OwnerInv => OwnersDataStaysHome
  BY DEF OwnerInv
<1> QED BY <1>1, OwnerInit, OwnerStep, PTL DEF SessionsSpec
\* The pair in memory, on disk and in between, the refresh and the uploads keep their types.
THEOREM SessionsTypeCorrect == SessionsSpec => []SessionsTypeOK
<1>1. OwnerInv => SessionsTypeOK
  BY DEF OwnerInv, TypeInv, SessionsTypeOK, Shipments
<1> QED BY <1>1, OwnerInit, OwnerStep, PTL DEF SessionsSpec

-----------------------------------------------------------------------------
(* No false alarm.  Of a family only the newest token can be live; an app  *)
(* that is never disturbed presents no other, and no token twice.          *)

Newest(t) == \A x \in 1..issued : family[x] = family[t] => x <= t

\* A family has the number of its first token.
FamilyOrder == \A t \in 1..issued : family[t] <= t

Families == \A t, x \in 1..issued : family[t] = family[x] /\ t < x => t \in revoked

\* The one request under way is the refresh's, and what it presents or brings is the newest.
FlightInv ==
  /\ \A r, q \in asked : r = q
  /\ \A r \in asked : r.tok = refreshing
  /\ \A r \in asked : storing # 0 => family[storing] # family[r.tok]
  /\ \A r \in asked : r.st \in {"sent", "looked"} => Newest(r.tok)
  /\ \A r \in asked : r.st = "rotated" => Newest(r.new) /\ family[r.new] = family[r.tok]

\* The pair the phone has is the newest, or is being refreshed.
PairInv ==
  /\ memory # 0 => memory = refreshing \/ Newest(memory)
  /\ storing # 0 => Newest(storing)
  /\ storing # 0 /\ refreshing = 0 => memory = 0

CalmInv == ~disturbed => Families /\ FlightInv /\ PairInv

AlarmInv == OwnerInv /\ FamilyOrder /\ NoFalseAlarm /\ CalmInv

LEMMA AlarmInit == SessionsInit => AlarmInv
<1> SUFFICES ASSUME SessionsInit PROVE AlarmInv
  OBVIOUS
<1>1. FamilyOrder /\ NoFalseAlarm
  BY DEF SessionsInit, FamilyOrder, NoFalseAlarm
<1>2. CalmInv
  BY DEF SessionsInit, CalmInv, Families, FlightInv, PairInv
<1> QED BY <1>1, <1>2, OwnerInit DEF AlarmInv

\* Where no token is issued, what is newest stays so.
LEMMA NewestStays ==
  ASSUME UNCHANGED <<issued, family>>
  PROVE  \A t : Newest(t)' = Newest(t)
BY DEF Newest

\* A token of a new family takes from no token that it is the newest.
LEMMA NewestSurvives ==
  ASSUME TypeInv, NEW u \in People, NEW f \in Tokens, Issue(u, f)
  PROVE  /\ \A t \in 1..issued : Newest(t) /\ family[t] # f => Newest(t)'
         /\ Newest(issued)'
         /\ \A t \in 1..issued : family'[t] = family[t]
<1>1. /\ issued' = issued + 1 /\ issued \in Nat /\ family'[issued + 1] = f
      /\ \A t \in 1..issued : family'[t] = family[t]
  BY IssueKeeps DEF TypeInv
<1>2. \A x \in 1..issued' : x \in 1..issued \/ x = issued + 1
  BY <1>1
<1>3. Newest(issued)'
  BY <1>1 DEF Newest
<1> QED BY <1>1, <1>2, <1>3 DEF Newest

LEMMA FamiliesStay ==
  ASSUME FamilyOrder, UNCHANGED <<issued, family>>, revoked \subseteq revoked'
  PROVE  FamilyOrder' /\ (Families => Families')
BY DEF FamilyOrder, Families

LEMMA AlarmJoin ==
  ASSUME TypeInv, FlightInv, PairInv, UNCHANGED <<issued, family, storing>>, JoinRefresh
  PROVE  FlightInv' /\ PairInv'
<1>n. \A t : Newest(t)' = Newest(t)
  BY NewestStays
<1>1. CASE refreshing # 0 \/ memory = 0
  BY <1>1, <1>n DEF JoinRefresh, FlightInv, PairInv
<1>2. CASE refreshing = 0 /\ memory # 0
  <2> DEFINE fresh == [tok |-> memory, st |-> "sent", new |-> 0, at |-> trouble]
  <2>1. fresh.tok = memory /\ fresh.st = "sent"
    OBVIOUS
  <2>2. asked = {}
    <3>1. \A r \in asked : r.tok \in 1..issued /\ r.tok = refreshing
      BY DEF TypeInv, Refreshes, FlightInv
    <3> QED BY <3>1, <1>2
  <2>3. asked' = {fresh} /\ refreshing' = memory /\ memory' = memory /\ storing = 0 /\ Newest(memory)
    BY <1>2, <2>2 DEF JoinRefresh, PairInv
  <2> HIDE DEF fresh
  <2> QED BY <1>2, <1>n, <2>1, <2>3 DEF FlightInv, PairInv
<1> QED BY <1>1, <1>2

LEMMA AlarmStep == AlarmInv /\ [SessionsNext]_sessionVars => AlarmInv'
<1> SUFFICES ASSUME AlarmInv, [SessionsNext]_sessionVars PROVE AlarmInv'
  OBVIOUS
<1>o. /\ OwnerInv' /\ OwnerInv /\ TypeInv /\ FamilyOrder /\ NoFalseAlarm
      /\ ~disturbed => Families /\ FlightInv /\ PairInv
  BY OwnerStep DEF AlarmInv, OwnerInv, CalmInv
<1> SUFFICES FamilyOrder' /\ NoFalseAlarm' /\ CalmInv'
  BY <1>o DEF AlarmInv
<1> USE SessionsAssumption
<1>1. CASE Stored
  <2>1. UNCHANGED <<issued, family, revoked, asked, disturbed, alarmed>> /\ memory' = storing /\ storing' = 0 /\ storing # 0
    BY <1>1 DEF Stored
  <2>2. \/ refreshing # 0 /\ family[refreshing] = family[storing] /\ refreshing' = 0
        \/ refreshing' = refreshing
    BY <1>1 DEF Stored
  <2>3. FamilyOrder' /\ (Families => Families') /\ NoFalseAlarm'
    BY <1>o, <2>1, FamiliesStay DEF NoFalseAlarm
  <2>4. ASSUME ~disturbed PROVE FlightInv' /\ PairInv'
    <3>1. FlightInv /\ PairInv /\ \A t : Newest(t)' = Newest(t)
      BY <1>o, <2>1, <2>4, NewestStays
    <3>2. asked # {} => refreshing' = refreshing
      BY <2>1, <2>2, <3>1 DEF FlightInv
    <3>3. FlightInv'
      BY <2>1, <3>1, <3>2 DEF FlightInv
    <3>4. PairInv'
      BY <2>1, <3>1 DEF PairInv
    <3> QED BY <3>3, <3>4
  <2> QED BY <1>o, <2>1, <2>3, <2>4 DEF CalmInv
<1>2. CASE RefreshFails \/ Restart
  BY <1>2, <1>o, FamiliesStay DEF RefreshFails, Restart, NoFalseAlarm, CalmInv
<1>3. CASE LogOut \/ LogOutLost \/ (\E u \in People : Upload(u)) \/ (\E t \in Tokens : Expires(t)) \/ UNCHANGED sessionVars
  <2>1. UNCHANGED <<issued, family, revoked, memory, storing, refreshing, asked, disturbed, alarmed>>
    BY <1>3 DEF LogOut, LogOutLost, Upload, Expires, sessionVars
  <2> QED BY <1>o, <2>1, FamiliesStay, NewestStays DEF NoFalseAlarm, CalmInv, FlightInv, PairInv
<1>4. CASE LogOutServed
  <2>1. UNCHANGED <<issued, family, storing, disturbed, alarmed>> /\ revoked \subseteq revoked'
    BY <1>4 DEF LogOutServed
  <2>2. JoinRefresh \/ UNCHANGED <<refreshing, asked, memory>>
    BY <1>4 DEF LogOutServed
  <2>3. UNCHANGED <<refreshing, asked, memory>> /\ FlightInv /\ PairInv => FlightInv' /\ PairInv'
    BY <2>1, NewestStays DEF FlightInv, PairInv
  <2> QED BY <1>o, <2>1, <2>2, <2>3, FamiliesStay, AlarmJoin DEF NoFalseAlarm, CalmInv
<1>5. CASE LoggedOut
  <2>1. UNCHANGED <<issued, family, revoked, storing, refreshing, asked, disturbed, alarmed>> /\ memory' = 0
    BY <1>5 DEF LoggedOut
  <2> QED BY <1>o, <2>1, FamiliesStay, NewestStays DEF NoFalseAlarm, CalmInv, FlightInv, PairInv
<1>6. ASSUME NEW u \in People, UploadServed(u) PROVE FamilyOrder' /\ NoFalseAlarm' /\ CalmInv'
  <2>1. UNCHANGED <<issued, family, revoked, storing, disturbed, alarmed>>
    BY <1>6 DEF UploadServed
  <2>2. JoinRefresh \/ UNCHANGED <<refreshing, asked, memory>>
    BY <1>6 DEF UploadServed
  <2>3. UNCHANGED <<refreshing, asked, memory>> /\ FlightInv /\ PairInv => FlightInv' /\ PairInv'
    BY <2>1, NewestStays DEF FlightInv, PairInv
  <2> QED BY <1>o, <2>1, <2>2, <2>3, FamiliesStay, AlarmJoin DEF NoFalseAlarm, CalmInv
<1>7. ASSUME NEW u \in People, SignIn(u) PROVE FamilyOrder' /\ NoFalseAlarm' /\ CalmInv'
  <2>1. Issue(u, issued + 1) /\ issued \in Nat /\ issued + 1 \in Tokens
    BY <1>7, <1>o DEF SignIn, Issue, TypeInv
  <2>2. /\ \A t \in 1..issued : Newest(t) /\ family[t] # issued + 1 => Newest(t)'
        /\ Newest(issued)' /\ \A t \in 1..issued : family'[t] = family[t]
    BY <1>o, <2>1, NewestSurvives
  <2>3. issued' = issued + 1 /\ family'[issued + 1] = issued + 1
    BY <1>o, <2>1, IssueKeeps
  <2>4. \A t \in 1..issued : t \in Int /\ family[t] <= t /\ family[t] \in Int /\ family[t] # issued + 1
    BY <1>o, <2>1 DEF FamilyOrder, TypeInv
  <2>5. /\ UNCHANGED <<revoked, refreshing, asked, disturbed, alarmed>>
        /\ memory = 0 /\ memory' = 0 /\ storing' = issued + 1 /\ storing = 0
    BY <1>7 DEF SignIn
  <2>6. \A x \in 1..issued' : x \in 1..issued \/ x = issued + 1
    BY <2>1, <2>3
  <2>7. FamilyOrder'
    BY <1>o, <2>1, <2>2, <2>3, <2>4, <2>6 DEF FamilyOrder
  <2>8. ASSUME ~disturbed PROVE Families' /\ FlightInv' /\ PairInv'
    <3>1. Families /\ FlightInv /\ PairInv
      BY <1>o, <2>8
    <3>a. Families'
      BY <2>1, <2>2, <2>3, <2>4, <2>5, <2>6, <3>1 DEF Families
    <3>2. \A r \in asked : r.tok \in 1..issued /\ (r.st = "rotated" => r.new \in 1..issued)
      BY <1>o DEF TypeInv, Refreshes
    <3>3. FlightInv'
      BY <2>2, <2>3, <2>4, <2>5, <3>1, <3>2 DEF FlightInv
    <3>4. PairInv'
      <4>1. Newest(storing)' /\ memory' = 0
        BY <2>2, <2>3, <2>5 DEF Newest
      <4> QED BY <4>1 DEF PairInv
    <3> QED BY <3>a, <3>3, <3>4
  <2> QED BY <1>o, <2>5, <2>7, <2>8 DEF NoFalseAlarm, CalmInv
<1>8. ASSUME NEW r \in asked, RefreshLooked(r) PROVE FamilyOrder' /\ NoFalseAlarm' /\ CalmInv'
  <2> DEFINE over == IF r.tok \in revoked THEN [r EXCEPT !.st = "refused"] ELSE [r EXCEPT !.st = "looked"]
  <2>1. /\ UNCHANGED <<issued, family, memory, storing, refreshing, disturbed>> /\ revoked \subseteq revoked'
        /\ asked' = (asked \ {r}) \union {over}
    BY <1>8 DEF RefreshLooked
  <2>2. r \in Refreshes /\ r.tok \in 1..issued
    BY <1>o DEF TypeInv, Refreshes
  <2>3. over.tok = r.tok /\ over.st \in {"looked", "refused"}
    BY <2>2 DEF Refreshes
  <2> HIDE DEF over
  <2>4. ASSUME ~disturbed PROVE FlightInv' /\ PairInv'
    <3>1. FlightInv /\ PairInv /\ \A t : Newest(t)' = Newest(t)
      BY <1>o, <2>1, <2>4, NewestStays
    <3>2. asked' = {over} /\ Newest(r.tok) /\ r.tok = refreshing /\ (storing # 0 => family[storing] # family[r.tok])
      BY <1>8, <2>1, <3>1 DEF FlightInv, RefreshLooked
    <3>3. FlightInv'
      BY <2>1, <2>3, <3>1, <3>2 DEF FlightInv
    <3> QED BY <2>1, <3>1, <3>3 DEF PairInv
  <2>5. NoFalseAlarm'
    <3>1. CASE disturbed
      BY <2>1, <3>1 DEF NoFalseAlarm
    <3>2. CASE ~disturbed /\ r.tok \in revoked
      <4>1. Newest(r.tok)
        BY <1>8, <1>o, <3>2 DEF FlightInv, RefreshLooked
      <4>2. \A t \in 1..issued : family[t] = family[r.tok] => t \in revoked
        <5>1. ASSUME NEW t \in 1..issued, family[t] = family[r.tok] PROVE t \in revoked
          <6>1. t < r.tok \/ t = r.tok
            BY <2>2, <4>1, <5>1 DEF Newest
          <6> QED BY <1>o, <2>2, <3>2, <5>1, <6>1 DEF Families
        <5> QED BY <5>1
      <4>3. ~\E t \in 1..issued : family[t] = family[r.tok] /\ t \notin revoked
        BY <4>2
      <4>4. alarmed' => alarmed
        BY <1>8, <3>2, <4>3 DEF RefreshLooked
      <4> QED BY <1>o, <2>1, <4>4 DEF NoFalseAlarm
    <3>3. CASE r.tok \notin revoked
      BY <1>8, <1>o, <3>3 DEF RefreshLooked, NoFalseAlarm
    <3> QED BY <3>1, <3>2, <3>3
  <2> QED BY <1>o, <2>1, <2>4, <2>5, FamiliesStay DEF CalmInv
<1>9. ASSUME NEW r \in asked, RefreshRotated(r) PROVE FamilyOrder' /\ NoFalseAlarm' /\ CalmInv'
  <2>1. r \in Refreshes /\ issued \in Nat /\ r.tok \in 1..issued /\ r.tok \in Tokens
    BY <1>o DEF TypeInv, Refreshes
  <2>2. holder[r.tok] \in People /\ family[r.tok] \in Tokens /\ Issue(holder[r.tok], family[r.tok])
    BY <1>9, <1>o, <2>1 DEF TypeInv, RefreshRotated
  <2>3. /\ \A t \in 1..issued : Newest(t) /\ family[t] # family[r.tok] => Newest(t)'
        /\ Newest(issued)' /\ \A t \in 1..issued : family'[t] = family[t]
    BY <1>o, <2>2, NewestSurvives
  <2>4. issued' = issued + 1 /\ family'[issued + 1] = family[r.tok]
    BY <1>o, <2>2, IssueKeeps
  <2>5. /\ revoked' = revoked \union {r.tok}
        /\ UNCHANGED <<memory, storing, refreshing, disturbed, alarmed>>
    BY <1>9 DEF RefreshRotated
  <2>6. PICK over : /\ over.tok = r.tok /\ over.st = "rotated" /\ over.new = issued + 1
                    /\ asked' = (asked \ {r}) \union {over}
    <3> DEFINE new == [[r EXCEPT !.st = "rotated"] EXCEPT !.new = issued + 1]
    <3>1. new.tok = r.tok /\ new.st = "rotated" /\ new.new = issued + 1
      BY <2>1 DEF Refreshes
    <3>2. asked' = (asked \ {r}) \union {new}
      BY <1>9, <2>1 DEF RefreshRotated, Refreshes
    <3> HIDE DEF new
    <3> QED BY <3>1, <3>2
  <2>7. \A x \in 1..issued' : x \in 1..issued \/ x = issued + 1
    BY <2>1, <2>4
  <2>8. ASSUME ~disturbed PROVE Families' /\ FlightInv' /\ PairInv'
    <3>1. FlightInv /\ PairInv /\ Families
      BY <1>o, <2>8
    <3>2. asked' = {over} /\ Newest(r.tok) /\ r.tok = refreshing /\ (storing # 0 => family[storing] # family[r.tok])
      BY <1>9, <2>6, <3>1 DEF FlightInv, RefreshRotated
    <3>3. storing \in 0..issued /\ memory \in 0..issued
      BY <1>o DEF TypeInv
    <3>4. FlightInv'
      <4>1. over.new = issued' /\ Newest(over.new)' /\ family'[over.new] = family'[over.tok]
        BY <2>1, <2>3, <2>4, <2>6 DEF Newest
      <4>2. storing # 0 => family'[storing] # family'[over.tok]
        BY <2>1, <2>3, <2>6, <3>2, <3>3
      <4>3. asked' = {over} /\ over.tok = refreshing' /\ over.st = "rotated" /\ (storing' # 0 => family'[storing'] # family'[over.tok])
        BY <2>5, <2>6, <3>2, <4>2
      <4> QED BY <4>1, <4>3 DEF FlightInv, Newest
    <3>5. memory # 0 => memory = refreshing \/ (family[memory] # family[r.tok] /\ Newest(memory))
      <4>1. ASSUME memory # 0, memory # refreshing PROVE family[memory] # family[r.tok] /\ Newest(memory)
        <5>1. Newest(memory) /\ memory \in 1..issued /\ Newest(r.tok)
          BY <2>1, <3>1, <3>2, <3>3, <4>1 DEF PairInv
        <5>2. family[memory] = family[r.tok] => memory <= r.tok /\ r.tok <= memory
          BY <2>1, <5>1 DEF Newest
        <5> QED BY <2>1, <3>2, <4>1, <5>1, <5>2
      <4> QED BY <4>1
    <3>6. memory # 0 => memory \in 1..issued
      BY <2>1, <3>3
    <3>7. storing # 0 => storing \in 1..issued /\ Newest(storing) /\ refreshing # 0
      BY <2>1, <3>1, <3>2, <3>3 DEF PairInv
    <3>8. memory # 0 => memory = refreshing \/ Newest(memory)'
      BY <2>3, <2>5, <3>5, <3>6
    <3>9. storing # 0 => Newest(storing)'
      BY <2>3, <2>5, <3>2, <3>7
    <3>10. PairInv'
      BY <2>5, <3>7, <3>8, <3>9 DEF PairInv
    <3>11. Families'
      <4>1. ASSUME NEW t \in 1..issued', NEW x \in 1..issued', family'[t] = family'[x], t < x PROVE t \in revoked'
        <5>1. CASE x \in 1..issued
          <6>1. t \in 1..issued
            BY <2>1, <2>4, <4>1, <5>1
          <6> QED BY <2>3, <2>5, <3>1, <4>1, <5>1, <6>1 DEF Families
        <5>2. CASE x = issued + 1
          <6>1. t \in 1..issued /\ family[t] = family[r.tok]
            BY <2>1, <2>3, <2>4, <2>7, <4>1, <5>2
          <6>2. t <= r.tok
            BY <3>2, <6>1 DEF Newest
          <6>3. t = r.tok \/ t \in revoked
            BY <2>1, <3>1, <6>1, <6>2 DEF Families
          <6> QED BY <2>5, <6>3
        <5> QED BY <2>7, <5>1, <5>2
      <4> QED BY <4>1 DEF Families
    <3> QED BY <3>4, <3>10, <3>11
  <2>9. FamilyOrder'
    <3>1. \A t \in 1..issued : family[t] \in Int
      BY <1>o DEF TypeInv
    <3>2. family[r.tok] <= issued + 1
      BY <1>o, <2>1, <3>1 DEF FamilyOrder
    <3> QED BY <1>o, <2>1, <2>3, <2>4, <2>7, <3>2 DEF FamilyOrder
  <2> QED BY <1>o, <2>5, <2>8, <2>9 DEF NoFalseAlarm, CalmInv
<1>10. ASSUME NEW r \in asked, RefreshAnswered(r) PROVE FamilyOrder' /\ NoFalseAlarm' /\ CalmInv'
  <2>1. UNCHANGED <<issued, family, revoked, disturbed, alarmed>> /\ asked' = asked \ {r} /\ storing = 0
    BY <1>10 DEF RefreshAnswered
  <2>2. r \in Refreshes /\ r.tok \in 1..issued /\ r.tok = refreshing
    BY <1>10, <1>o DEF TypeInv, Refreshes, RefreshAnswered
  <2>3. ASSUME ~disturbed PROVE FlightInv' /\ PairInv'
    <3>1. FlightInv /\ PairInv /\ \A t : Newest(t)' = Newest(t)
      BY <1>o, <2>1, <2>3, NewestStays
    <3>2. asked' = {}
      BY <2>1, <3>1 DEF FlightInv
    <3>3. \/ r.st = "rotated" /\ storing' = r.new /\ Newest(r.new) /\ UNCHANGED <<memory, refreshing>>
          \/ memory' = 0 /\ storing' = 0
      BY <1>10, <3>1 DEF RefreshAnswered, FlightInv
    <3>4. FlightInv'
      BY <3>2 DEF FlightInv
    <3>5. PairInv'
      BY <2>1, <2>2, <3>1, <3>3 DEF PairInv
    <3> QED BY <3>4, <3>5
  <2> QED BY <1>o, <2>1, <2>3, FamiliesStay DEF NoFalseAlarm, CalmInv
<1> QED
  BY <1>1, <1>2, <1>3, <1>4, <1>5, <1>6, <1>7, <1>8, <1>9, <1>10 DEF SessionsNext

\* An app that keeps running and gets its answers never sets off the alarm for stolen tokens
\* (refresh-single-flight.ts:1-11, auth.service.ts:108-117), with any number of sign-ins, refreshes
\* and log-outs around each other.
THEOREM NoFalseAlarmCorrect == SessionsSpec => []NoFalseAlarm
<1>1. AlarmInv => NoFalseAlarm
  BY DEF AlarmInv
<1> QED BY <1>1, AlarmInit, AlarmStep, PTL DEF SessionsSpec
-----------------------------------------------------------------------------
(* A phone gets the notifications of the account that is signed in on it.  *)

\* What a request says of itself.
CallsInv == \A c \in pushCalls :
  /\ c.st \in {"done", "refused"} => c.waited
  /\ c.st = "asking" => c.by = NoMember
  /\ c.st = "done" => c.by # NoMember
  /\ c.st = "refused" => c.by = NoMember

\* Nothing from before this sign-in is about: the row is the registration's doing.
FreshInv == ~late =>
  /\ registered => /\ pushCalls = {} /\ going = "no" /\ installed /\ notice # "gone"
                   /\ user # NoMember /\ row = user
  /\ \A c \in pushCalls : c.kind = "post" =>
       /\ pushCalls = {c} /\ going = "no" /\ c.by \notin removed
       /\ c.waited => installed /\ notice # "gone"
       /\ c.st = "done" => row = c.by

\* Nothing failed to take the row back: it is the user's, and the call that takes it back is alone.
UncutInv == ~cut =>
  /\ row \in {NoMember, user}
  /\ user = NoMember \/ going = "telling" => row = NoMember /\ pushCalls = {}
  /\ \A c \in pushCalls : /\ c.st # "asking" => c.by = user
                          /\ c.kind = "post" => going = "no"
                          /\ c.kind = "delete" => /\ going = "unregistering" /\ pushCalls = {c} /\ c.waited
                                                  /\ c.st = "done" => row = NoMember

PushInv == PushTypeOK /\ CallsInv /\ FreshInv /\ UncutInv /\ user \notin removed

LEMMA PushInitially == PushInit => PushInv
<1> SUFFICES ASSUME PushInit PROVE PushInv
  OBVIOUS
<1>1. PushTypeOK
  <2>1. 0 \in 0..MaxPushRuns /\ MaxLosses \in 0..MaxLosses
    BY PushAssumption
  <2> QED BY <2>1 DEF PushInit, PushTypeOK, AnyMember
<1>2. CallsInv /\ FreshInv /\ UncutInv /\ user \notin removed
  BY DEF PushInit, CallsInv, FreshInv, UncutInv
<1> QED BY <1>1, <1>2 DEF PushInv

\* A new run is one more call, without credentials yet.
LEMMA RunStarts ==
  ASSUME PushTypeOK, NEW kind \in {"post", "delete"}, NEW among, among \subseteq PushCalls,
         Runs(kind, among)
  PROVE  /\ pushRuns' \in 0..MaxPushRuns /\ pushCalls' \subseteq PushCalls
         /\ \E c \in PushCalls : /\ pushCalls' = among \union {c}
                                 /\ c.kind = kind /\ c.by = NoMember /\ c.st = "asking" /\ c.waited
<1> DEFINE c == [kind |-> kind, by |-> NoMember, st |-> "asking", waited |-> TRUE, no |-> pushRuns + 1]
<1>1. pushRuns \in Nat /\ MaxPushRuns \in Nat /\ pushRuns < MaxPushRuns /\ pushRuns' = pushRuns + 1
  BY PushAssumption DEF PushTypeOK, Runs
<1>2. c \in PushCalls
  BY <1>1 DEF PushCalls, AnyMember
<1>3. pushCalls' = among \union {c}
  BY DEF Runs
<1>4. c.kind = kind /\ c.by = NoMember /\ c.st = "asking" /\ c.waited
  OBVIOUS
<1> HIDE DEF c
<1> QED BY <1>1, <1>2, <1>3, <1>4

\* What is still on its way after the app died has been sent, and nobody waits for it.
LEMMA OnTheWayIs ==
  ASSUME PushTypeOK
  PROVE  /\ OnTheWay \subseteq PushCalls
         /\ \A c \in OnTheWay : /\ c.st = "sent" /\ ~c.waited
                                /\ \E d \in pushCalls : c = [d EXCEPT !.waited = FALSE]
                                                        /\ c.kind = d.kind /\ c.by = d.by
         /\ pushCalls = {} => OnTheWay = {}
<1>1. ASSUME NEW d \in pushCalls, d.st = "sent"
      PROVE  LET c == [d EXCEPT !.waited = FALSE]
             IN  c \in PushCalls /\ c.st = "sent" /\ ~c.waited /\ c.kind = d.kind /\ c.by = d.by
  BY <1>1 DEF PushTypeOK, PushCalls
<1> QED BY <1>1 DEF OnTheWay

LEMMA LoseTypes == ASSUME PushTypeOK, Lose PROVE losses' \in 0..MaxLosses
  BY PushAssumption DEF PushTypeOK, Lose

\* The fields of a call, and what a change to one of them leaves.
LEMMA CallFields ==
  ASSUME PushTypeOK, NEW c \in pushCalls
  PROVE  /\ c \in PushCalls /\ c.kind \in {"post", "delete"} /\ c.by \in AnyMember
         /\ c.st \in {"asking", "sent", "done", "refused"} /\ c.waited \in BOOLEAN
  BY DEF PushTypeOK, PushCalls
LEMMA CallSent ==
  ASSUME PushTypeOK, NEW c \in pushCalls, NEW d, d = [c EXCEPT !.st = "sent", !.by = user]
  PROVE  d \in PushCalls /\ d.st = "sent" /\ d.by = user /\ d.kind = c.kind /\ d.waited = c.waited
  BY DEF PushTypeOK, PushCalls
LEMMA CallResent ==
  ASSUME PushTypeOK, NEW c \in pushCalls, NEW d, d = [c EXCEPT !.by = user]
  PROVE  d \in PushCalls /\ d.st = c.st /\ d.by = user /\ d.kind = c.kind /\ d.waited = c.waited
  BY DEF PushTypeOK, PushCalls
LEMMA CallServed ==
  ASSUME PushTypeOK, NEW c \in pushCalls, NEW st \in {"done", "refused"}, NEW d, d = [c EXCEPT !.st = st]
  PROVE  d \in PushCalls /\ d.st = st /\ d.by = c.by /\ d.kind = c.kind /\ d.waited = c.waited
  BY DEF PushTypeOK, PushCalls
LEMMA CallLeft ==
  ASSUME PushTypeOK, NEW c \in pushCalls, NEW d, d = [c EXCEPT !.waited = FALSE]
  PROVE  d \in PushCalls /\ d.st = c.st /\ d.by = c.by /\ d.kind = c.kind /\ ~d.waited
  BY DEF PushTypeOK, PushCalls

LEMMA PushStep == PushInv /\ [PushNext]_pushVars => PushInv'
<1> SUFFICES ASSUME PushInv, [PushNext]_pushVars PROVE PushInv'
  OBVIOUS
<1> USE DEF seat, pushMarks
<1>o. PushTypeOK /\ CallsInv /\ FreshInv /\ UncutInv /\ user \notin removed
  BY DEF PushInv
<1>m. NoMember \notin Members /\ NoMember \notin removed
  BY <1>o, PushAssumption DEF PushTypeOK
<1>1. CASE UNCHANGED pushVars
  BY <1>1, <1>o DEF PushInv, pushVars, PushTypeOK, CallsInv, FreshInv, UncutInv
<1>2. ASSUME NEW p \in Members, EnterAs(p) PROVE PushInv'
  <2>1. PICK c \in PushCalls : /\ pushCalls' = pushCalls \union {c}
                               /\ c.kind = "post" /\ c.by = NoMember /\ c.st = "asking" /\ c.waited
    BY <1>2, <1>o, RunStarts DEF EnterAs, PushTypeOK
  <2>2. PushTypeOK'
    BY <1>2, <1>o, RunStarts DEF EnterAs, PushTypeOK, AnyMember
  <2>3. CallsInv'
    BY <1>o, <2>1 DEF CallsInv
  <2>4. FreshInv'
    BY <1>2, <1>m, <2>1 DEF EnterAs, FreshInv
  <2>5. UncutInv'
    BY <1>2, <1>o, <1>m, <2>1 DEF EnterAs, UncutInv
  <2> QED BY <1>2, <2>2, <2>3, <2>4, <2>5 DEF EnterAs, PushInv
<1>3. ASSUME NEW w \in {"logout", "remove"}, StartLeaving(w) PROVE PushInv'
  <2>1. PICK c \in PushCalls : /\ pushCalls' = pushCalls \union {c}
                               /\ c.kind = "delete" /\ c.by = NoMember /\ c.st = "asking" /\ c.waited
    BY <1>3, <1>o, RunStarts DEF StartLeaving, PushTypeOK
  <2>2. PushTypeOK'
    BY <1>3, <1>o, RunStarts DEF StartLeaving, PushTypeOK
  <2>3. CallsInv'
    BY <1>o, <2>1 DEF CallsInv
  <2>4. FreshInv'
    BY <1>3, <2>1 DEF StartLeaving, FreshInv
  <2>5. UncutInv'
    BY <1>3, <1>o, <2>1 DEF StartLeaving, UncutInv
  <2> QED BY <1>3, <1>o, <2>2, <2>3, <2>4, <2>5 DEF StartLeaving, PushInv
<1>4. ASSUME NEW c \in pushCalls, Send(c) PROVE PushInv'
  <2> DEFINE d == [c EXCEPT !.st = "sent", !.by = user]
  <2>1. d \in PushCalls /\ d.st = "sent" /\ d.by = user /\ d.kind = c.kind /\ d.waited = c.waited
    BY <1>o, CallSent
  <2>2. pushCalls' = (pushCalls \ {c}) \union {d} /\ c.st = "asking"
    BY <1>4 DEF Send
  <2>3. UNCHANGED <<row, seat, pushRuns, losses, removed, notice, pushMarks>>
    BY <1>4 DEF Send
  <2> HIDE DEF d
  <2>4. PushTypeOK' /\ CallsInv'
    BY <1>o, <2>1, <2>2, <2>3 DEF PushTypeOK, CallsInv
  <2>5. FreshInv'
    BY <1>o, <2>1, <2>2, <2>3 DEF FreshInv
  <2>6. UncutInv'
    BY <1>o, <2>1, <2>2, <2>3 DEF UncutInv
  <2> QED BY <1>o, <2>3, <2>4, <2>5, <2>6 DEF PushInv
<1>5. ASSUME NEW c \in pushCalls, SendAgain(c) PROVE PushInv'
  <2> DEFINE d == [c EXCEPT !.by = user]
  <2>1. d \in PushCalls /\ d.st = c.st /\ d.by = user /\ d.kind = c.kind /\ d.waited = c.waited
    BY <1>o, CallResent
  <2>2. pushCalls' = (pushCalls \ {c}) \union {d} /\ c.st = "sent" /\ user # NoMember
    BY <1>5 DEF SendAgain
  <2>3. UNCHANGED <<row, seat, pushRuns, removed, notice, pushMarks>> /\ losses' \in 0..MaxLosses
    BY <1>5, <1>o, LoseTypes DEF SendAgain
  <2> HIDE DEF d
  <2>4. PushTypeOK' /\ CallsInv'
    BY <1>o, <2>1, <2>2, <2>3 DEF PushTypeOK, CallsInv
  <2>5. FreshInv'
    BY <1>o, <2>1, <2>2, <2>3 DEF FreshInv
  <2>6. UncutInv'
    BY <1>o, <2>1, <2>2, <2>3 DEF UncutInv
  <2> QED BY <1>o, <2>3, <2>4, <2>5, <2>6 DEF PushInv
<1>6. ASSUME NEW c \in pushCalls, CallAnswered(c) PROVE PushInv'
  <2>1. /\ c.st \in {"done", "refused"} /\ c.waited /\ pushCalls' = pushCalls \ {c}
        /\ c.kind \in {"post", "delete"} /\ c.by \in AnyMember
        /\ UNCHANGED <<row, user, installed, why, pushRuns, losses, removed, notice, late>>
        /\ going' = IF c.kind = "delete" THEN "telling" ELSE going
    BY <1>6, <1>o, CallFields DEF CallAnswered, CallsInv, Unregistered
  <2>2. registered' = (registered \/ MovesHere(c)) /\ cut' = (cut /\ (late \/ ~MovesHere(c)))
    BY <1>6 DEF CallAnswered
  <2>3. MovesHere(c) => c.kind = "post" /\ c.st = "done" /\ user = c.by /\ user # NoMember /\ going = "no"
    BY <1>o DEF MovesHere, CallsInv
  <2>4. MovesHere(c) \in BOOLEAN
    BY DEF MovesHere
  <2>5. PushTypeOK'
    BY <1>o, <2>1, <2>2, <2>4 DEF PushTypeOK
  <2>6. CallsInv'
    BY <1>o, <2>1 DEF CallsInv
  <2>7. FreshInv'
    BY <1>o, <2>1, <2>2, <2>3 DEF FreshInv
  <2>8. CASE cut'
    BY <1>o, <2>1, <2>5, <2>6, <2>7, <2>8 DEF PushInv, UncutInv
  <2>9. CASE ~cut' /\ cut
    <3>1. MovesHere(c) /\ ~late
      BY <2>2, <2>9
    <3>2. pushCalls' = {} /\ row' = user' /\ user' # NoMember /\ going' = "no"
      BY <1>o, <2>1, <2>3, <3>1 DEF FreshInv
    <3> QED BY <1>o, <2>1, <2>5, <2>6, <2>7, <3>2 DEF PushInv, UncutInv
  <2>10. CASE ~cut
    <3>0. c.by = user /\ user # NoMember /\ c.st = "done"
      BY <1>o, <2>1, <2>10 DEF UncutInv, CallsInv
    <3>1. UncutInv'
      BY <1>o, <2>1, <2>10, <3>0 DEF UncutInv
    <3> QED BY <1>o, <2>1, <2>5, <2>6, <2>7, <3>1 DEF PushInv
  <2> QED BY <2>8, <2>9, <2>10
<1>7. ASSUME NEW c \in pushCalls, NotAsked(c) PROVE PushInv'
  <2>1. /\ pushCalls' = pushCalls \ {c} /\ cut' = (cut \/ c.kind = "delete") /\ c.kind \in {"post", "delete"}
        /\ UNCHANGED <<row, user, installed, why, pushRuns, losses, removed, notice, registered, late>>
        /\ going' = IF c.kind = "delete" /\ c.waited THEN "telling" ELSE going
    BY <1>7, <1>o, CallFields DEF NotAsked, Unregistered
  <2>2. PushTypeOK' /\ CallsInv'
    BY <1>o, <2>1 DEF PushTypeOK, CallsInv
  <2>3. FreshInv'
    BY <1>o, <2>1 DEF FreshInv
  <2>4. UncutInv'
    BY <1>o, <2>1 DEF UncutInv
  <2> QED BY <1>o, <2>1, <2>2, <2>3, <2>4 DEF PushInv
<1>8. ASSUME NEW c \in pushCalls, CallLost(c) \/ TimedOut(c) PROVE PushInv'
  <2> DEFINE d == [c EXCEPT !.waited = FALSE]
  <2>1. d \in PushCalls /\ d.st = c.st /\ d.by = c.by /\ d.kind = c.kind /\ ~d.waited /\ c.kind \in {"post", "delete"}
    BY <1>o, CallLeft, CallFields
  <2>2. /\ \/ pushCalls' = pushCalls \ {c}
           \/ pushCalls' = (pushCalls \ {c}) \union {d} /\ c.st \in {"asking", "sent"}
        /\ UNCHANGED <<row, user, installed, why, pushRuns, removed, notice, registered, late>>
        /\ going' = IF c.kind = "delete" THEN "telling" ELSE going
    BY <1>8 DEF CallLost, TimedOut, Unregistered
  <2>3. losses' \in 0..MaxLosses /\ cut' \in BOOLEAN /\ (~cut' => ~cut /\ c.kind = "post")
    BY <1>8, <1>o, <2>1, LoseTypes DEF CallLost, TimedOut, PushTypeOK
  <2> HIDE DEF d
  <2>4. PushTypeOK'
    BY <1>o, <2>1, <2>2, <2>3 DEF PushTypeOK
  <2>5. CallsInv'
    BY <1>o, <2>1, <2>2 DEF CallsInv
  <2>6. FreshInv'
    BY <1>o, <2>1, <2>2 DEF FreshInv
  <2>7. UncutInv'
    BY <1>o, <2>1, <2>2, <2>3 DEF UncutInv
  <2> QED BY <1>o, <2>2, <2>4, <2>5, <2>6, <2>7 DEF PushInv
<1>9. ASSUME NEW c \in pushCalls, Serve(c) PROVE PushInv'
  <2> DEFINE st == IF c.by = NoMember THEN "refused" ELSE "done"
             d == [c EXCEPT !.st = st]
  <2>1. /\ d \in PushCalls /\ d.st = st /\ d.by = c.by /\ d.kind = c.kind /\ d.waited = c.waited
        /\ c.by \in AnyMember /\ c.kind \in {"post", "delete"} /\ st \in {"refused", "done"}
    BY <1>o, CallServed, CallFields
  <2>2. /\ c.st = "sent"
        /\ IF c.waited THEN pushCalls' = (pushCalls \ {c}) \union {d} ELSE pushCalls' = pushCalls \ {c}
        /\ UNCHANGED <<seat, pushRuns, losses, removed, notice, pushMarks>>
    BY <1>9 DEF Serve
  <2>3. /\ c.by = NoMember => row' = row /\ st = "refused"
        /\ c.by # NoMember => st = "done"
        /\ c.by # NoMember /\ c.kind = "post" => row' = c.by
        /\ c.by # NoMember /\ c.kind = "delete" => row' = IF row = c.by THEN NoMember ELSE row
    BY <1>9 DEF Serve
  <2> HIDE DEF d, st
  <2>4. row' \in AnyMember
    BY <1>o, <2>1, <2>3 DEF PushTypeOK, AnyMember
  <2>5. PushTypeOK'
    BY <1>o, <2>1, <2>2, <2>4 DEF PushTypeOK
  <2>6. CallsInv'
    BY <1>o, <2>1, <2>2, <2>3 DEF CallsInv
  <2>7. FreshInv'
    <3> SUFFICES ASSUME ~late PROVE FreshInv'
      BY <2>2 DEF FreshInv
    <3>1. ~registered
      BY <1>o DEF FreshInv
    <3>2. CASE c.kind = "post"
      BY <1>o, <2>1, <2>2, <2>3, <3>1, <3>2 DEF FreshInv
    <3>3. CASE c.kind = "delete"
      <4>1. \A e \in pushCalls' : e.kind # "post"
        BY <1>o, <2>1, <2>2, <3>3 DEF FreshInv
      <4> QED BY <2>2, <3>1, <4>1 DEF FreshInv
    <3> QED BY <2>1, <3>2, <3>3
  <2>8. UncutInv'
    <3> SUFFICES ASSUME ~cut PROVE UncutInv'
      BY <2>2 DEF UncutInv
    <3>1. c.by = user /\ user # NoMember /\ going # "telling" /\ row \in {NoMember, user}
      BY <1>o, <2>2 DEF UncutInv
    <3>2. CASE c.kind = "post"
      BY <1>o, <2>1, <2>2, <2>3, <3>1, <3>2 DEF UncutInv
    <3>3. CASE c.kind = "delete"
      BY <1>o, <2>1, <2>2, <2>3, <3>1, <3>3 DEF UncutInv
    <3> QED BY <2>1, <3>2, <3>3
  <2> QED BY <1>o, <2>2, <2>5, <2>6, <2>7, <2>8 DEF PushInv
<1>10. ASSUME NEW c \in pushCalls, Vanishes(c) PROVE PushInv'
  BY <1>10, <1>o DEF Vanishes, PushInv, PushTypeOK, CallsInv, FreshInv, UncutInv
<1>11. ASSUME NEW agreed \in BOOLEAN, Left(agreed) PROVE PushInv'
  <2>1. /\ going = "telling" /\ going' = "no" /\ user' \in {user, NoMember}
        /\ \/ removed' = removed
           \/ removed' = removed \union ({user} \ {NoMember}) /\ user' = NoMember
        /\ UNCHANGED <<row, installed, why, pushCalls, pushRuns, losses, notice, pushMarks>>
    BY <1>11 DEF Left
  <2>2. PushTypeOK' /\ user' \notin removed'
    BY <1>o, <1>m, <2>1 DEF PushTypeOK, AnyMember
  <2>3. CallsInv'
    BY <1>o, <2>1 DEF CallsInv
  <2>4. FreshInv'
    BY <1>o, <2>1 DEF FreshInv
  <2>5. UncutInv'
    BY <1>o, <2>1 DEF UncutInv
  <2> QED BY <2>2, <2>3, <2>4, <2>5 DEF PushInv
<1>12. CASE SessionLost
  <2>1. losses' \in 0..MaxLosses
    BY <1>12, <1>o, LoseTypes DEF SessionLost
  <2>2. /\ user' = NoMember /\ ~registered' /\ registered' \in BOOLEAN /\ cut' = TRUE
        /\ UNCHANGED <<row, installed, going, why, pushCalls, pushRuns, removed, notice, late>>
    BY <1>12 DEF SessionLost
  <2> QED BY <1>o, <1>m, <2>1, <2>2 DEF PushInv, PushTypeOK, AnyMember, CallsInv, FreshInv, UncutInv
<1>13. CASE AppReopened
  <2>1. losses' \in 0..MaxLosses
    BY <1>13, <1>o, LoseTypes DEF AppReopened
  <2>2. /\ installed /\ going' = "no" /\ ~registered' /\ registered' \in BOOLEAN
        /\ late' = (late \/ pushCalls # {} \/ notice # "none") /\ cut' = (cut \/ pushCalls # {} \/ going # "no")
        /\ UNCHANGED <<row, user, installed, why, removed, notice>>
    BY <1>13 DEF AppReopened
  <2>3. /\ OnTheWay \subseteq PushCalls /\ (pushCalls = {} => OnTheWay = {})
        /\ \A c \in OnTheWay : c.st = "sent" /\ ~c.waited
    BY <1>o, OnTheWayIs
  <2>4. /\ pushRuns' \in 0..MaxPushRuns /\ pushCalls' \subseteq PushCalls
        /\ \/ pushCalls' = OnTheWay /\ user = NoMember
           \/ \E c \in PushCalls : /\ pushCalls' = OnTheWay \union {c} /\ user # NoMember
                                   /\ c.kind = "post" /\ c.by = NoMember /\ c.st = "asking" /\ c.waited
    <3>1. CASE user = NoMember
      BY <1>13, <1>o, <2>3, <3>1 DEF AppReopened, PushTypeOK
    <3>2. CASE user # NoMember
      <4>1. Runs("post", OnTheWay)
        BY <1>13, <3>2 DEF AppReopened
      <4> QED BY <1>o, <2>3, <3>2, <4>1, RunStarts
    <3> QED BY <3>1, <3>2
  <2>5. PushTypeOK'
    BY <1>o, <2>1, <2>2, <2>4 DEF PushTypeOK
  <2>6. CallsInv'
    BY <2>3, <2>4 DEF CallsInv
  <2>7. FreshInv'
    <3> SUFFICES ASSUME ~late' PROVE FreshInv'
      BY DEF FreshInv
    <3>1. OnTheWay = {} /\ notice' = "none" /\ installed'
      BY <2>2, <2>3
    <3> QED BY <1>m, <2>2, <2>4, <3>1 DEF FreshInv
  <2>8. UncutInv'
    <3> SUFFICES ASSUME ~cut' PROVE UncutInv'
      BY DEF UncutInv
    <3>1. OnTheWay = {} /\ ~cut /\ going = "no"
      BY <2>2, <2>3
    <3> QED BY <1>o, <2>2, <2>4, <3>1 DEF UncutInv
  <2> QED BY <1>o, <2>2, <2>5, <2>6, <2>7, <2>8 DEF PushInv
<1>14. CASE Uninstall
  <2>1. losses' \in 0..MaxLosses
    BY <1>14, <1>o, LoseTypes DEF Uninstall
  <2>2. /\ ~registered' /\ registered' \in BOOLEAN /\ cut' = TRUE /\ pushCalls' = OnTheWay /\ going' = "no"
        /\ user' = NoMember /\ installed' = FALSE /\ UNCHANGED <<row, why, pushRuns, removed, notice, late>>
    BY <1>14 DEF Uninstall
  <2>3. /\ OnTheWay \subseteq PushCalls
        /\ \A c \in OnTheWay : c.st = "sent" /\ ~c.waited
    BY <1>o, OnTheWayIs
  <2>4. PushTypeOK' /\ CallsInv'
    BY <1>o, <2>1, <2>2, <2>3 DEF PushTypeOK, CallsInv, AnyMember
  <2>5. FreshInv'
    <3> SUFFICES ASSUME ~late, NEW c \in OnTheWay, c.kind = "post"
                 PROVE OnTheWay = {c} /\ c.by \notin removed
      BY <2>2, <2>3 DEF FreshInv
    <3>1. PICK d \in pushCalls : c = [d EXCEPT !.waited = FALSE] /\ c.kind = d.kind /\ c.by = d.by
      BY <1>o, OnTheWayIs
    <3>2. pushCalls = {d} /\ d.by \notin removed
      BY <1>o, <3>1 DEF FreshInv
    <3>3. \A e \in OnTheWay : e = c
      BY <1>o, <3>1, <3>2, OnTheWayIs
    <3> QED BY <3>1, <3>2, <3>3
  <2> QED BY <1>m, <2>2, <2>4, <2>5 DEF PushInv, UncutInv
<1>15. CASE Reinstall \/ NoticeReads \/ NoticeSent
  <2>1. /\ UNCHANGED <<row, user, going, why, pushCalls, pushRuns, losses, removed, pushMarks>>
        /\ installed => installed' /\ (notice' # "gone" \/ notice' = notice)
        /\ installed' \in BOOLEAN /\ notice' \in {"none", "read", "gone"}
    BY <1>15, <1>o DEF Reinstall, NoticeReads, NoticeSent, PushTypeOK
  <2>2. PushTypeOK' /\ CallsInv' /\ UncutInv'
    BY <1>o, <2>1 DEF PushTypeOK, CallsInv, UncutInv
  <2>3. FreshInv'
    BY <1>o, <2>1, <1>15 DEF FreshInv, Reinstall, NoticeReads, NoticeSent
  <2> QED BY <1>o, <2>1, <2>2, <2>3 DEF PushInv
<1>16. ASSUME DropGone \/ \E p \in Members : Cascade(p) PROVE PushInv'
  <2>1. /\ notice = "gone" \/ row \in removed
        /\ UNCHANGED <<seat, pushCalls, pushRuns, losses, removed, pushMarks>>
        /\ notice' \in {"none", notice} /\ row' = NoMember
    BY <1>16 DEF DropGone, Cascade
  <2>2. PushTypeOK' /\ CallsInv'
    BY <1>o, <2>1 DEF PushTypeOK, AnyMember, CallsInv
  <2>3. FreshInv'
    <3> SUFFICES ASSUME ~late PROVE FreshInv'
      BY <2>1 DEF FreshInv
    <3>1. ~registered /\ \A c \in pushCalls : c.kind = "post" => c.st # "done"
      BY <1>o, <2>1 DEF FreshInv, CallsInv
    <3> QED BY <1>o, <2>1, <3>1 DEF FreshInv
  <2>4. UncutInv'
    BY <1>o, <2>1 DEF UncutInv
  <2> QED BY <1>o, <2>1, <2>2, <2>3, <2>4 DEF PushInv
<1> QED
  BY <1>1, <1>2, <1>3, <1>4, <1>5, <1>6, <1>7, <1>8, <1>9, <1>10, <1>11, <1>12, <1>13, <1>14, <1>15,
     <1>16 DEF PushNext

\* A phone gets the notifications of the account that is signed in on it, and none after a log-out
\* whose call was answered (push-tokens.controller.ts:20, push-registration.ts:77-90), with any
\* number of accounts, registrations, losses, restarts and reinstallations.
THEOREM PushesFollowTheUserCorrect == PushSpec => []PushesFollowTheUser
<1>1. PushInv => PushesFollowTheUser
  BY DEF PushInv, FreshInv, UncutInv, PushesFollowTheUser
<1> QED BY <1>1, PushInitially, PushStep, PTL DEF PushSpec

------------------------------------------------------------------------------
Rows == [deleted : Int, sub : BOOLEAN, consent : BOOLEAN, term : Int]
Steps == {"none", "checked", "unlinked", "new", "lost", "held", "in", "rejected", "error", "done"}
Forms == [kind : {"none"} \cup Kinds, st : Steps, id : Int, row : Rows]

RowTypes == account \in Rows /\ req \in [Requests -> Forms] /\ today \in Nat /\ inserted \in Nat

\* An account that a request found, or missed, on this day cannot have been cleared away yet.
Recent == account.deleted \in {-1, today}

RowsInv ==
  /\ RowTypes
  /\ Exists => account.term \in Nat
  /\ \A r \in Requests :
       /\ req[r].st \in {"held", "lost"} => Exists /\ Recent
       /\ req[r].st = "new" /\ Exists => Recent
       /\ req[r].st = "held" => req[r].row.deleted \in {-1, today} /\ req[r].row.term \in Nat

AccountInv == RowsInv /\ SignInsMeet

------------------------------------------------------------------------------

LEMMA NoAccountRow == NoAccount \in Rows /\ NoAccount.deleted = -1 /\ NoAccount.term = -1
BY DEF NoAccount, Rows

\* Whatever is set on an account's own, it stays one.
LEMMA ChangedRow ==
  ASSUME NEW own \in Rows, NEW term \in Nat
  PROVE  /\ own.deleted \in Int /\ own.term \in Int
         /\ [own EXCEPT !.sub = TRUE] \in Rows /\ [own EXCEPT !.sub = TRUE].term = own.term
         /\ [own EXCEPT !.sub = TRUE].deleted = own.deleted
         /\ [own EXCEPT !.consent = TRUE] \in Rows /\ [own EXCEPT !.consent = TRUE].term = own.term
         /\ [own EXCEPT !.consent = TRUE].deleted = own.deleted
         /\ [own EXCEPT !.term = term] \in Rows /\ [own EXCEPT !.term = term].term = term
         /\ [own EXCEPT !.term = term].deleted = own.deleted
<1>1. /\ own.deleted \in Int /\ own.term \in Int
      /\ [own EXCEPT !.sub = TRUE] \in Rows /\ [own EXCEPT !.sub = TRUE].term = own.term
      /\ [own EXCEPT !.sub = TRUE].deleted = own.deleted
  BY DEF Rows
<1>2. /\ [own EXCEPT !.consent = TRUE] \in Rows /\ [own EXCEPT !.consent = TRUE].term = own.term
      /\ [own EXCEPT !.consent = TRUE].deleted = own.deleted
  BY DEF Rows
<1>3. /\ [own EXCEPT !.term = term] \in Rows /\ [own EXCEPT !.term = term].term = term
      /\ [own EXCEPT !.term = term].deleted = own.deleted
  BY DEF Rows
<1> QED BY <1>1, <1>2, <1>3

LEMMA RemovedRow ==
  ASSUME NEW own \in Rows, NEW day \in Nat
  PROVE  /\ [own EXCEPT !.deleted = day] \in Rows /\ [own EXCEPT !.deleted = day].term = own.term
         /\ [own EXCEPT !.deleted = day].deleted = day
BY DEF Rows

LEMMA AccountInit == AccountsInit => AccountInv
<1> SUFFICES ASSUME AccountsInit PROVE AccountInv
  OBVIOUS
<1>1. PICK f : f = [kind |-> "none", st |-> "none", id |-> 0, row |-> NoAccount]
  OBVIOUS
<1>2. f \in Forms /\ f.kind = "none" /\ f.st = "none"
  BY <1>1, NoAccountRow DEF Forms, Steps
<1>3. req = [r \in Requests |-> f] /\ account = NoAccount /\ today = 0 /\ inserted = 0
  BY <1>1 DEF AccountsInit
<1>4. RowTypes
  BY <1>2, <1>3, NoAccountRow DEF RowTypes
<1>5. \A r \in Requests : req[r].st = "none" /\ req[r].kind = "none"
  BY <1>2, <1>3
<1> QED BY <1>3, <1>4, <1>5 DEF AccountInv, RowsInv, SignInsMeet, Exists

\* A step of one request.
LEMMA RequestMoves ==
  ASSUME AccountInv, NEW r \in Requests, NEW f \in Forms, req' = [req EXCEPT ![r] = f],
         account' \in Rows, inserted' \in Nat, UNCHANGED today,
         Exists' => account'.term \in Nat,
         \* the account stays where others need it, or stays away
         Exists => Exists' /\ (Recent => Recent'), ~Exists /\ Exists' => Recent',
         f.st \in {"held", "lost"} => Exists' /\ Recent',
         f.st = "new" /\ Exists' => Recent',
         f.st = "held" => f.row.deleted \in {-1, today} /\ f.row.term \in Nat,
         f.kind = "google" => f.st # "error"
  PROVE  AccountInv'
<1>1. RowTypes /\ RowsInv /\ SignInsMeet
  BY DEF AccountInv, RowsInv
<1>2. req' \in [Requests -> Forms] /\ req'[r] = f /\ \A o \in Requests \ {r} : req'[o] = req[o]
  BY <1>1 DEF RowTypes
<1>3. RowTypes'
  BY <1>1, <1>2 DEF RowTypes
<1>4. ASSUME NEW o \in Requests
      PROVE  /\ req'[o].st \in {"held", "lost"} => Exists' /\ Recent'
             /\ req'[o].st = "new" /\ Exists' => Recent'
             /\ req'[o].st = "held" => req'[o].row.deleted \in {-1, today'} /\ req'[o].row.term \in Nat
             /\ req'[o].kind = "google" => req'[o].st # "error"
  <2>1. CASE o = r
    BY <1>2, <2>1
  <2>2. CASE o # r
    <3>1. req'[o] = req[o]
      BY <1>2, <2>2
    <3>2. /\ req[o].st \in {"held", "lost"} => Exists /\ Recent
          /\ req[o].st = "new" /\ Exists => Recent
          /\ req[o].st = "held" => req[o].row.deleted \in {-1, today} /\ req[o].row.term \in Nat
          /\ req[o].kind = "google" => req[o].st # "error"
      BY <1>1 DEF RowsInv, SignInsMeet
    <3> QED BY <3>1, <3>2
  <2> QED BY <2>1, <2>2
<1> QED BY <1>3, <1>4 DEF AccountInv, RowsInv, SignInsMeet

LEMMA RequestsKeep ==
  ASSUME AccountInv, NEW r \in Requests,
         \/ \E kind \in Kinds : Ask(r, kind)
         \/ \E kind \in Kinds, term \in Terms : Hold(r, kind, term)
         \/ AskByEmail(r) \/ Create(r) \/ Recovered(r) \/ Save(r)
  PROVE  AccountInv'
<1>a. RowTypes /\ RowsInv /\ SignInsMeet /\ req[r] \in Forms /\ account \in Rows /\ today \in Nat /\ inserted \in Nat
  BY DEF AccountInv, RowsInv, RowTypes
<1>b. PICK q \in Forms : q = req[r]
  BY <1>a
<1>c. q.kind \in {"none"} \cup Kinds /\ q.st \in Steps /\ q.row \in Rows /\ q.id \in Int
  BY DEF Forms
<1>d. UNCHANGED today
  BY DEF Ask, Hold, AskByEmail, Create, Recovered, Save, rest
<1>0. /\ RowTypes /\ RowsInv /\ SignInsMeet /\ account \in Rows /\ today \in Nat /\ inserted \in Nat /\ UNCHANGED today
      /\ q = req[r] /\ q.kind \in {"none"} \cup Kinds /\ q.st \in Steps /\ q.row \in Rows /\ q.id \in Int
  BY <1>a, <1>b, <1>c, <1>d
<1>1. ASSUME NEW kind \in Kinds, Ask(r, kind) PROVE AccountInv'
  <2>1. PICK f : /\ f = [kind |-> kind, id |-> inserted, row |-> NoAccount,
                         st |-> CASE kind = "register" -> IF Exists THEN "rejected" ELSE "new"
                                  [] ~Exists \/ ~account.sub -> "unlinked"
                                  [] OTHER -> IF account.deleted = -1 THEN "in" ELSE "rejected"]
                 /\ req' = [req EXCEPT ![r] = f] /\ kind \in {"google", "register"}
    BY <1>1 DEF Ask
  <2>2. f.kind = kind /\ f.st \in {"rejected", "new", "unlinked", "in"} /\ (f.st = "new" => ~Exists)
    BY <2>1
  <2>3. f.id = inserted /\ f.row = NoAccount
    BY <2>1
  <2>4. f \in Forms
    BY <1>0, <2>1, <2>2, <2>3, NoAccountRow DEF Forms, Steps
  <2>5. UNCHANGED <<account, inserted, today>>
    BY <1>1 DEF Ask, rest
  <2>6. Exists' = Exists /\ Recent' = Recent
    BY <2>5 DEF Exists, Recent
  <2> QED BY <1>0, <2>1, <2>2, <2>4, <2>5, <2>6, RequestMoves DEF RowsInv
<1>2. ASSUME NEW kind \in Kinds, NEW term \in Terms, Hold(r, kind, term) PROVE AccountInv'
  <2>1. PICK own : own = CASE kind = "consent" -> [account EXCEPT !.consent = TRUE]
                           [] kind = "update" -> [account EXCEPT !.term = term]
                           [] OTHER -> [account EXCEPT !.deleted = today]
    OBVIOUS
  <2>2. Exists /\ account.deleted = -1 /\ account.term \in Nat /\ term \in Nat
    BY <1>0, <1>2, AccountsAssumption DEF Hold, Active, RowsInv
  <2>3. own \in Rows /\ own.deleted \in {-1, today} /\ own.term \in Nat
    <3>1. CASE kind = "consent"
      <4>1. own = [account EXCEPT !.consent = TRUE]
        BY <2>1, <3>1
      <4> QED BY <1>0, <2>2, <4>1, ChangedRow
    <3>2. CASE kind = "update"
      <4>1. own = [account EXCEPT !.term = term]
        BY <2>1, <3>2
      <4> QED BY <1>0, <2>2, <4>1, ChangedRow
    <3>3. CASE kind \notin {"consent", "update"}
      <4>1. own = [account EXCEPT !.deleted = today]
        BY <2>1, <3>3
      <4>2. account \in Rows /\ today \in Nat /\ account.term \in Nat
        BY <1>0, <2>2
      <4>3. /\ [account EXCEPT !.deleted = today] \in Rows
            /\ [account EXCEPT !.deleted = today].term = account.term
            /\ [account EXCEPT !.deleted = today].deleted = today
        BY <4>2, RemovedRow
      <4> QED BY <4>1, <4>2, <4>3
    <3> QED BY <3>1, <3>2, <3>3
  <2>4. PICK f : /\ f = [kind |-> kind, st |-> "held", id |-> inserted, row |-> own]
                 /\ req' = [req EXCEPT ![r] = f] /\ kind \in {"consent", "update", "remove"}
    BY <1>2, <2>1 DEF Hold
  <2>5. f.kind = kind /\ f.st = "held" /\ f.row = own /\ f.id = inserted
    BY <2>4
  <2>6. f \in Forms
    BY <1>0, <2>3, <2>4 DEF Forms, Steps
  <2>7. UNCHANGED <<account, inserted, today>>
    BY <1>2 DEF Hold, rest
  <2>8. Exists' = Exists /\ Recent' = Recent /\ Recent
    BY <2>2, <2>7 DEF Exists, Recent
  <2> QED BY <1>0, <2>2, <2>3, <2>4, <2>5, <2>6, <2>7, <2>8, RequestMoves
<1>3. CASE AskByEmail(r)
  <2>1. PICK own, st : /\ own = [account EXCEPT !.sub = TRUE]
                       /\ st = IF ~Exists THEN "new" ELSE IF account.deleted # -1 THEN "rejected" ELSE "held"
    OBVIOUS
  <2>2. own \in Rows /\ own.term = account.term /\ own.deleted = account.deleted
    BY <1>0, <2>1, ChangedRow
  <2>3. PICK f : f = [q EXCEPT !.id = inserted, !.row = own, !.st = st]
    OBVIOUS
  <2>4. f \in Forms /\ f.kind = q.kind /\ f.st = st /\ f.row = own
    <3>1. st \in Steps /\ inserted \in Int
      BY <1>0, <2>1 DEF Steps
    <3> QED BY <2>2, <2>3, <3>1 DEF Forms
  <2>5. f.kind = req[r].kind
    BY <1>0, <2>4
  <2>6. req' = [req EXCEPT ![r] = f]
    <3>1. req' = [req EXCEPT ![r].id = inserted, ![r].row = own, ![r].st = st]
      BY <1>3, <2>1 DEF AskByEmail
    <3>2. req \in [Requests -> Forms] /\ f = [req[r] EXCEPT !.id = inserted, !.row = own, !.st = st]
      BY <1>0, <2>3 DEF RowTypes
    <3> QED BY <3>1, <3>2
  <2>7. UNCHANGED <<account, inserted, today>>
    BY <1>3 DEF AskByEmail, rest
  <2>8. Exists' = Exists /\ Recent' = Recent /\ (account.deleted = -1 => Recent)
    BY <2>7 DEF Exists, Recent
  <2> QED BY <1>0, <2>1, <2>2, <2>4, <2>5, <2>6, <2>7, <2>8, RequestMoves DEF RowsInv
<1>4. CASE Create(r)
  <2>1. CASE Exists
    <3>1. PICK st : st = IF req[r].kind = "google" THEN "lost" ELSE "done"
      OBVIOUS
    <3>2. PICK f : f = [q EXCEPT !.st = st]
      OBVIOUS
    <3>3. f \in Forms /\ f.kind = q.kind /\ f.st = st
      <4>1. st \in Steps
        BY <3>1 DEF Steps
      <4> QED BY <3>2, <4>1 DEF Forms
    <3>4. req' = [req EXCEPT ![r] = f]
      <4>1. req' = [req EXCEPT ![r].st = st]
        BY <1>0, <1>4, <2>1, <3>1 DEF Create, Becoming
      <4> QED BY <1>0, <3>2, <4>1 DEF RowTypes
    <3>5. UNCHANGED <<account, inserted, today>>
      BY <1>4, <2>1 DEF Create, rest
    <3>6. Exists' = Exists /\ Recent' = Recent /\ Recent
      BY <1>0, <1>4, <2>1, <3>5 DEF Exists, Recent, RowsInv, Create
    <3> QED BY <1>0, <2>1, <3>1, <3>3, <3>4, <3>5, <3>6, RequestMoves DEF RowsInv
  <2>2. CASE ~Exists
    <3>1. PICK f : f = [q EXCEPT !.st = "in", !.id = inserted + 1]
      OBVIOUS
    <3>2. f \in Forms /\ f.kind = q.kind /\ f.st = "in"
      <4>1. "in" \in Steps /\ inserted + 1 \in Int
        BY <1>0 DEF Steps
      <4> QED BY <3>1, <4>1 DEF Forms
    <3>3. req' = [req EXCEPT ![r] = f]
      <4>1. req' = [req EXCEPT ![r].st = "in", ![r].id = inserted + 1]
        BY <1>4, <2>2 DEF Create
      <4> QED BY <1>0, <3>1, <4>1 DEF RowTypes
    <3>4. account' = [NoAccount EXCEPT !.sub = (req[r].kind = "google"), !.term = 0] /\ inserted' = inserted + 1
      BY <1>4, <2>2 DEF Create, Insert
    <3>5. account' \in Rows /\ account'.deleted = -1 /\ account'.term = 0
      <4>1. PICK b \in BOOLEAN : b = (req[r].kind = "google")
        OBVIOUS
      <4>2. account' = [NoAccount EXCEPT !.sub = b, !.term = 0]
        BY <3>4, <4>1
      <4>3. account' = [deleted |-> -1, sub |-> b, consent |-> FALSE, term |-> 0]
        BY <4>2 DEF NoAccount
      <4> QED BY <4>3 DEF Rows
    <3>6. Exists' /\ Recent'
      BY <3>5, NoAccountRow DEF Exists, Recent
    <3>7. inserted' \in Nat
      BY <1>0, <3>4
    <3>8. /\ Exists' => account'.term \in Nat
          /\ Exists => Exists' /\ (Recent => Recent')
          /\ ~Exists /\ Exists' => Recent'
      BY <2>2, <3>5, <3>6
    <3>9. f.st \notin {"held", "lost", "new", "error"}
      BY <3>2
    <3> QED BY <1>0, <3>2, <3>3, <3>5, <3>6, <3>7, <3>8, <3>9, RequestMoves
  <2> QED BY <2>1, <2>2
<1>5. CASE Recovered(r)
  <2>1. Exists /\ Recent
    BY <1>0, <1>5 DEF Recovered, RowsInv
  <2>2. PICK st : st = IF account.deleted # -1 THEN "rejected" ELSE "in"
    OBVIOUS
  <2>3. PICK f : f = [q EXCEPT !.id = inserted, !.st = st]
    OBVIOUS
  <2>4. f \in Forms /\ f.kind = q.kind /\ f.st = st
    <3>1. st \in Steps /\ inserted \in Int
      BY <1>0, <2>2 DEF Steps
    <3> QED BY <2>3, <3>1 DEF Forms
  <2>5. req' = [req EXCEPT ![r] = f]
    <3>1. req' = [req EXCEPT ![r].id = inserted, ![r].st = st]
      BY <1>5, <2>1, <2>2 DEF Recovered
    <3> QED BY <1>0, <2>3, <3>1 DEF RowTypes
  <2>6. UNCHANGED <<account, inserted, today>>
    BY <1>5 DEF Recovered, rest
  <2>7. Exists' = Exists /\ Recent' = Recent
    BY <2>6 DEF Exists, Recent
  <2> QED BY <1>0, <2>2, <2>4, <2>5, <2>6, <2>7, RequestMoves DEF RowsInv
<1>6. CASE Save(r)
  <2>1. PICK st \in {"in", "done"} : st = IF req[r].kind = "google" THEN "in" ELSE "done"
    OBVIOUS
  <2>2. PICK f : f = [q EXCEPT !.st = st]
    OBVIOUS
  <2>3. f \in Forms /\ f.kind = q.kind /\ f.st = st
    <3>1. st \in Steps
      BY <2>1 DEF Steps
    <3> QED BY <2>2, <3>1 DEF Forms
  <2>4. req' = [req EXCEPT ![r] = f]
    <3>1. req' = [req EXCEPT ![r].st = st]
      BY <1>6, <2>1 DEF Save, Becoming
    <3> QED BY <1>0, <2>2, <3>1 DEF RowTypes
  <2>5. /\ account' = req[r].row /\ req[r].row.deleted \in {-1, today} /\ req[r].row.term \in Nat
        /\ UNCHANGED <<inserted, today>> /\ Exists
    BY <1>0, <1>6 DEF Save, rest, RowsInv
  <2>6. Exists' /\ Recent'
    BY <2>5, NoAccountRow DEF Exists, Recent
  <2> QED BY <1>0, <2>1, <2>3, <2>4, <2>5, <2>6, RequestMoves
<1> QED BY <1>1, <1>2, <1>3, <1>4, <1>5, <1>6

\* The rows of the account and the requests are left alone.
LEMMA OthersKeep ==
  ASSUME AccountInv, UNCHANGED <<account, inserted, req, today>>
  PROVE  AccountInv'
BY DEF AccountInv, RowsInv, RowTypes, SignInsMeet, Exists, Recent

LEMMA DayKeeps == AccountInv /\ DayPasses => AccountInv'
<1> SUFFICES ASSUME AccountInv, DayPasses PROVE AccountInv'
  OBVIOUS
<1>1. \A r \in Requests : req[r].st \notin {"held", "lost", "new"}
  BY DEF DayPasses, Open, Ended
<1>2. UNCHANGED <<account, inserted, req>> /\ today' = today + 1
  BY DEF DayPasses
<1> QED BY <1>1, <1>2 DEF AccountInv, RowsInv, RowTypes, SignInsMeet, Exists, Recent

LEMMA HardDeleteKeeps == AccountInv /\ HardDelete => AccountInv'
<1> SUFFICES ASSUME AccountInv, HardDelete PROVE AccountInv'
  OBVIOUS
<1>1. account.deleted \in Int /\ today \in Nat /\ Exists
  BY ChangedRow DEF AccountInv, RowsInv, RowTypes, HardDelete, Rows
<1>2. ~Recent
  BY <1>1, AccountsAssumption DEF HardDelete, Recent
<1>3. \A r \in Requests : req[r].st \notin {"held", "lost", "new"}
  BY <1>1, <1>2 DEF AccountInv, RowsInv
<1>4. account' = NoAccount /\ UNCHANGED <<inserted, req, today>>
  BY DEF HardDelete
<1> QED BY <1>3, <1>4, NoAccountRow DEF AccountInv, RowsInv, RowTypes, SignInsMeet, Exists

LEMMA AccountStep == AccountInv /\ [AccountsNext]_accountVars => AccountInv'
<1> SUFFICES ASSUME AccountInv, [AccountsNext]_accountVars PROVE AccountInv'
  OBVIOUS
<1>1. CASE UNCHANGED accountVars
  BY <1>1, OthersKeep DEF accountVars
<1>2. CASE AccountsNext
  <2>1. ASSUME NEW m \in Mtgs, StartMeeting(m) \/ EndMeeting(m) \/ RetentionDelete(m) PROVE AccountInv'
    BY <2>1, OthersKeep DEF StartMeeting, EndMeeting, RetentionDelete
  <2>2. CASE RetentionSweep \/ RetentionPolicy
    BY <2>2, OthersKeep DEF RetentionSweep, RetentionPolicy
  <2> QED BY <1>2, <2>1, <2>2, RequestsKeep, DayKeeps, HardDeleteKeeps DEF AccountsNext
<1> QED BY <1>1, <1>2

\* Whatever else signs up, signs in, is changed, deleted or cleared away meanwhile, and for any number of
\* requests and days, a Google sign-in is never answered with an error: it ends in the account of that
\* address or is refused because the account was deleted (google-auth.service.ts).
THEOREM SignInsMeetCorrect == AccountsSpec => []SignInsMeet
<1>1. AccountInv => SignInsMeet
  BY DEF AccountInv
<1> QED BY <1>1, AccountInit, AccountStep, PTL DEF AccountsSpec

==============================================================================

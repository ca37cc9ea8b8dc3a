------------------------------- MODULE Accounts -------------------------------
(***************************************************************************)
(* One person's account (auth.service.ts register, google-auth.service.ts, *)
(* users.service.ts) and the jobs that clear it and its meetings away      *)
(* (account-deletion.job.ts, retention.job.ts).  A request reads the row,  *)
(* changes the entity it got and saves it: save() compares the entity with *)
(* the row as it is by then and writes every column that differs.          *)
(***************************************************************************)
EXTENDS Integers, FiniteSets

CONSTANTS
  Requests,    \* bound: requests, each used once
  MaxDays,     \* bound: days
  Grace,       \* HARD_DELETE_GRACE_DAYS
  Notice,      \* RETENTION_NOTICE_DAYS
  Terms,       \* values of retention_days, 0 for NULL
  Mtgs         \* meetings

ASSUME AccountsAssumption ==
  MaxDays \in Nat /\ Grace \in Nat \ {0} /\ Notice \in Nat /\ Terms \subseteq Nat /\ 0 \in Terms

VARIABLES
  account,   \* the row: NoAccount, or [deleted, sub, consent, term]; the day of deleted_at, -1 for NULL
  inserted,  \* rows ever inserted with this address; the newest is the account's id
  req,       \* req[r]: [kind, st, id, row]: the entity a request holds
  today,
  mtg,       \* mtg[m]: [st, created, ended, told]
  doomed     \* what the retention sweep selected and has still to delete

accountVars == <<account, inserted, req, today, mtg, doomed>>

NoAccount == [deleted |-> -1, sub |-> FALSE, consent |-> FALSE, term |-> -1]
Exists == account # NoAccount
Active == Exists /\ account.deleted = -1
Kinds == {"google", "register", "consent", "update", "remove"}
Ended == {"in", "rejected", "error", "done"}
Open(r) == req[r].st \notin {"none"} \union Ended

AccountsTypeOK ==
  /\ account.deleted \in -1..MaxDays /\ today \in 0..MaxDays /\ inserted \in 0..Cardinality(Requests)
  /\ \A r \in Requests : req[r].st \in {"none", "checked", "unlinked", "new", "lost", "held"} \union Ended
  /\ \A m \in Mtgs : mtg[m].st \in {"none", "live", "ended", "hidden", "gone"}

AccountsInit ==
  /\ account = NoAccount /\ inserted = 0 /\ today = 0 /\ doomed = {}
  /\ req = [r \in Requests |-> [kind |-> "none", st |-> "none", id |-> 0, row |-> NoAccount]]
  /\ mtg = [m \in Mtgs |-> [st |-> "none", created |-> 0, ended |-> -1, told |-> FALSE]]

Becoming(r, st) == [req EXCEPT ![r].st = st]
Insert(sub) == account' = [NoAccount EXCEPT !.sub = sub, !.term = 0] /\ inserted' = inserted + 1
rest == <<today, mtg, doomed>>
------------------------------------------------------------------------------
(* Signing in and up.                                                      *)

\* findOne by google_sub, or by e-mail for a registration.
Ask(r, kind) ==
  /\ req[r].st = "none" /\ kind \in {"google", "register"}
  /\ req' = [req EXCEPT ![r] =
       [kind |-> kind, id |-> inserted, row |-> NoAccount,
        st |-> CASE kind = "register" -> IF Exists THEN "rejected" ELSE "new"
                 [] ~Exists \/ ~account.sub -> "unlinked"
                 [] OTHER -> IF account.deleted = -1 THEN "in" ELSE "rejected"]]
  /\ UNCHANGED <<account, inserted, rest>>

\* findOne by e-mail: a deleted account is refused, an active one is to be linked.
AskByEmail(r) ==
  /\ req[r].st = "unlinked"
  /\ req' = [req EXCEPT ![r].id = inserted, ![r].row = [account EXCEPT !.sub = TRUE],
       ![r].st = IF ~Exists THEN "new" ELSE IF account.deleted # -1 THEN "rejected" ELSE "held"]
  /\ UNCHANGED <<account, inserted, rest>>

BadCreate_NoRecovery(r) ==
  /\ req[r].st = "new"
  /\ IF Exists THEN UNCHANGED <<account, inserted>> /\ req' = Becoming(r, "error")
     ELSE Insert(req[r].kind = "google") /\ req' = [req EXCEPT ![r].st = "in", ![r].id = inserted + 1]
  /\ UNCHANGED rest

\* The INSERT: against the UNIQUE index a Google sign-in recovers, a registration fails.
Create(r) ==
  /\ req[r].st = "new"
  /\ IF Exists
     THEN /\ req' = Becoming(r, IF req[r].kind = "google" THEN "lost" ELSE "done")
          /\ UNCHANGED <<account, inserted>>
     ELSE Insert(req[r].kind = "google") /\ req' = [req EXCEPT ![r].st = "in", ![r].id = inserted + 1]
  /\ UNCHANGED rest

\* recoverFromUniqueViolation: whoever won, by google_sub or else by e-mail.
Recovered(r) ==
  /\ req[r].st = "lost"
  /\ req' = [req EXCEPT ![r].id = inserted,
       ![r].st = IF ~Exists THEN "error" ELSE IF account.deleted # -1 THEN "rejected" ELSE "in"]
  /\ UNCHANGED <<account, inserted, rest>>
------------------------------------------------------------------------------
(* Changing the row.                                                       *)

\* findActiveUserOrFail and what each request sets on the entity it got.
Hold(r, kind, term) ==
  /\ req[r].st = "none" /\ kind \in {"consent", "update", "remove"} /\ Active
  /\ req' = [req EXCEPT ![r] =
       [kind |-> kind, st |-> "held", id |-> inserted,
        row |-> CASE kind = "consent" -> [account EXCEPT !.consent = TRUE]
                  [] kind = "update" -> [account EXCEPT !.term = term]
                  [] OTHER -> [account EXCEPT !.deleted = today]]]
  /\ UNCHANGED <<account, inserted, rest>>

\* save(): what the entity holds is written over what others have saved since.
Save(r) ==
  /\ req[r].st = "held" /\ account' = req[r].row
  /\ req' = Becoming(r, IF req[r].kind = "google" THEN "in" ELSE "done")
  /\ UNCHANGED <<inserted, rest>>
------------------------------------------------------------------------------
(* Meetings and the sweeps.                                                *)

Due(m) == (IF mtg[m].ended = -1 THEN mtg[m].created ELSE mtg[m].ended) + account.term

StartMeeting(m) ==
  /\ Active /\ mtg[m].st = "none" /\ mtg' = [mtg EXCEPT ![m].st = "live", ![m].created = today]
  /\ UNCHANGED <<account, inserted, req, today, doomed>>
EndMeeting(m) ==
  /\ mtg[m].st = "live" /\ mtg' = [mtg EXCEPT ![m].st = "ended", ![m].ended = today]
  /\ UNCHANGED <<account, inserted, req, today, doomed>>

\* A request does not last for a day.
DayPasses ==
  /\ today < MaxDays /\ \A r \in Requests : ~Open(r)
  /\ today' = today + 1 /\ UNCHANGED <<account, inserted, req, mtg, doomed>>

\* RetentionService.apply: the notices, then what is due, deleted one by one.
RetentionSweep ==
  /\ Exists /\ account.term > 0 /\ doomed = {}
  /\ mtg' = [m \in Mtgs |-> IF mtg[m].st = "ended" /\ today < Due(m) /\ Due(m) <= today + Notice
                            THEN [mtg[m] EXCEPT !.told = TRUE] ELSE mtg[m]]
  /\ doomed' = {m \in Mtgs : mtg[m].st = "ended" /\ Due(m) <= today}
  /\ <<mtg, doomed>>' # <<mtg, doomed>>
  /\ UNCHANGED <<account, inserted, req, today>>
RetentionDelete(m) ==
  /\ m \in doomed /\ doomed' = doomed \ {m}
  /\ mtg' = [mtg EXCEPT ![m].st = IF @ = "ended" THEN "gone" ELSE @]
  /\ UNCHANGED <<account, inserted, req, today>>

\* AccountMaintenanceService.applyRetentionPolicy, daily.
RetentionPolicy ==
  /\ Active /\ account.term > 0
  /\ mtg' = [m \in Mtgs |-> IF mtg[m].st \in {"live", "ended"} /\ mtg[m].created + account.term <= today
                            THEN [mtg[m] EXCEPT !.st = "hidden"] ELSE mtg[m]]
  /\ mtg' # mtg
  /\ UNCHANGED <<account, inserted, req, today, doomed>>

\* hardDeleteExpiredAccounts: the row and, by cascade, everything of the account.
HardDelete ==
  /\ Exists /\ account.deleted # -1 /\ account.deleted + Grace <= today
  /\ account' = NoAccount /\ doomed' = {}
  /\ mtg' = [m \in Mtgs |-> IF mtg[m].st = "none" THEN mtg[m] ELSE [mtg[m] EXCEPT !.st = "gone"]]
  /\ UNCHANGED <<inserted, req, today>>

AccountsNext ==
  \/ \E r \in Requests : \/ \E kind \in Kinds : Ask(r, kind)
                         \/ \E kind \in Kinds, term \in Terms : Hold(r, kind, term)
                         \/ AskByEmail(r) \/ Create(r) \/ Recovered(r) \/ Save(r)
  \/ \E m \in Mtgs : StartMeeting(m) \/ EndMeeting(m) \/ RetentionDelete(m)
  \/ DayPasses \/ RetentionSweep \/ RetentionPolicy \/ HardDelete
AccountsSpec == AccountsInit /\ [][AccountsNext]_accountVars
------------------------------------------------------------------------------
(* "Two concurrent first-time Google sign-ins for the same claims race the *)
(* UNIQUE index" (google-auth.service.ts:104): whatever else signs up,     *)
(* signs in or is deleted meanwhile, a Google sign-in ends in the account  *)
(* of that address or is refused because it was deleted, never in an error.*)
SignInsMeet == \A r \in Requests : req[r].kind = "google" => req[r].st # "error"
=============================================================================

---------------------------- MODULE StreamSlots ----------------------------
(***************************************************************************)
(* Who may have a live recognition stream (stt-stream.service.ts,          *)
(* stt-stream.gateway.ts, stt-stream.ts, stt-live-usage-meter.ts): the     *)
(* user's slot, the socket's stream, the meter, and everything that ends a *)
(* stream.  Between the awaits of stt_start, starts of the same user and   *)
(* of others, stops and disconnects run.                                   *)
(***************************************************************************)
EXTENDS Integers, FiniteSets

CONSTANTS
  Sockets, OwnerOf,  \* OwnerOf[s]: the user a socket authenticated as
  MaxStreams,        \* bound: stt_start events
  MaxLive,           \* STT_LIVE_MAX_CONCURRENT, 0 for no limit
  TokenBudget        \* monthly_token_budget, in meter ticks

Owners == {OwnerOf[s] : s \in Sockets}
StreamIds == 1..MaxStreams

ASSUME SlotsAssumption == Sockets # {} /\ MaxStreams \in Nat /\ MaxLive \in Nat /\ TokenBudget \in Nat

VARIABLES
  streams,   \* streams[i]: [sock, st]
  slots,     \* SttStreamService.slots, 0 for none
  kept,      \* SttStreamGateway.streams: the stream of a socket
  connected, \* sockets still connected
  metered,   \* streams whose LiveUsageMeter ticks
  usedUp,    \* ticks billed to a user this month
  consenting \* users whose consent is current

slotVars == <<streams, slots, kept, connected, metered, usedUp, consenting>>

User(i) == OwnerOf[streams[i].sock]
Holding == {"opening", "on", "stopping"}

SlotsTypeOK ==
  /\ streams \in [StreamIds -> [sock : Sockets,
                                 st : {"none", "consent", "budget", "meeting", "refused", "ended"} \union Holding]]
  /\ slots \in [Owners -> {0} \union StreamIds] /\ kept \in [Sockets -> {0} \union StreamIds]
  /\ metered \subseteq StreamIds

SlotsInit ==
  /\ streams = [i \in StreamIds |-> [sock |-> CHOOSE s \in Sockets : TRUE, st |-> "none"]]
  /\ metered = {} /\ connected = Sockets /\ consenting = Owners
  /\ slots = [u \in Owners |-> 0] /\ kept = [s \in Sockets |-> 0] /\ usedUp = [u \in Owners |-> 0]

To(i, st) == [streams EXCEPT ![i].st = st]

\* SttStream.finish and its onEnded; telling the client (`fatal`) also drops the socket's entry.
FinishStream(i, told) ==
  /\ streams' = To(i, "ended") /\ metered' = metered \ {i}
  /\ slots' = [slots EXCEPT ![User(i)] = IF @ = i THEN 0 ELSE @]
  /\ kept' = [kept EXCEPT ![streams[i].sock] = IF told \/ @ = i THEN 0 ELSE @]

SttStart(s) ==
  /\ s \in connected
  /\ \E i \in StreamIds :
       /\ streams[i].st = "none" /\ \A j \in 1..(i - 1) : streams[j].st # "none"
       /\ streams' = [streams EXCEPT ![i] = [sock |-> s, st |-> "consent"]]
  /\ UNCHANGED <<slots, kept, connected, metered, usedUp, consenting>>

\* assertConsent answered; the limit across users is looked up here.
ConsentAnswered(i) ==
  /\ streams[i].st = "consent"
  /\ LET full == MaxLive > 0 /\ slots[User(i)] = 0 /\ Cardinality({u \in Owners : slots[u] # 0}) >= MaxLive
     IN streams' = To(i, IF User(i) \notin consenting \/ full THEN "refused" ELSE "budget")
  /\ UNCHANGED <<slots, kept, connected, metered, usedUp, consenting>>

BudgetAnswered(i) ==
  /\ streams[i].st = "budget"
  /\ streams' = To(i, IF usedUp[User(i)] >= TokenBudget THEN "refused" ELSE "meeting")
  /\ UNCHANGED <<slots, kept, connected, metered, usedUp, consenting>>

\* The meeting is known: the newer start takes the slot and the older stream fails with STREAM_REPLACED.
Register(i) ==
  /\ streams[i].st = "meeting"
  /\ LET old == slots[User(i)]
     IN IF old = 0 THEN streams' = To(i, "opening") /\ UNCHANGED <<metered, kept>>
        ELSE /\ streams' = [To(i, "opening") EXCEPT ![old].st = "ended"]
             /\ metered' = metered \ {old}
             /\ kept' = [kept EXCEPT ![streams[old].sock] = 0]
  /\ slots' = [slots EXCEPT ![User(i)] = i]
  /\ UNCHANGED <<connected, usedUp, consenting>>

BadStreamOpened_SocketGone(i) ==
  /\ streams[i].st = "opening"
  /\ streams' = To(i, "on") /\ metered' = metered \union {i}
  /\ kept' = [kept EXCEPT ![streams[i].sock] = i]
  /\ UNCHANGED <<slots, connected, usedUp, consenting>>

\* The Live session opened: the meter runs, and the gateway keeps the stream unless its socket went away.
StreamOpened(i) ==
  /\ streams[i].st = "opening"
  /\ IF streams[i].sock \in connected
     THEN /\ streams' = To(i, "on") /\ metered' = metered \union {i}
          /\ kept' = [kept EXCEPT ![streams[i].sock] = i] /\ UNCHANGED slots
     ELSE FinishStream(i, FALSE)
  /\ UNCHANGED <<connected, usedUp, consenting>>
StreamNotOpened(i) ==
  /\ streams[i].st = "opening" /\ FinishStream(i, FALSE)
  /\ UNCHANGED <<connected, usedUp, consenting>>

\* The meter's tick bills the interval, then checks the budget, then the consent.
Tick(i) ==
  /\ i \in metered /\ usedUp[User(i)] <= TokenBudget
  /\ usedUp' = [usedUp EXCEPT ![User(i)] = @ + 1]
  /\ UNCHANGED <<streams, slots, kept, connected, metered, consenting>>
Refusable(i) == usedUp[User(i)] >= TokenBudget \/ User(i) \notin consenting
TickRefuses(i) ==
  /\ streams[i].st \in {"on", "stopping"} /\ Refusable(i) /\ FinishStream(i, TRUE)
  /\ UNCHANGED <<connected, usedUp, consenting>>

\* The token expired, a frame was invalid or too fast, or the Live session failed for good.
StreamFails(i) ==
  /\ streams[i].st \in {"on", "stopping"} /\ FinishStream(i, TRUE)
  /\ UNCHANGED <<connected, usedUp, consenting>>

\* stt_stop: the socket lets go of the stream, which ends once its last words are flushed.
SttStop(s) ==
  /\ kept[s] # 0 /\ s \in connected
  /\ streams' = To(kept[s], "stopping") /\ kept' = [kept EXCEPT ![s] = 0]
  /\ UNCHANGED <<slots, connected, metered, usedUp, consenting>>
StreamStopped(i) ==
  /\ streams[i].st = "stopping" /\ FinishStream(i, FALSE)
  /\ UNCHANGED <<connected, usedUp, consenting>>

SocketGone(s) ==
  /\ s \in connected /\ connected' = connected \ {s}
  /\ IF kept[s] # 0 THEN FinishStream(kept[s], FALSE) ELSE UNCHANGED <<streams, slots, metered, kept>>
  /\ UNCHANGED <<usedUp, consenting>>

\* A newer consent text, or the account's deletion.
ConsentLapses(u) ==
  /\ u \in consenting /\ consenting' = consenting \ {u}
  /\ UNCHANGED <<streams, slots, kept, connected, metered, usedUp>>

SlotsNext ==
  \/ \E s \in Sockets : SttStart(s) \/ SttStop(s) \/ SocketGone(s)
  \/ \E i \in StreamIds : \/ ConsentAnswered(i) \/ BudgetAnswered(i) \/ Register(i) \/ StreamOpened(i)
                          \/ StreamNotOpened(i) \/ Tick(i) \/ TickRefuses(i) \/ StreamFails(i) \/ StreamStopped(i)
  \/ \E u \in Owners : ConsentLapses(u)
SlotsSpec == SlotsInit /\ [][SlotsNext]_slotVars
------------------------------------------------------------------------------
\* A stream that holds a Live session has its user's slot and, once it runs, its socket and the meter.
StreamsHold ==
  \A i \in StreamIds :
    /\ streams[i].st \in Holding => slots[User(i)] = i
    /\ streams[i].st = "on" => kept[streams[i].sock] = i /\ streams[i].sock \in connected
    /\ i \in metered <=> streams[i].st \in {"on", "stopping"}

\* A slot that is taken has a stream of that user which holds a session, a socket's entry one which runs.
NoSlotLeaks ==
  /\ \A u \in Owners : slots[u] # 0 => User(slots[u]) = u /\ streams[slots[u]].st \in Holding
  /\ \A s \in Sockets : kept[s] # 0 => streams[kept[s]].sock = s /\ streams[kept[s]].st = "on"

(* A stream that holds a Live session is its user's only one, and somebody *)
(* can still end it: a stream that runs is the one of a connected socket,  *)
(* and its meter ticks exactly as long.  The other way round no slot       *)
(* leaks: one that is taken, and so counts against the limit across users, *)
(* has a stream that still ends and gives it back                          *)
(* (stt-stream.service.ts:43-46, 60, 75-79, stt-stream.gateway.ts:36).     *)
StreamsAreHeld == StreamsHold /\ NoSlotLeaks
=============================================================================

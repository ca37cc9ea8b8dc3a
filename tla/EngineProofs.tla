---------------------------- MODULE EngineProofs ----------------------------
(***************************************************************************)
(* Theorems about the two engines that hear a recording on the phone: what  *)
(* the streaming engine loses it reports (StreamEngine), and the chunked    *)
(* engine accounts for every chunk it records (ChunkEngine).                *)
(***************************************************************************)
EXTENDS StreamEngine, ChunkEngine, TLAPS

-----------------------------------------------------------------------------
(* The streaming engine reports what it loses.                             *)

Kept == [n : Nat, run : Nat]
Opening == [run : Nat, by : Nat, at : {"connecting", "ack", "over"}]
Looping == [run : Nat, left : Nat, at : {"delay", "open", "over"}]
Gone == [n : Nat, run : Nat, tail : BOOLEAN]

StreamTypes ==
  /\ streamState \in {"idle", "starting", "recording", "stopping"} /\ epoch \in Nat
  /\ stopRequested \in BOOLEAN /\ reconnecting \in BOOLEAN /\ droppedStarting \in BOOLEAN
  /\ loops \in Seq(Looping)
  /\ opens \in Seq(Opening)
  /\ socket \in Nat /\ linked \subseteq DOMAIN opens /\ ended \subseteq DOMAIN opens
  /\ mic \in [at : {"off", "opening", "on"}, run : Nat]
  /\ online \in BOOLEAN /\ queue \in Seq(Kept) /\ dropped \in BOOLEAN
  /\ spoken \in Nat /\ sent \in Seq(Gone) /\ crowded \subseteq Nat

\* What is always so of opens, sockets and runs.
LinksSound ==
  /\ socket = 0 \/ socket \in DOMAIN opens
  /\ \A i \in DOMAIN opens : opens[i].run <= epoch
  /\ \A i \in DOMAIN opens : opens[i].at # "over" => i \notin ended
  /\ \A i \in DOMAIN opens : opens[i].at = "connecting" => i \notin linked
  /\ \A i \in DOMAIN opens : opens[i].by = 0 \/ opens[i].by \in DOMAIN loops
  /\ mic.run <= epoch
  /\ streamState # "idle" => epoch # 0

\* What a run that began with no work of an earlier one pending finds while it is live: the
\* loops and the opens are its own, one of each, and it is offline while a loop goes on.
OwnRun ==
  (streamState \in {"starting", "recording"} /\ epoch \notin crowded) =>
    /\ \A k \in DOMAIN loops : loops[k].at # "over" =>
         loops[k].run = epoch /\ reconnecting /\ streamState = "recording"
    /\ \A k, l \in DOMAIN loops : (loops[k].at # "over" /\ loops[l].at # "over") => k = l
    /\ \A i \in DOMAIN opens : opens[i].at # "over" =>
         /\ opens[i].run = epoch
         /\ opens[i].by = 0 => streamState = "starting" /\ mic.run # epoch
         /\ opens[i].by # 0 => loops[opens[i].by].at = "open"
         /\ (opens[i].at = "ack" /\ i \in linked) => socket = i
    /\ \A i, j \in DOMAIN opens : (opens[i].at # "over" /\ opens[j].at # "over") => i = j
    /\ socket # 0 => opens[socket].run = epoch
    /\ (streamState = "recording" /\ reconnecting) => ~online
    /\ (streamState = "recording" /\ ~reconnecting) => socket \in linked
    /\ streamState = "starting" => ~reconnecting
    /\ (streamState = "starting" /\ mic.run = epoch /\ ~droppedStarting) => socket \in linked
    /\ (streamState = "recording" /\ ~reconnecting /\ socket \in ended) =>
         \A i \in DOMAIN sent : sent[i].n # 0 => sent[i].run # epoch

\* The audio that left and the audio that waits: in order, the waiting frames without a hole
\* up to what was spoken last.
AudioSound ==
  /\ online => queue = <<>>
  /\ Len(queue) <= spoken
  /\ \A i \in DOMAIN queue : queue[i].n = (spoken - Len(queue)) + i /\ queue[i].run <= epoch
  /\ \A i \in DOMAIN sent : sent[i].n <= spoken - Len(queue) /\ sent[i].run <= epoch
  /\ streamState = "starting" =>
       /\ \A i \in DOMAIN queue : queue[i].run < epoch
       /\ \A i \in DOMAIN sent : sent[i].n # 0 => sent[i].run < epoch

\* Between what left last and what leaves next nothing is missing, or it is known to be lost.
NothingUnsaid ==
  sent # <<>> =>
    LET last == sent[Len(sent)] IN
    (last.n # 0 /\ last.run \notin crowded) =>
      /\ (queue = <<>> /\ streamState = "recording" /\ last.run = epoch /\ (online \/ ~dropped))
           => last.n = spoken
      /\ (queue # <<>> /\ ~dropped /\ last.run = queue[1].run) => last.n = spoken - Len(queue)

StreamInv == StreamTypes /\ LinksSound /\ OwnRun /\ AudioSound /\ NothingUnsaid /\ LossIsShown


Shown(s, c) ==
  \A i, j \in DOMAIN s :
    (i < j /\ s[i].n # 0 /\ s[j].n # 0) =>
      /\ s[i].n < s[j].n
      /\ (s[i].run = s[j].run /\ j = i + 1 /\ ~s[j].tail /\ s[j].run \notin c)
            => s[j].n = s[i].n + 1

LEMMA StreamInit_Inv == StreamInit => StreamInv
<1> SUFFICES ASSUME StreamInit PROVE StreamInv
  OBVIOUS
<1>1. /\ loops = <<>> /\ opens = <<>> /\ queue = <<>> /\ sent = <<>> /\ linked = {} /\ ended = {}
      /\ mic = [at |-> "off", run |-> 0] /\ epoch = 0 /\ spoken = 0 /\ streamState = "idle"
  BY DEF StreamInit, MicOff
<1>2. StreamTypes
  <2>1. <<>> \in Seq(Looping)
        /\ <<>> \in Seq(Opening)
        /\ <<>> \in Seq(Kept) /\ <<>> \in Seq(Gone)
    OBVIOUS
  <2>2. mic \in [at : {"off", "opening", "on"}, run : Nat]
    BY <1>1
  <2>3. linked \subseteq DOMAIN opens /\ ended \subseteq DOMAIN opens /\ crowded \subseteq Nat
    BY <1>1 DEF StreamInit
  <2>4. loops \in Seq(Looping)
        /\ opens \in Seq(Opening)
        /\ queue \in Seq(Kept) /\ sent \in Seq(Gone)
    BY <1>1, <2>1
  <2>5. stopRequested \in BOOLEAN /\ reconnecting \in BOOLEAN /\ droppedStarting \in BOOLEAN
        /\ online \in BOOLEAN /\ dropped \in BOOLEAN /\ socket \in Nat
    BY DEF StreamInit
  <2>q. QED  BY <1>1, <2>2, <2>3, <2>4, <2>5 DEF StreamTypes
<1>3. LinksSound /\ OwnRun /\ AudioSound /\ NothingUnsaid /\ LossIsShown
  BY <1>1 DEF StreamInit, LinksSound, OwnRun, AudioSound, NothingUnsaid, LossIsShown
<1>q. QED  BY <1>2, <1>3 DEF StreamInv

\* What is sent after what was sent.
LEMMA ShownAppend ==
  ASSUME NEW s \in Seq(Gone), NEW x \in Seq(Gone), NEW c, NEW b \in Nat, Shown(s, c), Shown(x, c),
         \A i \in DOMAIN s : s[i].n <= b,
         \A i \in DOMAIN x : x[i].n # 0 => b < x[i].n,
         (s # <<>> /\ x # <<>>) =>
           ((s[Len(s)].n # 0 /\ x[1].n # 0 /\ s[Len(s)].run = x[1].run /\ ~x[1].tail
               /\ x[1].run \notin c) => x[1].n = s[Len(s)].n + 1)
  PROVE  /\ s \o x \in Seq(Gone) /\ Shown(s \o x, c)
         /\ \A i \in DOMAIN (s \o x) :
              \/ i \in DOMAIN s /\ (s \o x)[i] = s[i]
              \/ i - Len(s) \in DOMAIN x /\ (s \o x)[i] = x[i - Len(s)]
<1> DEFINE y == s \o x
<1>1. y \in Seq(Gone) /\ Len(y) = Len(s) + Len(x) /\ DOMAIN y = 1 .. Len(y)
  OBVIOUS
<1>2. ASSUME NEW i \in DOMAIN y
      PROVE  \/ i \in DOMAIN s /\ y[i] = s[i] /\ i <= Len(s)
             \/ i - Len(s) \in DOMAIN x /\ y[i] = x[i - Len(s)] /\ i > Len(s)
  <2>1. CASE i <= Len(s)  BY <1>1, <2>1
  <2>2. CASE i > Len(s)  BY <1>1, <2>2
  <2>q. QED  BY <2>1, <2>2, <1>1
<1>3. \A i \in DOMAIN s : s[i] \in Gone
  OBVIOUS
<1>4. \A i \in DOMAIN x : x[i] \in Gone
  OBVIOUS
<1> HIDE DEF y
<1>5. ASSUME NEW i \in DOMAIN y, NEW j \in DOMAIN y, i < j, y[i].n # 0, y[j].n # 0
      PROVE  /\ y[i].n < y[j].n
             /\ (y[i].run = y[j].run /\ j = i + 1 /\ ~y[j].tail /\ y[j].run \notin c)
                  => y[j].n = y[i].n + 1
  <2>0. i \in Nat /\ j \in Nat  BY <1>1
  <2>1. CASE i <= Len(s) /\ j <= Len(s)
    BY <1>2, <1>5, <2>0, <2>1 DEF Shown
  <2>2. CASE i > Len(s) /\ j > Len(s)
    <3>1. i - Len(s) \in DOMAIN x /\ j - Len(s) \in DOMAIN x /\ y[i] = x[i - Len(s)]
          /\ y[j] = x[j - Len(s)] /\ i - Len(s) < j - Len(s)
      BY <1>2, <1>5, <2>0, <2>2
    <3>2. j = i + 1 => j - Len(s) = (i - Len(s)) + 1
      BY <2>0
    <3>q. QED  BY <3>1, <3>2, <1>5 DEF Shown
  <2>3. CASE i <= Len(s) /\ j > Len(s)
    <3>1. i \in DOMAIN s /\ y[i] = s[i] /\ j - Len(s) \in DOMAIN x /\ y[j] = x[j - Len(s)]
      BY <1>2, <2>3, <2>0
    <3>2. y[i].n <= b /\ b < y[j].n /\ y[i].n \in Nat /\ y[j].n \in Nat
      BY <3>1, <1>3, <1>4, <1>5 DEF Gone
    <3>3. j = i + 1 => i = Len(s) /\ j - Len(s) = 1 /\ s # <<>> /\ x # <<>>
      BY <2>0, <2>3, <3>1
    <3>4. j = i + 1 => y[i] = s[Len(s)] /\ y[j] = x[1]
      BY <3>1, <3>3
    <3>5. y[i].n < y[j].n
      BY <3>2
    <3>6. ASSUME y[i].run = y[j].run, j = i + 1, ~y[j].tail, y[j].run \notin c
          PROVE  y[j].n = y[i].n + 1
      BY <3>3, <3>4, <3>6, <1>5
    <3>q. QED  BY <3>5, <3>6
  <2>q. QED  BY <2>0, <2>1, <2>2, <2>3, <1>5
<1>q. QED  BY <1>1, <1>2, <1>5 DEF Shown, y

LEMMA LastSent ==
  ASSUME NEW s \in Seq(Gone), NEW x \in Seq(Gone), x # <<>>
  PROVE  (s \o x)[Len(s \o x)] = x[Len(x)] /\ s \o x # <<>>
<1>1. Len(s) \in Nat /\ Len(x) \in Nat /\ Len(x) > 0 /\ Len(s \o x) = Len(s) + Len(x)
  OBVIOUS
<1>2. (s \o x)[Len(s) + Len(x)] = x[Len(x)]
  BY <1>1
<1>q. QED  BY <1>1, <1>2

LEMMA LeavesAre ==
  ASSUME NEW f \in Seq(Kept), NEW t \in BOOLEAN
  PROVE  /\ Leaves(f, t) \in Seq(Gone)
         /\ Leaves(f, t) = <<>> \/ (Len(Leaves(f, t)) = Len(f) /\ socket \in linked \ ended)
         /\ \A i \in DOMAIN Leaves(f, t) :
              /\ i \in DOMAIN f /\ Leaves(f, t)[i].n = f[i].n
              /\ Leaves(f, t)[i].run = f[i].run /\ Leaves(f, t)[i].tail = t
         /\ socket \in linked \ ended => DOMAIN Leaves(f, t) = DOMAIN f
<1>1. CASE socket \in linked \ ended
  <2> DEFINE g == [i \in DOMAIN f |-> [n |-> f[i].n, run |-> f[i].run, tail |-> t]]
  <2>1. Leaves(f, t) = g
    BY <1>1 DEF Leaves
  <2>2. DOMAIN f = 1 .. Len(f) /\ Len(f) \in Nat /\ \A i \in DOMAIN f : f[i] \in Kept
    OBVIOUS
  <2>3. g \in Seq(Gone)
    BY <2>2 DEF Kept, Gone
  <2>q. QED  BY <2>1, <2>2, <2>3, <1>1
<1>2. CASE socket \notin linked \ ended
  BY <1>2 DEF Leaves
<1>q. QED  BY <1>1, <1>2

-----------------------------------------------------------------------------

AudioInv == AudioSound /\ NothingUnsaid /\ LossIsShown

\* Steps that leave the audio alone.
LEMMA AudioStays ==
  ASSUME StreamInv, UNCHANGED <<queue, sent, spoken, dropped, epoch, crowded>>,
         online' = online \/ ~online', streamState' = streamState \/ streamState' \in {"idle", "stopping"}
  PROVE  AudioInv'
<1>1. AudioSound'
  BY DEF StreamInv, AudioSound
<1>2. NothingUnsaid'
  BY DEF StreamInv, NothingUnsaid, StreamTypes
<1>3. LossIsShown'
  BY DEF StreamInv, LossIsShown
<1>q. QED  BY <1>1, <1>2, <1>3 DEF AudioInv

\* What waited is sent, after a report of what was lost.
LEMMA AudioDrained ==
  ASSUME StreamInv, NEW g \in Seq(Gone), NEW t \in BOOLEAN,
         spoken' = spoken, epoch' = epoch, crowded' = crowded, queue' = <<>>, online' = TRUE,
         sent' = sent \o (g \o Leaves(queue, t)),
         \A i \in DOMAIN g : g[i].n = 0 /\ g[i].run = epoch,
         g = <<>> => t \/ ~dropped,
         streamState' = streamState \/ streamState' = "stopping", t => streamState' = "stopping",
         streamState' = "recording" /\ epoch \notin crowded => socket \in linked \ ended
  PROVE  AudioInv'
<1> DEFINE x == Leaves(queue, t)
           b == spoken - Len(queue)
           z == g \o x
<1>1. /\ queue \in Seq(Kept) /\ sent \in Seq(Gone) /\ spoken \in Nat /\ epoch \in Nat /\ b \in Nat
      /\ \A i \in DOMAIN queue : queue[i].n = b + i /\ queue[i].run <= epoch /\ queue[i].n > 0
      /\ \A i \in DOMAIN sent : sent[i].n <= b /\ sent[i].run <= epoch
      /\ dropped \in BOOLEAN /\ Len(queue) \in Nat /\ b + Len(queue) = spoken /\ b <= spoken
      /\ DOMAIN queue = 1 .. Len(queue)
  <2>1. /\ queue \in Seq(Kept) /\ sent \in Seq(Gone) /\ spoken \in Nat /\ epoch \in Nat
        /\ dropped \in BOOLEAN /\ Len(queue) \in Nat /\ Len(queue) <= spoken
        /\ DOMAIN queue = 1 .. Len(queue)
    BY DEF StreamInv, StreamTypes, AudioSound
  <2>2. b \in Nat /\ b + Len(queue) = spoken /\ b <= spoken
    BY <2>1
  <2>3. \A i \in DOMAIN queue : queue[i].n = b + i /\ queue[i].run <= epoch
    BY DEF StreamInv, AudioSound
  <2>4. \A i \in DOMAIN queue : queue[i].n > 0
    <3> HIDE DEF b
    <3>q. QED  BY <2>1, <2>2, <2>3
  <2>5. \A i \in DOMAIN sent : sent[i].n <= b /\ sent[i].run <= epoch
    BY DEF StreamInv, AudioSound
  <2>q. QED  BY <2>1, <2>2, <2>3, <2>4, <2>5
<1>2. /\ x \in Seq(Gone)
      /\ \A i \in DOMAIN x : i \in DOMAIN queue /\ i \in Nat
           /\ x[i].n = queue[i].n /\ x[i].run = queue[i].run /\ x[i].tail = t
      /\ x = <<>> \/ Len(x) = Len(queue)
      /\ socket \in linked \ ended => DOMAIN x = DOMAIN queue
  BY <1>1, LeavesAre
<1>0. \A i \in DOMAIN x : x[i].n = b + i
  BY <1>1, <1>2
<1>x. sent' = sent \o (g \o x)
  OBVIOUS
<1>y. streamState = "starting" =>
        /\ \A i \in DOMAIN queue : queue[i].run < epoch
        /\ \A i \in DOMAIN sent : sent[i].n # 0 => sent[i].run < epoch
  BY DEF StreamInv, AudioSound
<1>s. \A i \in DOMAIN sent : sent[i].n \in Nat
  <2>1. \A i \in DOMAIN sent : sent[i] \in Gone
    BY <1>1
  <2>q. QED  BY <2>1 DEF Gone
<1> HIDE DEF x, b
<1>3. Shown(g, crowded)
  BY DEF Shown
<1>4. Shown(x, crowded)
  BY <1>1, <1>2, <1>0, SMTT(60) DEF Shown
<1>5. /\ z \in Seq(Gone) /\ Shown(z, crowded)
      /\ \A i \in DOMAIN z : \/ i \in DOMAIN g /\ z[i] = g[i]
                             \/ i - Len(g) \in DOMAIN x /\ z[i] = x[i - Len(g)]
  <2>1. \A i \in DOMAIN x : x[i].n # 0 => 0 < x[i].n
    <3>1. \A i \in DOMAIN x : x[i] \in Gone
      BY <1>2
    <3>2. \A i \in DOMAIN x : x[i].n \in Nat
      BY <3>1 DEF Gone
    <3>q. QED  BY <3>2
  <2>2. g # <<>> => g[Len(g)].n = 0
    OBVIOUS
  <2>q. QED
    <3>1. \A i \in DOMAIN g : g[i].n <= 0
      OBVIOUS
    <3>2. (g # <<>> /\ x # <<>>) =>
            ((g[Len(g)].n # 0 /\ x[1].n # 0 /\ g[Len(g)].run = x[1].run /\ ~x[1].tail
                /\ x[1].run \notin crowded) => x[1].n = g[Len(g)].n + 1)
      BY <2>2
    <3>q. QED  BY <1>2, <1>3, <1>4, <2>1, <3>1, <3>2, ShownAppend, 0 \in Nat
<1>6. sent' = sent \o z
  BY <1>x
<1>7. \A i \in DOMAIN z : /\ z[i].n # 0 => b < z[i].n
                          /\ z[i].n <= spoken /\ z[i].run <= epoch
                          /\ (streamState = "starting" /\ z[i].n # 0) => z[i].run < epoch
  <2>1. \A i \in DOMAIN x : b < x[i].n /\ x[i].n <= spoken /\ x[i].run <= epoch
                            /\ (streamState = "starting" => x[i].run < epoch)
    <3>1. \A i \in DOMAIN queue : queue[i].n = b + i /\ i >= 1 /\ i <= Len(queue)
      BY <1>1
    <3>2. ASSUME NEW i \in DOMAIN x
          PROVE  b < x[i].n /\ x[i].n <= spoken /\ x[i].run <= epoch
                 /\ (streamState = "starting" => x[i].run < epoch)
      <4>1. i \in DOMAIN queue /\ x[i].n = b + i /\ i \in Nat /\ x[i].run = queue[i].run
        BY <1>0, <1>2
      <4>q. QED  BY <3>1, <4>1, <1>1, <1>y
    <3>q. QED  BY <3>2
  <2>q. QED  BY <1>5, <2>1, <1>1, SMTT(60)
<1>8. ASSUME sent # <<>>, z # <<>>, sent[Len(sent)].n # 0, z[1].n # 0, sent[Len(sent)].run = z[1].run,
             ~z[1].tail, z[1].run \notin crowded
      PROVE  z[1].n = sent[Len(sent)].n + 1
  <2>1. g = <<>>
    <3>1. SUFFICES ASSUME g # <<>>  PROVE FALSE
      OBVIOUS
    <3>2. 1 \in DOMAIN g /\ z[1] = g[1]
      BY <3>1, <1>2
    <3>q. QED  BY <3>2, <1>8
  <2>2. z = x
    BY <2>1, <1>2
  <2>3. 1 \in DOMAIN x /\ 1 \in DOMAIN queue /\ x[1].n = b + 1 /\ x[1].tail = t /\ x[1].run = queue[1].run
    <3>1. Len(x) \in Nat /\ DOMAIN x = 1 .. Len(x) /\ x # <<>>
      BY <1>2, <1>8, <2>2
    <3>2. 1 \in DOMAIN x
      BY <3>1
    <3>q. QED  BY <3>2, <1>1, <1>2
  <2>4. ~dropped /\ queue # <<>>
    BY <2>1, <2>2, <2>3, <1>8
  <2>5. sent[Len(sent)].n = b
    BY <2>2, <2>3, <2>4, <1>8 DEF StreamInv, NothingUnsaid, b
  <2>q. QED  BY <2>2, <2>3, <2>5
<1>9. /\ sent' \in Seq(Gone) /\ Shown(sent', crowded)
      /\ \A i \in DOMAIN sent' : \/ i \in DOMAIN sent /\ sent'[i] = sent[i]
                                 \/ i - Len(sent) \in DOMAIN z /\ sent'[i] = z[i - Len(sent)]
  <2>1. Shown(sent, crowded)
    BY DEF StreamInv, LossIsShown, Shown
  <2> HIDE DEF z
  <2>2. sent \o z \in Seq(Gone) /\ Shown(sent \o z, crowded)
        /\ \A i \in DOMAIN (sent \o z) :
              \/ i \in DOMAIN sent /\ (sent \o z)[i] = sent[i]
              \/ i - Len(sent) \in DOMAIN z /\ (sent \o z)[i] = z[i - Len(sent)]
    <3>1. \A i \in DOMAIN sent : sent[i].n <= b
      BY <1>1
    <3>2. \A i \in DOMAIN z : z[i].n # 0 => b < z[i].n
      BY <1>7
    <3>3. (sent # <<>> /\ z # <<>>) =>
            ((sent[Len(sent)].n # 0 /\ z[1].n # 0 /\ sent[Len(sent)].run = z[1].run /\ ~z[1].tail
                /\ z[1].run \notin crowded) => z[1].n = sent[Len(sent)].n + 1)
      BY <1>8
    <3>q. QED  BY <1>1, <1>5, <2>1, <3>1, <3>2, <3>3, ShownAppend
  <2>q. QED  BY <1>6, <2>2
<1>10. AudioSound'
  <2>1. \A i \in DOMAIN sent' : sent'[i].n <= spoken /\ sent'[i].run <= epoch
          /\ (streamState = "starting" /\ sent'[i].n # 0 => sent'[i].run < epoch)
    <3>1. \A i \in DOMAIN sent : sent[i].n <= spoken /\ sent[i].run <= epoch
            /\ (streamState = "starting" /\ sent[i].n # 0 => sent[i].run < epoch)
      BY <1>1, <1>s, <1>y
    <3> HIDE DEF z
    <3>q. QED  BY <3>1, <1>7, <1>9, SMTT(60)
  <2>2. spoken \in Nat /\ Len(queue') = 0 /\ DOMAIN queue' = {} /\ spoken - 0 = spoken
    BY <1>1
  <2>q. QED  BY <2>1, <2>2, SMTT(60) DEF AudioSound
<1>11. NothingUnsaid'
  <2>1. SUFFICES ASSUME sent' # <<>>, sent'[Len(sent')].n # 0, sent'[Len(sent')].run \notin crowded,
                        streamState' = "recording", sent'[Len(sent')].run = epoch
                 PROVE  sent'[Len(sent')].n = spoken
    BY DEF NothingUnsaid
  <2>2. socket \in linked \ ended /\ DOMAIN x = DOMAIN queue /\ streamState = "recording"
    BY <2>1, <1>2
  <2>3. CASE x # <<>>
    <3>1. Len(x) \in Nat \ {0} /\ Len(x) = Len(queue) /\ sent'[Len(sent')] = x[Len(x)]
      BY <2>3, <1>1, <1>2, <1>6, <2>2
    <3>2. Len(x) \in DOMAIN x
      BY <3>1, <1>2
    <3>3. x[Len(x)].n = b + Len(queue)
      BY <3>1, <3>2, <1>0
    <3>q. QED  BY <3>1, <3>3, <1>1
  <2>4. CASE x = <<>> /\ g # <<>>
    <3>1. sent'[Len(sent')] = g[Len(g)] /\ Len(g) \in DOMAIN g
      BY <2>4, <1>1, <1>6
    <3>q. QED  BY <3>1, <2>1
  <2>5. CASE x = <<>> /\ g = <<>>
    <3>1. sent' = sent /\ queue = <<>>
      BY <2>5, <2>2, <1>1, <1>6, SMTT(60)
    <3>3. online \/ ~dropped
      BY <2>1, <2>5
    <3>q. QED  BY <3>1, <3>3, <2>1, <2>2 DEF StreamInv, NothingUnsaid
  <2>q. QED  BY <2>3, <2>4, <2>5
<1>q. QED  BY <1>9, <1>10, <1>11 DEF AudioInv, LossIsShown, Shown

LEMMA StartKeeps == StreamInv /\ StreamStart => StreamInv'
<1> SUFFICES ASSUME StreamInv, StreamStart PROVE StreamInv'
  OBVIOUS
<1> DEFINE o == [run |-> epoch + 1, by |-> 0, at |-> "connecting"]
<1>1. /\ UNCHANGED <<loops, ended, uplinkVars, spoken>> /\ epoch' = epoch + 1 /\ epoch \in Nat
      /\ ~stopRequested' /\ ~reconnecting' /\ ~droppedStarting' /\ streamState = "idle"
      /\ socket' = 0 /\ linked' = linked \ {socket}
      /\ stopRequested' \in BOOLEAN /\ reconnecting' \in BOOLEAN /\ droppedStarting' \in BOOLEAN
  BY DEF StreamStart, OpenChannel, Close, uplinkVars, StreamInv, StreamTypes
<1>2. \/ streamState' = "starting" /\ opens' = Append(opens, o) /\ mic' = mic
      \/ streamState' = "idle" /\ opens' = opens /\ mic' = MicOff
  BY DEF StreamStart, OpenChannel
<1>3. /\ opens \in Seq(Opening)
      /\ opens' \in Seq(Opening)
      /\ \A i \in DOMAIN opens : i \in DOMAIN opens' /\ opens'[i] = opens[i]
      /\ \A i \in DOMAIN opens' : i \in DOMAIN opens \/ (i = Len(opens) + 1 /\ opens'[i] = o
                                                        /\ streamState' = "starting")
      /\ Len(opens) + 1 \notin DOMAIN opens
  <2>1. opens \in Seq(Opening)
    BY DEF StreamInv, StreamTypes
  <2>2. o \in Opening
    BY <1>1 DEF Opening
  <2> HIDE DEF o
  <2>3. CASE streamState' = "starting" /\ opens' = Append(opens, o)
    BY <2>1, <2>2, <2>3
  <2>4. CASE opens' = opens
    BY <2>1, <2>4
  <2>q. QED  BY <1>2, <2>3, <2>4
<1>4. crowded' = (IF Pending THEN crowded \cup {epoch + 1} ELSE crowded) /\ crowded' \subseteq Nat
  BY <1>1 DEF StreamStart, StreamInv, StreamTypes
<1>5. StreamTypes'
  <2>1. mic' \in [at : {"off", "opening", "on"}, run : Nat]
    BY <1>2 DEF StreamInv, StreamTypes, MicOff
  <2>2. linked' \subseteq DOMAIN opens' /\ ended' \subseteq DOMAIN opens'
    BY <1>1, <1>3 DEF StreamInv, StreamTypes
  <2>q. QED  BY <1>1, <1>2, <1>3, <1>4, <2>1, <2>2 DEF StreamInv, StreamTypes, uplinkVars
<1>6. LinksSound'
  <2>1. mic'.run <= epoch'
    BY <1>1, <1>2 DEF StreamInv, StreamTypes, LinksSound, MicOff
  <2>2. ASSUME NEW i \in DOMAIN opens'
        PROVE  /\ opens'[i].run <= epoch' /\ (opens'[i].at # "over" => i \notin ended')
               /\ (opens'[i].at = "connecting" => i \notin linked')
               /\ (opens'[i].by = 0 \/ opens'[i].by \in DOMAIN loops')
    <3>1. CASE i \in DOMAIN opens
      <4>0. opens[i] \in Opening
        BY <3>1 DEF StreamInv, StreamTypes
      <4>1. opens[i].run \in Nat
        BY <4>0 DEF Opening
      <4>q. QED  BY <3>1, <4>1, <1>1, <1>3 DEF StreamInv, LinksSound
    <3>2. CASE i \notin DOMAIN opens
      BY <3>2, <1>1, <1>3 DEF StreamInv, StreamTypes
    <3>q. QED  BY <3>1, <3>2
  <2>q. QED  BY <1>1, <2>1, <2>2 DEF LinksSound
<1>7. OwnRun'
  <2>1. SUFFICES ASSUME streamState' = "starting", epoch' \notin crowded'  PROVE OwnRun'
    BY <1>2 DEF OwnRun
  <2>2. ~Pending
    BY <1>1, <1>4, <2>1
  <2>3. \A k \in DOMAIN loops : loops'[k].at = "over"
    BY <2>2, <1>1 DEF Pending
  <2>4. \A i \in DOMAIN opens' : opens'[i].at # "over" => i = Len(opens) + 1 /\ opens'[i] = o
    BY <2>2, <1>3 DEF Pending
  <2>5. mic'.run # epoch'
    BY <1>1, <1>2, <2>1 DEF StreamInv, StreamTypes, LinksSound
  <2>q. QED  BY <1>1, <2>1, <2>3, <2>4, <2>5 DEF OwnRun
<1>8. AudioInv'
  <2>1. UNCHANGED <<online, queue, dropped, sent, spoken>>
    BY <1>1 DEF uplinkVars
  <2>2. /\ \A i \in DOMAIN queue : queue[i].run \in Nat
        /\ \A i \in DOMAIN sent : sent[i].run \in Nat
    <3>1. /\ \A i \in DOMAIN queue : queue[i] \in Kept
          /\ \A i \in DOMAIN sent : sent[i] \in Gone
      BY DEF StreamInv, StreamTypes
    <3>q. QED  BY <3>1 DEF Kept, Gone
  <2>3. AudioSound'
    BY <1>1, <2>1, <2>2 DEF StreamInv, AudioSound
  <2>4. NothingUnsaid'
    BY <1>1, <1>2, <1>4, <2>1 DEF StreamInv, NothingUnsaid
  <2>5. LossIsShown'
    BY <1>4, <2>1 DEF StreamInv, LossIsShown
  <2>q. QED  BY <2>3, <2>4, <2>5 DEF AudioInv
<1>q. QED  BY <1>5, <1>6, <1>7, <1>8 DEF StreamInv, AudioInv

\* A stop: the tail goes out.
LEMMA ShutDownAudio ==
  ASSUME StreamInv, ShutDown, epoch' = epoch, spoken' = spoken, crowded' = crowded
  PROVE  AudioInv' /\ mic' = MicOff /\ streamState' = "stopping" /\ online' = TRUE
         /\ queue' = <<>> /\ dropped' = dropped /\ sent' \in Seq(Gone)
<1> DEFINE x == Leaves(queue, TRUE)
<1>1. /\ streamState' = "stopping" /\ mic' = MicOff /\ online' = TRUE /\ queue' = <<>>
      /\ dropped' = dropped
  BY DEF ShutDown
<1>2. sent' = sent \o x
  BY DEF ShutDown
<1>3. sent \in Seq(Gone) /\ queue \in Seq(Kept) /\ TRUE \in BOOLEAN
  BY DEF StreamInv, StreamTypes
<1>4. x \in Seq(Gone)
  BY <1>3, LeavesAre
<1>5. <<>> \o x = x /\ sent \o x \in Seq(Gone)
  <2> HIDE DEF x
  <2>q. QED  BY <1>3, <1>4
<1>6. AudioInv'
  <2>1. <<>> \in Seq(Gone) /\ sent' = sent \o (<<>> \o x)
    BY <1>2, <1>5
  <2>2. \A i \in DOMAIN <<>> : <<>>[i].n = 0 /\ <<>>[i].run = epoch
    OBVIOUS
  <2>3. streamState' # "recording"
    BY <1>1
  <2>q. QED  BY <1>1, <1>3, <2>1, <2>2, <2>3, AudioDrained
<1>q. QED  BY <1>1, <1>2, <1>5, <1>6

LEMMA StopKeeps == StreamInv /\ StreamStop => StreamInv'
<1> SUFFICES ASSUME StreamInv, StreamStop PROVE StreamInv'
  OBVIOUS
<1>1. /\ UNCHANGED <<epoch, reconnecting, droppedStarting, loops, opens, socket, linked, ended,
                     spoken, crowded>>
      /\ stopRequested' = TRUE /\ streamState \in {"starting", "recording"}
  BY DEF StreamStop, linkVars
<1>2. CASE streamState = "recording"
  <2>1. /\ AudioInv' /\ mic' = MicOff /\ streamState' = "stopping" /\ online' = TRUE
        /\ queue' = <<>> /\ dropped' = dropped /\ sent' \in Seq(Gone)
    BY <1>1, <1>2, ShutDownAudio DEF StreamStop
  <2>2. StreamTypes'
    <3>1. mic' \in [at : {"off", "opening", "on"}, run : Nat] /\ <<>> \in Seq(Kept)
      BY <2>1 DEF MicOff
    <3>q. QED  BY <1>1, <2>1, <3>1 DEF StreamInv, StreamTypes
  <2>3. LinksSound' /\ OwnRun'
    BY <1>1, <2>1 DEF StreamInv, StreamTypes, LinksSound, OwnRun, MicOff
  <2>q. QED  BY <2>1, <2>2, <2>3 DEF StreamInv, AudioInv
<1>3. CASE streamState = "starting"
  <2>1. UNCHANGED <<streamState, mic, online, queue, dropped, sent>>
    BY <1>3 DEF StreamStop, uplinkVars
  <2>2. StreamTypes' /\ LinksSound' /\ OwnRun'
    BY <1>1, <2>1 DEF StreamInv, StreamTypes, LinksSound, OwnRun
  <2>3. AudioInv'
    BY <1>1, <2>1, AudioStays
  <2>q. QED  BY <2>2, <2>3 DEF StreamInv, AudioInv
<1>q. QED  BY <1>1, <1>2, <1>3

LEMMA FlushedKeeps == StreamInv /\ Flushed => StreamInv'
<1> SUFFICES ASSUME StreamInv, Flushed PROVE StreamInv'
  OBVIOUS
<1>1. /\ UNCHANGED <<epoch, stopRequested, reconnecting, droppedStarting, loops, opens, ended, mic,
                     online, queue, dropped, sent, spoken, crowded>>
      /\ streamState' = "idle" /\ socket' = 0 /\ linked' = linked \ {socket}
  BY DEF Flushed, Close, uplinkVars
<1>2. StreamTypes' /\ LinksSound' /\ OwnRun'
  BY <1>1 DEF StreamInv, StreamTypes, LinksSound, OwnRun
<1>3. AudioInv'
  BY <1>1, AudioStays
<1>q. QED  BY <1>2, <1>3 DEF StreamInv, AudioInv

LEMMA SeqUpdate ==
  ASSUME NEW S, NEW s \in Seq(S), NEW k \in DOMAIN s, NEW r \in S
  PROVE  /\ [s EXCEPT ![k] = r] \in Seq(S) /\ DOMAIN [s EXCEPT ![k] = r] = DOMAIN s
         /\ [s EXCEPT ![k] = r][k] = r
         /\ \A j \in DOMAIN s : j # k => [s EXCEPT ![k] = r][j] = s[j]
  OBVIOUS

LEMMA OpenMoves ==
  ASSUME StreamInv, NEW i \in DOMAIN opens, NEW a \in {"connecting", "ack", "over"},
         NEW o, o = [opens EXCEPT ![i].at = a]
  PROVE  /\ o \in Seq(Opening) /\ DOMAIN o = DOMAIN opens
         /\ o[i].at = a /\ o[i].run = opens[i].run /\ o[i].by = opens[i].by
         /\ \A j \in DOMAIN opens : j # i => o[j] = opens[j]
         /\ opens[i] \in Opening
<1> DEFINE r == [opens[i] EXCEPT !.at = a]
<1>1. opens \in Seq(Opening) /\ opens[i] \in Opening
  BY DEF StreamInv, StreamTypes
<1>2. r \in Opening /\ r.at = a /\ r.run = opens[i].run /\ r.by = opens[i].by
  BY <1>1 DEF Opening
<1>3. o = [opens EXCEPT ![i] = r]
  OBVIOUS
<1> HIDE DEF r
<1>4. o \in Seq(Opening) /\ DOMAIN o = DOMAIN opens /\ o[i] = r
      /\ \A j \in DOMAIN opens : j # i => o[j] = opens[j]
  BY <1>1, <1>2, <1>3, SeqUpdate
<1>q. QED  BY <1>1, <1>2, <1>4

LEMMA LoopMoves ==
  ASSUME StreamInv, NEW k \in DOMAIN loops, NEW r \in Looping, r.run = loops[k].run,
         NEW o, o = [loops EXCEPT ![k] = r]
  PROVE  /\ o \in Seq(Looping) /\ DOMAIN o = DOMAIN loops
         /\ o[k].at = r.at /\ o[k].run = loops[k].run
         /\ \A j \in DOMAIN loops : j # k => o[j] = loops[j]
         /\ loops[k] \in Looping
<1>1. loops \in Seq(Looping) /\ loops[k] \in Looping
  BY DEF StreamInv, StreamTypes
<1>2. o \in Seq(Looping) /\ DOMAIN o = DOMAIN loops /\ o[k] = r
      /\ \A j \in DOMAIN loops : j # k => o[j] = loops[j]
  BY <1>1, SeqUpdate
<1>q. QED  BY <1>1, <1>2

LEMMA LoopEnds ==
  ASSUME StreamInv, NEW k \in DOMAIN loops, NEW o, NEW a \in {"delay", "open", "over"},
         o = [loops EXCEPT ![k].at = a]
  PROVE  /\ o \in Seq(Looping) /\ DOMAIN o = DOMAIN loops
         /\ o[k].at = a /\ o[k].run = loops[k].run
         /\ \A j \in DOMAIN loops : j # k => o[j] = loops[j]
         /\ loops[k] \in Looping
<1> DEFINE r == [loops[k] EXCEPT !.at = a]
<1>1. loops \in Seq(Looping) /\ loops[k] \in Looping
  BY DEF StreamInv, StreamTypes
<1>2. r \in Looping /\ r.at = a /\ r.run = loops[k].run
  BY <1>1 DEF Looping
<1>3. o = [loops EXCEPT ![k] = r]
  OBVIOUS
<1> HIDE DEF r
<1>4. o \in Seq(Looping) /\ DOMAIN o = DOMAIN loops /\ o[k] = r
      /\ \A j \in DOMAIN loops : j # k => o[j] = loops[j]
  BY <1>1, <1>2, <1>3, SeqUpdate
<1>q. QED  BY <1>1, <1>2, <1>4

LEMMA LoopBegins ==
  ASSUME StreamInv, Attempts \in Nat
  PROVE  LET o == Append(loops, [run |-> epoch, left |-> Attempts, at |-> "delay"])
         IN  /\ o \in Seq(Looping) /\ DOMAIN loops \subseteq DOMAIN o
             /\ Len(loops) + 1 \in DOMAIN o /\ o[Len(loops) + 1].run = epoch
             /\ o[Len(loops) + 1].at = "delay"
             /\ \A k \in DOMAIN o : k # Len(loops) + 1 => k \in DOMAIN loops /\ o[k] = loops[k]
             /\ \A k \in DOMAIN loops : k # Len(loops) + 1
<1> DEFINE r == [run |-> epoch, left |-> Attempts, at |-> "delay"]
           o == Append(loops, r)
<1>1. loops \in Seq(Looping) /\ r \in Looping /\ r.run = epoch /\ r.at = "delay"
  BY DEF StreamInv, StreamTypes, Looping
<1> HIDE DEF r
<1>2. /\ o \in Seq(Looping) /\ DOMAIN loops \subseteq DOMAIN o
      /\ Len(loops) + 1 \in DOMAIN o /\ o[Len(loops) + 1] = r
      /\ \A k \in DOMAIN o : k # Len(loops) + 1 => k \in DOMAIN loops /\ o[k] = loops[k]
      /\ \A k \in DOMAIN loops : k # Len(loops) + 1
  BY <1>1
<1>q. QED  BY <1>1, <1>2 DEF r

LEMMA ConnectedKeeps ==
  ASSUME StreamInv, NEW i \in DOMAIN opens, Connected(i)  PROVE StreamInv'
<1>1. /\ UNCHANGED <<streamState, epoch, stopRequested, reconnecting, droppedStarting, loops, ended,
                     mic, online, queue, dropped, sent, spoken, crowded>>
      /\ opens[i].at = "connecting" /\ opens' = [opens EXCEPT ![i].at = "ack"]
      /\ socket' = i /\ linked' = linked \cup {i}
  BY DEF Connected, uplinkVars
<1>2. opens' \in Seq(Opening) /\ DOMAIN opens' = DOMAIN opens
  BY <1>1, OpenMoves
<1>3. /\ opens'[i].at = "ack" /\ opens'[i].run = opens[i].run /\ opens'[i].by = opens[i].by
      /\ \A j \in DOMAIN opens : j # i => opens'[j] = opens[j]
  BY <1>1, OpenMoves
<1>4. StreamTypes'
  BY <1>1, <1>2 DEF StreamInv, StreamTypes
<1>5. LinksSound'
  BY <1>1, <1>2, <1>3 DEF StreamInv, StreamTypes, LinksSound
<1>6. OwnRun'
  BY <1>1, <1>2, <1>3 DEF StreamInv, StreamTypes, LinksSound, OwnRun
<1>7. AudioInv'
  BY <1>1, AudioStays
<1>q. QED  BY <1>4, <1>5, <1>6, <1>7 DEF StreamInv, AudioInv

LEMMA SpeakKeeps == StreamInv /\ Speak => StreamInv'
<1> SUFFICES ASSUME StreamInv, Speak PROVE StreamInv'
  OBVIOUS
<1> DEFINE f == [n |-> spoken + 1, run |-> epoch]
           more == Append(queue, f)
<1>1. /\ UNCHANGED <<streamState, epoch, stopRequested, reconnecting, droppedStarting, loops,
                     opens, socket, linked, ended, mic, crowded>>
      /\ mic = [at |-> "on", run |-> epoch] /\ streamState = "recording" /\ spoken' = spoken + 1
      /\ Push(f)
  BY DEF Speak, linkVars
<1>2. /\ queue \in Seq(Kept) /\ sent \in Seq(Gone) /\ spoken \in Nat /\ epoch \in Nat
      /\ Len(queue) \in Nat /\ Len(queue) <= spoken /\ DOMAIN queue = 1 .. Len(queue)
      /\ online \in BOOLEAN /\ dropped \in BOOLEAN
  BY DEF StreamInv, StreamTypes, AudioSound
<1>3. f \in Kept /\ f.n = spoken + 1 /\ f.run = epoch
  BY <1>2 DEF Kept
<1> HIDE DEF f
<1>4. /\ more \in Seq(Kept) /\ Len(more) = Len(queue) + 1 /\ DOMAIN more = 1 .. Len(more)
      /\ more[Len(more)] = f /\ \A i \in DOMAIN queue : more[i] = queue[i]
  BY <1>2, <1>3
<1> HIDE DEF more
<1>5. ASSUME NEW i \in DOMAIN more
      PROVE  more[i].n = (spoken + 1 - Len(more)) + i /\ more[i].run <= epoch
  <2>1. CASE i \in DOMAIN queue
    BY <2>1, <1>2, <1>4 DEF StreamInv, AudioSound
  <2>2. CASE i = Len(more)
    BY <2>2, <1>2, <1>3, <1>4
  <2>q. QED  BY <2>1, <2>2, <1>2, <1>4
<1>6. \A i \in DOMAIN sent : sent[i] \in Gone /\ sent[i].n \in Nat /\ sent[i].run \in Nat
                             /\ sent[i].n <= spoken
  <2>1. \A i \in DOMAIN sent : sent[i] \in Gone
    BY <1>2
  <2>2. \A i \in DOMAIN sent : sent[i].n \in Nat /\ sent[i].run \in Nat
    BY <2>1 DEF Gone
  <2>q. QED  BY <2>1, <2>2, <1>2 DEF StreamInv, AudioSound
<1>7. /\ queue' \in Seq(Kept) /\ sent' \in Seq(Gone) /\ dropped' \in BOOLEAN /\ AudioInv'
      /\ online' = online
      /\ (socket \in ended => sent' = sent)
  <2>1. CASE online
    <3> DEFINE x == Leaves(more, FALSE)
    <3>1. queue = <<>> /\ Len(more) = 1 /\ more[1] = f
      BY <2>1, <1>4 DEF StreamInv, AudioSound
    <3>2. queue' = <<>> /\ sent' = sent \o x /\ online' = online /\ dropped' = dropped
      BY <2>1, <1>1 DEF Push, more
    <3>3. /\ x \in Seq(Gone) /\ FALSE \in BOOLEAN
          /\ x = <<>> \/ (Len(x) = 1 /\ socket \in linked \ ended)
          /\ \A i \in DOMAIN x : i \in DOMAIN more /\ x[i].n = more[i].n /\ x[i].run = more[i].run
                                 /\ x[i].tail = FALSE
          /\ socket \in linked \ ended => DOMAIN x = DOMAIN more
      BY <1>4, <3>1, LeavesAre
    <3> HIDE DEF x
    <3>4. \A i \in DOMAIN x : i = 1 /\ x[i].n = spoken + 1 /\ x[i].run = epoch
      BY <1>3, <1>4, <3>1, <3>3
    <3>5. CASE x = <<>>
      <4>1. sent' = sent
        BY <1>2, <3>2, <3>5
      <4>2. socket \notin linked \ ended
        BY <3>1, <3>3, <3>5, <1>4
      <4>3. AudioSound'
        BY <1>1, <1>2, <1>6, <3>1, <3>2, <4>1 DEF StreamInv, AudioSound
      <4>4. LossIsShown'
        BY <1>1, <4>1 DEF StreamInv, LossIsShown
      <4>5. epoch \in crowded \/ (\A i \in DOMAIN sent : sent[i].n # 0 => sent[i].run # epoch)
        BY <2>1, <4>2, <1>1 DEF StreamInv, StreamTypes, OwnRun
      <4>6. sent # <<>> => Len(sent) \in DOMAIN sent
        BY <1>2
      <4>7. NothingUnsaid'
        BY <1>1, <3>2, <4>1, <4>5, <4>6 DEF NothingUnsaid
      <4>q. QED  BY <1>2, <3>2, <4>1, <4>3, <4>4, <4>7 DEF AudioInv
    <3>6. CASE x # <<>>
      <4>1. Len(x) = 1 /\ socket \in linked \ ended /\ 1 \in DOMAIN x
        BY <3>3, <3>6
      <4>2. Shown(x, crowded)
        BY <3>4 DEF Shown
      <4>3. (sent # <<>> /\ x # <<>>) =>
              ((sent[Len(sent)].n # 0 /\ x[1].n # 0 /\ sent[Len(sent)].run = x[1].run /\ ~x[1].tail
                  /\ x[1].run \notin crowded) => x[1].n = sent[Len(sent)].n + 1)
        BY <2>1, <1>1, <1>2, <3>1, <3>4, <4>1 DEF StreamInv, NothingUnsaid
      <4>4. Shown(sent, crowded)
        BY DEF StreamInv, LossIsShown, Shown
      <4>5. \A i \in DOMAIN sent : sent[i].n <= spoken
        BY <1>6
      <4>6. \A i \in DOMAIN x : x[i].n # 0 => spoken < x[i].n
        BY <1>2, <3>4
      <4>7. /\ sent \o x \in Seq(Gone) /\ Shown(sent \o x, crowded)
            /\ \A i \in DOMAIN (sent \o x) :
                 \/ i \in DOMAIN sent /\ (sent \o x)[i] = sent[i]
                 \/ i - Len(sent) \in DOMAIN x /\ (sent \o x)[i] = x[i - Len(sent)]
        BY <1>2, <3>3, <4>2, <4>3, <4>4, <4>5, <4>6, ShownAppend
      <4>8. LossIsShown'
        BY <1>1, <3>2, <4>7 DEF LossIsShown, Shown
      <4>9. AudioSound'
        <5>1. \A i \in DOMAIN sent : sent[i].n <= spoken + 1 /\ sent[i].run <= epoch
          BY <1>2, <1>6 DEF StreamInv, AudioSound
        <5>2. \A i \in DOMAIN x : x[i].n <= spoken + 1 /\ x[i].run <= epoch
          BY <1>2, <3>4
        <5>3. \A i \in DOMAIN sent' : sent'[i].n <= spoken + 1 /\ sent'[i].run <= epoch
          BY <3>2, <4>7, <5>1, <5>2
        <5>4. Len(queue') = 0 /\ DOMAIN queue' = {} /\ spoken + 1 - 0 = spoken + 1 /\ spoken + 1 \in Nat
              /\ 0 <= spoken + 1
          BY <1>2, <3>2
        <5>q. QED  BY <1>1, <3>2, <5>3, <5>4 DEF AudioSound
      <4>10. NothingUnsaid'
        <5>0. x \in Seq(Gone) /\ Len(x) = 1 /\ sent \in Seq(Gone)
          BY <1>2, <3>3, <4>1
        <5>1. (sent \o x)[Len(sent \o x)] = x[1]
          BY <5>0, <3>6, LastSent
        <5>q. QED  BY <5>1, <1>1, <1>2, <3>2, <3>4, <4>1 DEF NothingUnsaid
      <4>q. QED  BY <1>2, <3>2, <4>1, <4>7, <4>8, <4>9, <4>10 DEF AudioInv
    <3>q. QED  BY <3>5, <3>6
  <2>2. CASE ~online /\ Len(more) > Backlog
    <3>1. queue' = Lowest(more) /\ dropped' = TRUE /\ online' = online /\ sent' = sent
      BY <2>2, <1>1 DEF Push, more
    <3>2. /\ Lowest(more) \in Seq(Kept) /\ Len(Lowest(more)) = Backlog /\ Backlog \in Nat
          /\ \A i \in 1 .. Backlog : Lowest(more)[i] = more[(Len(more) - Backlog) + i]
          /\ DOMAIN Lowest(more) = 1 .. Backlog
      BY <1>2, <1>4, <2>2, StreamAssumption DEF Lowest
    <3>3. ASSUME NEW i \in DOMAIN queue'
          PROVE  queue'[i].n = (spoken' - Len(queue')) + i /\ queue'[i].run <= epoch'
      <4>1. (Len(more) - Backlog) + i \in DOMAIN more /\ queue'[i] = more[(Len(more) - Backlog) + i]
        BY <1>2, <1>4, <2>2, <3>1, <3>2
      <4>2. /\ more[(Len(more) - Backlog) + i].n
                 = (spoken + 1 - Len(more)) + ((Len(more) - Backlog) + i)
            /\ more[(Len(more) - Backlog) + i].run <= epoch
        BY <4>1, <1>5
      <4>q. QED  BY <1>1, <1>2, <1>4, <3>1, <3>2, <4>1, <4>2
    <3>4. \A i \in DOMAIN sent : sent[i].n <= spoken + 1 - Backlog
      <4>1. \A i \in DOMAIN sent : sent[i].n <= spoken - Len(queue)
        BY DEF StreamInv, AudioSound
      <4>q. QED  BY <4>1, <1>2, <1>4, <1>6, <2>2, <3>2
    <3>5. AudioSound'
      <4>1. Len(queue') <= spoken'
        BY <1>1, <1>2, <1>4, <2>2, <3>1, <3>2
      <4>2. \A i \in DOMAIN sent' : sent'[i].n <= spoken' - Len(queue') /\ sent'[i].run <= epoch'
        <5>1. \A i \in DOMAIN sent : sent[i].run <= epoch
          BY DEF StreamInv, AudioSound
        <5>2. sent' = sent /\ spoken' = spoken + 1 /\ epoch' = epoch /\ Len(queue') = Backlog
          BY <1>1, <3>1, <3>2
        <5>3. spoken' - Len(queue') = spoken + 1 - Backlog
          <6>1. spoken \in Nat /\ Backlog \in Nat
            BY <1>2, <3>2
          <6>q. QED  BY ONLY <5>2, <6>1
        <5>q. QED  BY ONLY <5>1, <5>2, <5>3, <3>4
      <4>q. QED  BY <1>1, <2>2, <3>1, <3>3, <4>1, <4>2 DEF AudioSound
    <3>6. NothingUnsaid'
      BY <2>2, <3>1 DEF NothingUnsaid
    <3>7. LossIsShown'
      BY <1>1, <3>1 DEF StreamInv, LossIsShown
    <3>q. QED  BY <1>2, <3>1, <3>2, <3>5, <3>6, <3>7 DEF AudioInv
  <2>3. CASE ~online /\ ~(Len(more) > Backlog)
    <3>1. queue' = more /\ dropped' = dropped /\ online' = online /\ sent' = sent
      BY <2>3, <1>1 DEF Push, more
    <3>2. spoken' - Len(queue') = spoken - Len(queue) /\ Len(queue') <= spoken'
      <4>1. spoken' = spoken + 1 /\ Len(queue') = Len(queue) + 1
        BY <1>1, <1>4, <3>1
      <4>q. QED  BY <4>1, <1>2
    <3>3. AudioSound'
      <4>1. \A i \in DOMAIN queue' : queue'[i].n = (spoken' - Len(queue')) + i /\ queue'[i].run <= epoch'
        <5>1. spoken' = spoken + 1 /\ epoch' = epoch /\ queue' = more
          BY <1>1, <3>1
        <5>2. Len(more) \in Nat /\ spoken \in Nat /\ DOMAIN more = 1 .. Len(more)
          BY <1>2, <1>4
        <5>q. QED  BY ONLY <5>1, <5>2, <1>5
      <4>q. QED  BY <1>1, <2>3, <3>1, <3>2, <4>1 DEF StreamInv, AudioSound
    <3>4. NothingUnsaid'
      <4>1. more # <<>>
        BY <1>2, <1>4
      <4>2. CASE queue = <<>>
        <5>1. more[1].run = epoch /\ spoken' - Len(queue') = spoken
          BY <4>2, <1>2, <1>3, <1>4, <3>2
        <5>q. QED  BY <4>1, <4>2, <5>1, <1>1, <3>1 DEF StreamInv, NothingUnsaid
      <4>3. CASE queue # <<>>
        <5>1. more[1] = queue[1]
          BY <4>3, <1>2, <1>4
        <5>q. QED  BY <4>1, <4>3, <5>1, <1>1, <3>1, <3>2 DEF StreamInv, NothingUnsaid
      <4>q. QED  BY <4>2, <4>3
    <3>5. LossIsShown'
      BY <1>1, <3>1 DEF StreamInv, LossIsShown
    <3>q. QED  BY <1>2, <1>4, <3>1, <3>3, <3>4, <3>5 DEF AudioInv
  <2>q. QED  BY <2>1, <2>2, <2>3
<1>8. StreamTypes' /\ LinksSound'
  BY <1>1, <1>2, <1>7 DEF StreamInv, StreamTypes, LinksSound
<1>9. OwnRun'
  BY <1>1, <1>7 DEF StreamInv, OwnRun
<1>q. QED  BY <1>7, <1>8, <1>9 DEF StreamInv, AudioInv

\* A reconnect() that goes on, or none.
LEMMA ReconnectEffect ==
  ASSUME StreamInv, NEW e \in Nat, Reconnect(e), UNCHANGED <<streamState, epoch>>
  PROVE  \/ UNCHANGED <<reconnecting, online, loops>>
            /\ (reconnecting \/ e # epoch \/ streamState # "recording")
         \/ /\ ~reconnecting /\ e = epoch /\ streamState = "recording"
            /\ reconnecting' = TRUE /\ online' = FALSE
            /\ loops' = Append(loops, [run |-> epoch, left |-> Attempts, at |-> "delay"])
  BY DEF Reconnect, Live

LEMMA DropsKeeps ==
  ASSUME StreamInv, NEW i \in DOMAIN opens, Drops(i)  PROVE StreamInv'
<1>1. /\ UNCHANGED <<streamState, epoch, stopRequested, opens, socket, ended, mic, queue, dropped,
                     spoken, sent, crowded>>
      /\ linked' = linked \ {i} /\ i \in linked
  BY DEF Drops
<1>2. opens[i].run \in Nat
  <2>1. opens[i] \in Opening
    BY DEF StreamInv, StreamTypes
  <2>q. QED  BY <2>1 DEF Opening
<1>3. CASE socket # i
  <2>1. UNCHANGED <<droppedStarting, reconnecting, online, loops>>
    BY <1>3 DEF Drops
  <2>2. StreamTypes' /\ LinksSound' /\ OwnRun'
    BY <1>1, <1>3, <2>1 DEF StreamInv, StreamTypes, LinksSound, OwnRun
  <2>3. AudioInv'
    BY <1>1, <2>1, AudioStays
  <2>q. QED  BY <2>2, <2>3 DEF StreamInv, AudioInv
<1>4. CASE socket = i /\ streamState = "starting"
  <2>1. droppedStarting' = TRUE /\ UNCHANGED <<reconnecting, online, loops>>
    BY <1>4 DEF Drops
  <2>2. StreamTypes' /\ LinksSound' /\ OwnRun'
    BY <1>1, <1>4, <2>1 DEF StreamInv, StreamTypes, LinksSound, OwnRun
  <2>3. AudioInv'
    BY <1>1, <2>1, AudioStays
  <2>q. QED  BY <2>2, <2>3 DEF StreamInv, AudioInv
<1>5. CASE socket = i /\ streamState # "starting"
  <2>0. Reconnect(opens[i].run) /\ droppedStarting' = droppedStarting
    BY <1>5 DEF Drops
  <2>1. CASE /\ UNCHANGED <<reconnecting, online, loops>>
             /\ (reconnecting \/ opens[i].run # epoch \/ streamState # "recording")
    <3>1. StreamTypes' /\ LinksSound'
      BY <1>1, <2>0, <2>1 DEF StreamInv, StreamTypes, LinksSound
    <3>2. OwnRun'
      BY <1>1, <1>5, <2>0, <2>1 DEF StreamInv, StreamTypes, OwnRun
    <3>3. AudioInv'
      BY <1>1, <2>1, AudioStays
    <3>q. QED  BY <3>1, <3>2, <3>3 DEF StreamInv, AudioInv
  <2>2. CASE /\ ~reconnecting /\ opens[i].run = epoch /\ streamState = "recording"
             /\ reconnecting' = TRUE /\ online' = FALSE
             /\ loops' = Append(loops, [run |-> epoch, left |-> Attempts, at |-> "delay"])
    <3>1. /\ loops' \in Seq(Looping) /\ DOMAIN loops \subseteq DOMAIN loops'
          /\ loops'[Len(loops) + 1].run = epoch
          /\ \A k \in DOMAIN loops' : k # Len(loops) + 1 => k \in DOMAIN loops /\ loops'[k] = loops[k]
          /\ \A k \in DOMAIN loops : k # Len(loops) + 1
      BY <2>2, LoopBegins, StreamAssumption
    <3>2. StreamTypes' /\ LinksSound'
      BY <1>1, <2>0, <2>2, <3>1 DEF StreamInv, StreamTypes, LinksSound
    <3>3. OwnRun'
      BY <1>1, <1>5, <2>0, <2>2, <3>1 DEF StreamInv, StreamTypes, LinksSound, OwnRun
    <3>4. AudioInv'
      BY <1>1, <2>2, AudioStays
    <3>q. QED  BY <3>2, <3>3, <3>4 DEF StreamInv, AudioInv
  <2>q. QED  BY <1>1, <1>2, <2>0, <2>1, <2>2, ReconnectEffect
<1>q. QED  BY <1>3, <1>4, <1>5

\* The end of a run by failure: whatever it leaves, nothing of it is live.
LEMMA FailEffect ==
  ASSUME StreamInv, NEW e \in Nat, NEW link, NEW live, Fail(e), Hangup(e, link, live),
         UNCHANGED epoch
  PROVE  \/ /\ Live(e) /\ streamState' = "idle" /\ mic' \in {MicOff, mic}
            /\ socket' = 0 /\ linked' = live \ {link}
         \/ ~Live(e) /\ UNCHANGED <<streamState, mic>> /\ socket' = link /\ linked' = live
  BY DEF Fail, Hangup, Released

LEMMA ServerEndsKeeps ==
  ASSUME StreamInv, NEW i \in DOMAIN opens, ServerEnds(i)  PROVE StreamInv'
<1>1. /\ UNCHANGED <<epoch, stopRequested, droppedStarting, opens, queue, dropped, spoken, sent,
                     crowded>>
      /\ i \in linked /\ i = socket
  BY DEF ServerEnds
<1>2. opens[i].run \in Nat
  <2>1. opens[i] \in Opening
    BY DEF StreamInv, StreamTypes
  <2>q. QED  BY <2>1 DEF Opening
<1>3. CASE /\ opens[i].at = "over" /\ i \notin ended
           /\ Reconnect(opens[i].run) /\ ended' = ended \cup {i}
           /\ UNCHANGED <<streamState, mic, socket, linked>>
  <2>1. CASE /\ UNCHANGED <<reconnecting, online, loops>>
             /\ (reconnecting \/ opens[i].run # epoch \/ streamState # "recording")
    <3>1. StreamTypes' /\ LinksSound'
      BY <1>1, <1>3, <2>1 DEF StreamInv, StreamTypes, LinksSound
    <3>2. OwnRun'
      BY <1>1, <1>3, <2>1 DEF StreamInv, StreamTypes, OwnRun
    <3>3. AudioInv'
      BY <1>1, <1>3, <2>1, AudioStays
    <3>q. QED  BY <3>1, <3>2, <3>3 DEF StreamInv, AudioInv
  <2>2. CASE /\ ~reconnecting /\ opens[i].run = epoch /\ streamState = "recording"
             /\ reconnecting' = TRUE /\ online' = FALSE
             /\ loops' = Append(loops, [run |-> epoch, left |-> Attempts, at |-> "delay"])
    <3>1. /\ loops' \in Seq(Looping) /\ DOMAIN loops \subseteq DOMAIN loops'
          /\ loops'[Len(loops) + 1].run = epoch
          /\ \A k \in DOMAIN loops' : k # Len(loops) + 1 => k \in DOMAIN loops /\ loops'[k] = loops[k]
          /\ \A k \in DOMAIN loops : k # Len(loops) + 1
      BY <2>2, LoopBegins, StreamAssumption
    <3>2. StreamTypes' /\ LinksSound'
      BY <1>1, <1>3, <2>2, <3>1 DEF StreamInv, StreamTypes, LinksSound
    <3>3. OwnRun'
      BY <1>1, <1>3, <2>2, <3>1 DEF StreamInv, StreamTypes, LinksSound, OwnRun
    <3>4. AudioInv'
      BY <1>1, <1>3, <2>2, AudioStays
    <3>q. QED  BY <3>2, <3>3, <3>4 DEF StreamInv, AudioInv
  <2>q. QED  BY <1>1, <1>2, <1>3, <2>1, <2>2, ReconnectEffect
<1>4. CASE /\ Fail(opens[i].run) /\ Hangup(opens[i].run, socket, linked)
           /\ UNCHANGED <<reconnecting, online, loops, ended>>
  <2>1. CASE /\ streamState' = "idle" /\ mic' \in {MicOff, mic}
             /\ socket' = 0 /\ linked' = linked \ {socket}
    <3>1. StreamTypes' /\ LinksSound' /\ OwnRun'
      BY <1>1, <1>4, <2>1 DEF StreamInv, StreamTypes, LinksSound, OwnRun, MicOff
    <3>2. AudioInv'
      BY <1>1, <1>4, <2>1, AudioStays
    <3>q. QED  BY <3>1, <3>2 DEF StreamInv, AudioInv
  <2>2. CASE UNCHANGED <<streamState, mic>> /\ socket' = socket /\ linked' = linked
    <3>1. StreamTypes' /\ LinksSound' /\ OwnRun'
      BY <1>1, <1>4, <2>2 DEF StreamInv, StreamTypes, LinksSound, OwnRun
    <3>2. AudioInv'
      BY <1>1, <1>4, <2>2, AudioStays
    <3>q. QED  BY <3>1, <3>2 DEF StreamInv, AudioInv
  <2>q. QED  BY <1>1, <1>2, <1>4, <2>1, <2>2, FailEffect
<1>q. QED  BY <1>3, <1>4 DEF ServerEnds

LEMMA AckedKeeps ==
  ASSUME StreamInv, NEW i \in DOMAIN opens, Acked(i)  PROVE StreamInv'
<1>1. /\ UNCHANGED <<streamState, epoch, stopRequested, droppedStarting, socket, linked, ended,
                     spoken, crowded>>
      /\ opens[i].at = "ack" /\ i \in linked /\ opens' = [opens EXCEPT ![i].at = "over"]
  BY DEF Acked, OpenOver
<1>2. /\ opens' \in Seq(Opening) /\ DOMAIN opens' = DOMAIN opens
      /\ opens'[i].at = "over" /\ opens'[i].run = opens[i].run /\ opens'[i].by = opens[i].by
      /\ \A j \in DOMAIN opens : j # i => opens'[j] = opens[j]
      /\ opens[i] \in Opening
  BY <1>1, OpenMoves, ZenonT(60)
<1>3. opens[i].run \in Nat /\ opens[i].by \in Nat
  BY <1>2 DEF Opening
<1>4. CASE opens[i].by = 0
  <2>1. /\ UNCHANGED <<reconnecting, loops, online, queue, dropped, sent>>
        /\ mic' = IF opens[i].run = epoch /\ streamState = "starting"
                    THEN [at |-> "opening", run |-> epoch] ELSE mic
    BY <1>1, <1>4 DEF Acked, OpenedRun, uplinkVars
  <2>2. StreamTypes' /\ LinksSound'
    <3>1. mic' \in [at : {"off", "opening", "on"}, run : Nat] /\ mic'.run <= epoch
      BY <2>1 DEF StreamInv, StreamTypes, LinksSound
    <3>2. StreamTypes'
      BY <1>1, <1>2, <2>1, <3>1 DEF StreamInv, StreamTypes
    <3>q. QED  BY <1>1, <1>2, <2>1, <3>1, <3>2 DEF StreamInv, StreamTypes, LinksSound
  <2>3. OwnRun'
    <3>1. mic'.run = epoch => (opens[i].run = epoch /\ streamState = "starting") \/ mic' = mic
      BY <2>1
    <3>q. QED  BY <1>1, <1>2, <1>4, <2>1, <3>1 DEF StreamInv, StreamTypes, LinksSound, OwnRun
  <2>4. AudioInv'
    BY <1>1, <2>1, AudioStays
  <2>q. QED  BY <2>2, <2>3, <2>4 DEF StreamInv, AudioInv
<1>5. CASE opens[i].by # 0
  <2> DEFINE k == opens[i].by
  <2>1. k \in DOMAIN loops
    BY <1>5 DEF StreamInv, LinksSound
  <2>2. /\ reconnecting' = FALSE /\ mic' = mic /\ loops' = [loops EXCEPT ![k].at = "over"]
        /\ Reopened(opens[i].run)
    BY <1>1, <1>5 DEF Acked, LoopOver
  <2> HIDE DEF k
  <2>3. /\ loops' \in Seq(Looping) /\ DOMAIN loops' = DOMAIN loops
        /\ loops'[k].at = "over" /\ loops'[k].run = loops[k].run
        /\ \A j \in DOMAIN loops : j # k => loops'[j] = loops[j]
    BY <2>1, <2>2, LoopEnds
  <2>4. /\ AudioInv' /\ queue' \in Seq(Kept) /\ sent' \in Seq(Gone) /\ dropped' \in BOOLEAN
        /\ online' \in BOOLEAN
        /\ (Live(opens[i].run) => online' = TRUE)
    <3>1. CASE ~Live(opens[i].run)
      <4>1. UNCHANGED <<online, queue, dropped, sent>>
        BY <2>2, <3>1 DEF Reopened, uplinkVars
      <4>2. AudioInv'
        BY <1>1, <4>1, AudioStays
      <4>q. QED  BY <3>1, <4>1, <4>2 DEF StreamInv, StreamTypes
    <3>2. CASE Live(opens[i].run)
      <4> DEFINE x == Leaves(queue, FALSE)
      <4>1. /\ online' = TRUE /\ dropped' = FALSE /\ queue' = <<>>
            /\ sent' = sent \o (GapMark \o x) /\ opens[i].run = epoch
        BY <2>2, <3>2 DEF Reopened, Live
      <4>2. /\ sent \in Seq(Gone) /\ queue \in Seq(Kept) /\ epoch \in Nat /\ FALSE \in BOOLEAN
            /\ dropped \in BOOLEAN
        BY DEF StreamInv, StreamTypes
      <4>3. GapMark \in Seq(Gone) /\ (GapMark = <<>> => ~dropped)
        <5>1. [n |-> 0, run |-> epoch, tail |-> FALSE] \in Gone
          BY <4>2 DEF Gone
        <5>2. <<[n |-> 0, run |-> epoch, tail |-> FALSE]>> \in Seq(Gone) /\ <<>> \in Seq(Gone)
          BY <5>1
        <5>q. QED  BY <4>2, <5>2 DEF GapMark
      <4>4. \A j \in DOMAIN GapMark : GapMark[j].n = 0 /\ GapMark[j].run = epoch
        BY <4>2 DEF GapMark
      <4>5. streamState' = "recording" /\ epoch \notin crowded => socket \in linked \ ended
        BY <1>1, <4>1 DEF StreamInv, LinksSound, OwnRun
      <4>6. x \in Seq(Gone) /\ GapMark \o x \in Seq(Gone)
        <5>1. x \in Seq(Gone)
          BY <4>2, LeavesAre
        <5> HIDE DEF x
        <5>q. QED  BY <5>1, <4>3
      <4>7. sent' \in Seq(Gone)
        <5> HIDE DEF x
        <5>q. QED  BY <4>1, <4>2, <4>6
      <4>8. AudioInv'
        BY <1>1, <4>1, <4>2, <4>3, <4>4, <4>5, AudioDrained
      <4>9. <<>> \in Seq(Kept) /\ TRUE \in BOOLEAN
        OBVIOUS
      <4>10. queue' \in Seq(Kept) /\ dropped' \in BOOLEAN /\ online' \in BOOLEAN
        BY <4>1, <4>2, <4>9
      <4>q. QED  BY <4>1, <4>7, <4>8, <4>10
    <3>q. QED  BY <3>1, <3>2
  <2>5. StreamTypes' /\ LinksSound'
    <3>1. StreamTypes'
      BY <1>1, <1>2, <2>2, <2>3, <2>4 DEF StreamInv, StreamTypes
    <3>q. QED  BY <1>1, <1>2, <2>2, <2>3, <3>1, SMTT(60) DEF StreamInv, StreamTypes, LinksSound
  <2>6. OwnRun'
    <3>1. SUFFICES ASSUME streamState \in {"starting", "recording"}, epoch \notin crowded
                   PROVE  OwnRun'
      BY <1>1 DEF OwnRun
    <3>2. /\ opens[i].run = epoch /\ loops[k].at = "open" /\ socket = i /\ i \notin ended
          /\ loops[k].run = epoch /\ streamState = "recording"
      BY <1>1, <1>5, <2>1, <3>1 DEF StreamInv, OwnRun, LinksSound, k
    <3>3. \A j \in DOMAIN loops' : loops'[j].at = "over"
      BY <2>1, <2>3, <3>1, <3>2 DEF StreamInv, OwnRun
    <3>4. \A j \in DOMAIN opens' : opens'[j].at = "over"
      BY <1>1, <1>2, <3>1 DEF StreamInv, OwnRun
    <3>q. QED  BY <1>1, <1>2, <2>2, <3>2, <3>3, <3>4 DEF OwnRun
  <2>q. QED  BY <2>4, <2>5, <2>6 DEF StreamInv, AudioInv
<1>q. QED  BY <1>4, <1>5

LEMMA OpenFailsKeeps ==
  ASSUME StreamInv, NEW i \in DOMAIN opens, OpenFails(i)  PROVE StreamInv'
<1> DEFINE link == IF opens[i].at = "ack" THEN 0 ELSE socket
           live == IF opens[i].at = "ack" THEN linked \ {socket} ELSE linked
<1>1. /\ UNCHANGED <<epoch, stopRequested, droppedStarting, ended, online, queue, dropped, sent,
                     spoken, crowded>>
      /\ opens[i].at \in {"connecting", "ack"} /\ opens' = [opens EXCEPT ![i].at = "over"]
  BY DEF OpenFails, OpenOver, uplinkVars
<1>2. /\ opens' \in Seq(Opening) /\ DOMAIN opens' = DOMAIN opens
      /\ opens'[i].at = "over" /\ opens'[i].run = opens[i].run /\ opens'[i].by = opens[i].by
      /\ \A j \in DOMAIN opens : j # i => opens'[j] = opens[j]
      /\ opens[i] \in Opening
  BY <1>1, OpenMoves, ZenonT(60)
<1>3. opens[i].run \in Nat /\ opens[i].by \in Nat
  BY <1>2 DEF Opening
<1>4. /\ link \in {0, socket} /\ live \subseteq linked
  OBVIOUS
<1>5. ASSUME UNCHANGED <<loops, reconnecting>> \/
               (reconnecting' = FALSE /\ loops' \in Seq(Looping) /\ DOMAIN loops' = DOMAIN loops),
             \/ streamState' = "idle" /\ mic' \in {MicOff, mic} /\ socket' = 0 /\ linked' = live \ {link}
             \/ UNCHANGED <<streamState, mic>> /\ socket' = link /\ linked' = live
      PROVE  StreamTypes' /\ LinksSound' /\ AudioInv'
  <2>1. /\ mic' \in [at : {"off", "opening", "on"}, run : Nat] /\ mic'.run <= epoch
        /\ socket' \in {0, socket} /\ linked' \subseteq linked
    BY <1>4, <1>5 DEF StreamInv, StreamTypes, LinksSound, MicOff
  <2>2. streamState' = streamState \/ streamState' = "idle"
    BY <1>5
  <2> HIDE DEF link, live
  <2>3. StreamTypes'
    <3>1. reconnecting' \in BOOLEAN /\ loops' \in Seq(Looping)
      BY <1>5 DEF StreamInv, StreamTypes
    <3>2. linked' \subseteq DOMAIN opens' /\ ended' \subseteq DOMAIN opens' /\ socket' \in Nat
      BY <1>1, <1>2, <2>1 DEF StreamInv, StreamTypes
    <3>3. streamState' \in {"idle", "starting", "recording", "stopping"}
      BY <2>2 DEF StreamInv, StreamTypes
    <3>q. QED  BY <1>1, <1>2, <2>1, <3>1, <3>2, <3>3 DEF StreamInv, StreamTypes
  <2>4. LinksSound'
    BY <1>1, <1>2, <1>5, <2>1, <2>2, <2>3, SMTT(60) DEF StreamInv, StreamTypes, LinksSound
  <2>5. AudioInv'
    BY <1>1, <2>2, AudioStays
  <2>q. QED  BY <2>3, <2>4, <2>5
<1>6. CASE opens[i].by = 0
  <2>1. /\ Fail(opens[i].run) /\ Hangup(opens[i].run, link, live) /\ UNCHANGED <<reconnecting, loops>>
    BY <1>6 DEF OpenFails
  <2>2. \/ /\ Live(opens[i].run) /\ streamState' = "idle" /\ mic' \in {MicOff, mic}
           /\ socket' = 0 /\ linked' = live \ {link}
        \/ ~Live(opens[i].run) /\ UNCHANGED <<streamState, mic>> /\ socket' = link /\ linked' = live
    BY <1>1, <1>3, <2>1, FailEffect
  <2>3. OwnRun'
    BY <1>1, <2>2 DEF StreamInv, OwnRun, Live
  <2>q. QED  BY <1>5, <2>1, <2>2, <2>3 DEF StreamInv, AudioInv
<1>7. CASE opens[i].by # 0
  <2> DEFINE k == opens[i].by
  <2>1. k \in DOMAIN loops /\ TryAgain(k, link, live)
    BY <1>7 DEF StreamInv, LinksSound, OpenFails
  <2>2. loops[k] \in Looping
    BY <2>1 DEF StreamInv, StreamTypes
  <2>3. CASE loops[k].left > 1
    <3> HIDE DEF k
    <3> DEFINE r == Later(loops[k])
    <3>1. /\ loops' = [loops EXCEPT ![k] = r]
          /\ socket' = link /\ linked' = live /\ UNCHANGED <<reconnecting, streamState, mic>>
      BY <2>1, <2>3 DEF TryAgain
    <3>2. r \in Looping /\ r.run = loops[k].run /\ r.at = "delay"
      <4>1. loops[k].left - 1 \in Nat
        BY <2>2, <2>3 DEF Looping
      <4>q. QED  BY <4>1, <2>2 DEF Looping, Later
    <3> HIDE DEF r
    <3>3. /\ loops' \in Seq(Looping) /\ DOMAIN loops' = DOMAIN loops
          /\ loops'[k].at = "delay" /\ loops'[k].run = loops[k].run
          /\ \A j \in DOMAIN loops : j # k => loops'[j] = loops[j]
      BY <2>1, <3>1, <3>2, LoopMoves
    <3>4. StreamTypes' /\ LinksSound' /\ AudioInv'
      <4>1. ASSUME reconnecting' = reconnecting, loops' \in Seq(Looping), DOMAIN loops' = DOMAIN loops
            PROVE  StreamTypes' /\ LinksSound' /\ AudioInv'
        <5>1. /\ socket' \in {0, socket} /\ linked' \subseteq linked
          BY <3>1, <1>4
        <5> HIDE DEF link, live
        <5>2. StreamTypes'
          BY <1>1, <1>2, <3>1, <4>1, <5>1 DEF StreamInv, StreamTypes
        <5>3. LinksSound'
          BY <1>1, <1>2, <3>1, <4>1, <5>1, <5>2, SMTT(60) DEF StreamInv, StreamTypes, LinksSound
        <5>4. AudioInv'
          BY <1>1, <3>1, AudioStays
        <5>q. QED  BY <5>2, <5>3, <5>4
      <4>q. QED  BY <3>1, <3>3, <4>1
    <3>5. OwnRun'
      <4>1. SUFFICES ASSUME streamState \in {"starting", "recording"}, epoch \notin crowded
                     PROVE  OwnRun'
        BY <1>1, <3>1 DEF OwnRun
      <4>2. /\ opens[i].run = epoch /\ loops[k].at = "open"
            /\ loops[k].run = epoch /\ streamState = "recording" /\ reconnecting
        BY <1>1, <1>7, <2>1, <4>1 DEF StreamInv, OwnRun, k
      <4>3. \A j \in DOMAIN opens' : opens'[j].at = "over"
        BY <1>1, <1>2, <4>1 DEF StreamInv, OwnRun
      <4>4. \A j \in DOMAIN loops' : j # k => loops'[j].at = "over"
        BY <2>1, <3>3, <4>1, <4>2 DEF StreamInv, OwnRun
      <4>5. socket' \in {0, socket} /\ (socket # 0 => opens[socket].run = epoch)
            /\ (socket # 0 => socket \in DOMAIN opens)
        BY <3>1, <4>1 DEF StreamInv, OwnRun, LinksSound
      <4>q. QED  BY <1>1, <1>2, <2>1, <3>1, <3>3, <4>1, <4>2, <4>3, <4>4, <4>5 DEF StreamInv, OwnRun
    <3>q. QED  BY <3>4, <3>5 DEF StreamInv, AudioInv
  <2>4. CASE ~(loops[k].left > 1)
    <3>1. /\ loops' = [loops EXCEPT ![k].at = "over"] /\ reconnecting' = FALSE
          /\ Fail(loops[k].run) /\ Hangup(loops[k].run, link, live)
      BY <2>1, <2>4 DEF TryAgain, LoopOver
    <3>2. loops[k].run \in Nat
      BY <2>2 DEF Looping
    <3>3. /\ loops' \in Seq(Looping) /\ DOMAIN loops' = DOMAIN loops
          /\ loops'[k].at = "over" /\ loops'[k].run = loops[k].run
          /\ \A j \in DOMAIN loops : j # k => loops'[j] = loops[j]
      <4> HIDE DEF k
      <4>q. QED  BY <2>1, <3>1, LoopEnds
    <3>4. \/ /\ Live(loops[k].run) /\ streamState' = "idle" /\ mic' \in {MicOff, mic}
             /\ socket' = 0 /\ linked' = live \ {link}
          \/ ~Live(loops[k].run) /\ UNCHANGED <<streamState, mic>> /\ socket' = link /\ linked' = live
      BY <1>1, <3>1, <3>2, FailEffect
    <3>5. OwnRun'
      BY <1>1, <1>7, <2>1, <3>4 DEF StreamInv, OwnRun, Live
    <3>q. QED  BY <1>5, <3>1, <3>3, <3>4, <3>5 DEF StreamInv, AudioInv
  <2>q. QED  BY <2>3, <2>4
<1>q. QED  BY <1>6, <1>7

LEMMA DelayOverKeeps ==
  ASSUME StreamInv, NEW k \in DOMAIN loops, DelayOver(k)  PROVE StreamInv'
<1> DEFINE e == loops[k].run
<1>1. /\ UNCHANGED <<epoch, stopRequested, droppedStarting, ended, online, queue, dropped, sent,
                     spoken, crowded>>
      /\ loops[k].at = "delay"
  BY DEF DelayOver, uplinkVars
<1>2. loops[k] \in Looping /\ e \in Nat
  <2>1. loops[k] \in Looping
    BY DEF StreamInv, StreamTypes
  <2>q. QED  BY <2>1 DEF Looping
<1>3. ASSUME loops' = [loops EXCEPT ![k].at = "over"], reconnecting' = FALSE, opens' = opens,
             \/ UNCHANGED <<streamState, mic, socket, linked>> /\ ~(Live(e) /\ streamState = "recording")
             \/ /\ streamState' = "idle" /\ mic' \in {MicOff, mic}
                /\ socket' = 0 /\ linked' = linked \ {socket}
      PROVE  StreamInv'
  <2>1. /\ loops' \in Seq(Looping) /\ DOMAIN loops' = DOMAIN loops
    BY <1>3, LoopEnds
  <2>2. /\ mic' \in [at : {"off", "opening", "on"}, run : Nat] /\ mic'.run <= epoch
        /\ socket' \in {0, socket} /\ linked' \subseteq linked
        /\ (streamState' = streamState \/ streamState' = "idle")
    BY <1>3 DEF StreamInv, StreamTypes, LinksSound, MicOff
  <2>3. StreamTypes'
    <3>1. streamState' \in {"idle", "starting", "recording", "stopping"} /\ reconnecting' \in BOOLEAN
      BY <1>3, <2>2 DEF StreamInv, StreamTypes
    <3>2. linked' \subseteq DOMAIN opens' /\ ended' \subseteq DOMAIN opens' /\ socket' \in Nat
      BY <1>1, <1>3, <2>2 DEF StreamInv, StreamTypes
    <3>q. QED  BY <1>1, <1>3, <2>1, <2>2, <3>1, <3>2 DEF StreamInv, StreamTypes
  <2>4. LinksSound'
    BY <1>1, <1>3, <2>1, <2>2 DEF StreamInv, StreamTypes, LinksSound
  <2>5. OwnRun'
    <3>1. SUFFICES ASSUME streamState' \in {"starting", "recording"}, epoch' \notin crowded'
                   PROVE  OwnRun'
      BY DEF OwnRun
    <3>2. streamState' = streamState /\ ~(Live(e) /\ streamState = "recording")
      BY <1>3, <3>1
    <3>3. e = epoch /\ streamState = "recording"
      BY <1>1, <3>1, <3>2 DEF StreamInv, OwnRun
    <3>q. QED  BY <3>2, <3>3 DEF Live
  <2>6. AudioInv'
    BY <1>1, <2>2, AudioStays
  <2>q. QED  BY <2>3, <2>4, <2>5, <2>6 DEF StreamInv, AudioInv
<1>4. CASE /\ Live(e) /\ streamState = "recording"
           /\ OpenChannel(e, k) /\ loops' = [loops EXCEPT ![k].at = "open"]
           /\ UNCHANGED <<reconnecting, streamState, mic>>
  <2> DEFINE o == [run |-> e, by |-> k, at |-> "connecting"]
  <2>1. /\ opens' = Append(opens, o) /\ socket' = 0 /\ linked' = linked \ {socket} /\ e = epoch
    BY <1>4 DEF OpenChannel, Close, Live
  <2>2. opens \in Seq(Opening) /\ k \in Nat
    BY DEF StreamInv, StreamTypes
  <2>3. o \in Opening /\ o.run = e /\ o.by = k /\ o.at = "connecting"
    BY <1>2, <2>2 DEF Opening
  <2> HIDE DEF o
  <2>4. /\ opens' \in Seq(Opening) /\ Len(opens) + 1 \notin DOMAIN opens
        /\ \A i \in DOMAIN opens : i \in DOMAIN opens' /\ opens'[i] = opens[i]
        /\ \A i \in DOMAIN opens' : i \in DOMAIN opens \/ (i = Len(opens) + 1 /\ opens'[i] = o)
    BY <2>1, <2>2, <2>3
  <2>5. /\ loops' \in Seq(Looping) /\ DOMAIN loops' = DOMAIN loops
        /\ loops'[k].at = "open" /\ loops'[k].run = loops[k].run
        /\ \A j \in DOMAIN loops : j # k => loops'[j] = loops[j]
    BY <1>4, LoopEnds
  <2>6. StreamTypes'
    <3>1. linked' \subseteq DOMAIN opens' /\ ended' \subseteq DOMAIN opens' /\ socket' \in Nat
      BY <1>1, <2>1, <2>4 DEF StreamInv, StreamTypes
    <3>q. QED  BY <1>1, <1>4, <2>4, <2>5, <3>1 DEF StreamInv, StreamTypes
  <2>7. LinksSound'
    <3>1. ASSUME NEW i \in DOMAIN opens'
          PROVE  /\ opens'[i].run <= epoch' /\ (opens'[i].at # "over" => i \notin ended')
                 /\ (opens'[i].at = "connecting" => i \notin linked')
                 /\ (opens'[i].by = 0 \/ opens'[i].by \in DOMAIN loops')
      <4>1. CASE i \in DOMAIN opens
        BY <4>1, <1>1, <2>1, <2>4, <2>5 DEF StreamInv, LinksSound
      <4>2. CASE i \notin DOMAIN opens
        BY <4>2, <1>1, <2>1, <2>3, <2>4, <2>5 DEF StreamInv, StreamTypes
      <4>q. QED  BY <4>1, <4>2
    <3>q. QED  BY <3>1, <1>1, <1>4, <2>1 DEF StreamInv, LinksSound
  <2>8. OwnRun'
    <3>1. SUFFICES ASSUME epoch \notin crowded  PROVE OwnRun'
      BY <1>1 DEF OwnRun
    <3>2. reconnecting /\ ~online /\ \A j \in DOMAIN loops : j # k => loops[j].at = "over"
      BY <1>1, <1>4, <3>1 DEF StreamInv, OwnRun
    <3>3. \A i \in DOMAIN opens : opens[i].at = "over"
      <4>1. SUFFICES ASSUME NEW i \in DOMAIN opens, opens[i].at # "over"  PROVE FALSE
        OBVIOUS
      <4>2. opens[i].by # 0 /\ loops[opens[i].by].at = "open"
        BY <1>4, <3>1, <4>1 DEF StreamInv, OwnRun
      <4>3. opens[i].by \in DOMAIN loops
        BY <4>1, <4>2 DEF StreamInv, LinksSound
      <4>q. QED  BY <1>1, <3>2, <4>2, <4>3
    <3>4. \A i \in DOMAIN opens' : opens'[i].at # "over" => i = Len(opens) + 1 /\ opens'[i] = o
      BY <2>4, <3>3
    <3>5. \A j \in DOMAIN loops' : loops'[j].at # "over" => j = k
      BY <2>5, <3>2
    <3>6. k # 0
      BY DEF StreamInv, StreamTypes
    <3>q. QED  BY <1>1, <1>4, <2>1, <2>3, <2>5, <3>2, <3>4, <3>5, <3>6 DEF OwnRun
  <2>9. AudioInv'
    BY <1>1, <1>4, AudioStays
  <2>q. QED  BY <2>6, <2>7, <2>8, <2>9 DEF StreamInv, AudioInv
<1>5. CASE /\ ~(Live(e) /\ streamState = "recording")
           /\ loops' = LoopOver(k) /\ reconnecting' = FALSE
           /\ UNCHANGED <<streamState, mic, opens, socket, linked>>
  BY <1>3, <1>5 DEF LoopOver
<1>6. CASE /\ Live(e) /\ streamState = "recording"
           /\ loops' = LoopOver(k) /\ reconnecting' = FALSE
           /\ Fail(e) /\ Hangup(e, socket, linked) /\ UNCHANGED opens
  <2>1. /\ streamState' = "idle" /\ mic' \in {MicOff, mic} /\ socket' = 0 /\ linked' = linked \ {socket}
    BY <1>1, <1>2, <1>6, FailEffect
  <2>q. QED  BY <1>3, <1>6, <2>1 DEF LoopOver
<1>q. QED  BY <1>4, <1>5, <1>6 DEF DelayOver

LEMMA MicOpenedKeeps == StreamInv /\ MicOpened => StreamInv'
<1> SUFFICES ASSUME StreamInv, MicOpened PROVE StreamInv'
  OBVIOUS
<1>1. /\ UNCHANGED <<epoch, stopRequested, droppedStarting, opens, socket, linked, ended, spoken,
                     crowded>>
      /\ mic.at = "opening"
  BY DEF MicOpened, linkVars
<1>2. mic \in [at : {"off", "opening", "on"}, run : Nat] /\ epoch \in Nat
  BY DEF StreamInv, StreamTypes
<1>3. CASE ~(streamState = "starting" /\ mic.run = epoch)
  <2>1. /\ mic' = [mic EXCEPT !.at = "on"]
        /\ UNCHANGED <<streamState, reconnecting, loops, online, queue, dropped, sent>>
    BY <1>3 DEF MicOpened, uplinkVars
  <2>2. mic' \in [at : {"off", "opening", "on"}, run : Nat] /\ mic'.run = mic.run
    BY <1>2, <2>1
  <2>3. StreamTypes' /\ LinksSound' /\ OwnRun'
    BY <1>1, <2>1, <2>2 DEF StreamInv, StreamTypes, LinksSound, OwnRun
  <2>4. AudioInv'
    BY <1>1, <2>1, AudioStays
  <2>q. QED  BY <2>3, <2>4 DEF StreamInv, AudioInv
<1>4. CASE streamState = "starting" /\ mic.run = epoch /\ stopRequested
  <2>1. ShutDown /\ UNCHANGED <<reconnecting, loops>>
    BY <1>4 DEF MicOpened
  <2>2. /\ AudioInv' /\ mic' = MicOff /\ streamState' = "stopping" /\ online' = TRUE
        /\ queue' = <<>> /\ dropped' = dropped /\ sent' \in Seq(Gone)
    BY <1>1, <2>1, ShutDownAudio
  <2>3. StreamTypes'
    <3>1. mic' \in [at : {"off", "opening", "on"}, run : Nat] /\ <<>> \in Seq(Kept)
      BY <2>2 DEF MicOff
    <3>q. QED  BY <1>1, <2>1, <2>2, <3>1 DEF StreamInv, StreamTypes
  <2>4. LinksSound' /\ OwnRun'
    BY <1>1, <1>4, <2>1, <2>2 DEF StreamInv, StreamTypes, LinksSound, OwnRun, MicOff
  <2>q. QED  BY <2>2, <2>3, <2>4 DEF StreamInv, AudioInv
<1>5. CASE streamState = "starting" /\ mic.run = epoch /\ ~stopRequested
  <2>1. /\ mic' = [mic EXCEPT !.at = "on"] /\ streamState' = "recording"
        /\ UNCHANGED <<queue, dropped, sent>>
    BY <1>5 DEF MicOpened
  <2>2. mic' \in [at : {"off", "opening", "on"}, run : Nat] /\ mic'.run = mic.run
    BY <1>2, <2>1
  <2>3. /\ \A i \in DOMAIN sent : sent[i].n # 0 => sent[i].run < epoch
        /\ \A i \in DOMAIN sent : sent[i].run \in Nat
        /\ sent # <<>> => Len(sent) \in DOMAIN sent
    <3>1. sent \in Seq(Gone) /\ \A i \in DOMAIN sent : sent[i] \in Gone
      BY DEF StreamInv, StreamTypes
    <3>2. \A i \in DOMAIN sent : sent[i].run \in Nat
      BY <3>1 DEF Gone
    <3>q. QED  BY <1>5, <3>1, <3>2 DEF StreamInv, AudioSound
  <2>4. \A i \in DOMAIN sent : sent[i].n # 0 => sent[i].run # epoch
    BY <1>2, <2>3
  <2>5. ASSUME online' = online \/ ~online'  PROVE AudioInv'
    <3>1. AudioSound'
      BY <1>1, <2>1, <2>5 DEF StreamInv, AudioSound
    <3>2. NothingUnsaid'
      BY <1>1, <2>1, <2>3, <2>4 DEF StreamInv, NothingUnsaid
    <3>3. LossIsShown'
      BY <1>1, <2>1 DEF StreamInv, LossIsShown
    <3>q. QED  BY <3>1, <3>2, <3>3 DEF AudioInv
  <2>6. CASE droppedStarting /\ ~reconnecting
    <3>1. /\ reconnecting' = TRUE /\ online' = FALSE
          /\ loops' = Append(loops, [run |-> epoch, left |-> Attempts, at |-> "delay"])
      BY <1>5, <2>6 DEF MicOpened
    <3>2. /\ loops' \in Seq(Looping) /\ DOMAIN loops \subseteq DOMAIN loops'
          /\ loops'[Len(loops) + 1].run = epoch
          /\ \A k \in DOMAIN loops' : k # Len(loops) + 1 => k \in DOMAIN loops /\ loops'[k] = loops[k]
          /\ \A k \in DOMAIN loops : k # Len(loops) + 1
      BY <3>1, LoopBegins, StreamAssumption
    <3>3. StreamTypes' /\ LinksSound'
      BY <1>1, <1>5, <2>1, <2>2, <3>1, <3>2 DEF StreamInv, StreamTypes, LinksSound
    <3>4. OwnRun'
      BY <1>1, <1>5, <2>1, <2>2, <3>1, <3>2 DEF StreamInv, StreamTypes, LinksSound, OwnRun
    <3>q. QED  BY <2>5, <3>1, <3>3, <3>4 DEF StreamInv, AudioInv
  <2>7. CASE ~(droppedStarting /\ ~reconnecting)
    <3>1. UNCHANGED <<reconnecting, online, loops>>
      BY <1>5, <2>7 DEF MicOpened
    <3>2. StreamTypes' /\ LinksSound'
      BY <1>1, <1>5, <2>1, <2>2, <3>1 DEF StreamInv, StreamTypes, LinksSound
    <3>3. OwnRun'
      BY <1>1, <1>5, <2>1, <2>2, <2>4, <2>7, <3>1 DEF StreamInv, StreamTypes, LinksSound, OwnRun
    <3>q. QED  BY <2>5, <3>1, <3>2, <3>3 DEF StreamInv, AudioInv
  <2>q. QED  BY <2>6, <2>7
<1>q. QED  BY <1>3, <1>4, <1>5

LEMMA MicFailsKeeps == StreamInv /\ MicFails => StreamInv'
<1> SUFFICES ASSUME StreamInv, MicFails PROVE StreamInv'
  OBVIOUS
<1>1. /\ UNCHANGED <<epoch, stopRequested, reconnecting, droppedStarting, loops, opens, ended,
                     online, queue, dropped, sent, spoken, crowded>>
      /\ mic' = MicOff
      /\ \/ streamState' = "idle" /\ socket' = 0 /\ linked' = linked \ {socket}
         \/ /\ UNCHANGED <<streamState, socket, linked>>
            /\ ~(streamState = "starting" /\ mic.run = epoch)
  BY DEF MicFails, Close, uplinkVars
<1>2. mic' \in [at : {"off", "opening", "on"}, run : Nat] /\ mic'.run = 0
  BY <1>1 DEF MicOff
<1>3. StreamTypes' /\ LinksSound'
  BY <1>1, <1>2 DEF StreamInv, StreamTypes, LinksSound
<1>4. OwnRun'
  BY <1>1, <1>2 DEF StreamInv, StreamTypes, LinksSound, OwnRun
<1>5. AudioInv'
  BY <1>1, AudioStays
<1>q. QED  BY <1>3, <1>4, <1>5 DEF StreamInv, AudioInv

LEMMA StreamStep == StreamInv /\ [StreamNext]_streamVars => StreamInv'
<1> SUFFICES ASSUME StreamInv, [StreamNext]_streamVars PROVE StreamInv'
  OBVIOUS
<1>1. CASE UNCHANGED streamVars
  BY <1>1 DEF streamVars, StreamInv, StreamTypes, LinksSound, OwnRun, AudioSound, NothingUnsaid,
              LossIsShown
<1>2. ASSUME NEW i \in DOMAIN opens, Connected(i) \/ Acked(i) \/ OpenFails(i) \/ Drops(i) \/ ServerEnds(i)
      PROVE  StreamInv'
  BY <1>2, ConnectedKeeps, AckedKeeps, OpenFailsKeeps, DropsKeeps, ServerEndsKeeps
<1>3. ASSUME NEW k \in DOMAIN loops, DelayOver(k)  PROVE StreamInv'
  BY <1>3, DelayOverKeeps
<1>q. QED
  BY <1>1, <1>2, <1>3, StartKeeps, StopKeeps, FlushedKeeps, MicOpenedKeeps, MicFailsKeeps, SpeakKeeps
     DEF StreamNext

\* What the streaming engine loses of a run while its link is down, it reports.
THEOREM LossIsShownCorrect == StreamSpec => []LossIsShown
<1>1. StreamInv => LossIsShown
  BY DEF StreamInv
<1>q. QED  BY <1>1, StreamInit_Inv, StreamStep, PTL DEF StreamSpec

\* A run that began with no work of an earlier one pending is not deafened while it records:
\* whatever a lost link, a failed reconnect or a stop does, as long as it records it either sends
\* what is spoken or a reconnect of its own is under way.
StaysAudible ==
  (streamState = "recording" /\ epoch \notin crowded /\ AudioFlows) => AudioFlows'

NeverDeafened == [][StaysAudible]_streamVars

\* A reconnect that ends while its run still records has opened the link.
LEMMA LoopEndsAudible ==
  ASSUME StreamInv, NEW k \in DOMAIN loops, loops[k].at # "over",
         streamState = "recording", epoch \notin crowded
  PROVE  loops[k].run = epoch /\ Live(loops[k].run)
BY DEF StreamInv, OwnRun, Live

LEMMA AudibleStep == StreamInv /\ [StreamNext]_streamVars => StaysAudible
<1> SUFFICES ASSUME StreamInv, [StreamNext]_streamVars,
                    streamState = "recording", epoch \notin crowded, AudioFlows
             PROVE  AudioFlows'
  BY DEF StaysAudible
<1>1. CASE \/ StreamStart \/ StreamStop \/ Flushed \/ MicOpened \/ MicFails \/ UNCHANGED streamVars
  <2>1. ~StreamStart /\ ~Flushed
    BY DEF StreamStart, Flushed
  <2>2. CASE StreamStop
    BY <2>2 DEF StreamStop, ShutDown, AudioFlows
  <2>3. CASE MicOpened \/ MicFails
    BY <2>3 DEF MicOpened, MicFails, uplinkVars, AudioFlows
  <2>4. CASE UNCHANGED streamVars
    BY <2>4 DEF streamVars, AudioFlows
  <2> QED BY <1>1, <2>1, <2>2, <2>3, <2>4
<1>7. CASE Speak
  <2>1. online' = online /\ UNCHANGED <<streamState, reconnecting>>
    BY <1>7 DEF Speak, Push
  <2> QED BY <2>1 DEF AudioFlows
<1>2. ASSUME NEW i \in DOMAIN opens, Connected(i)  PROVE AudioFlows'
  BY <1>2 DEF Connected, uplinkVars, AudioFlows
<1>3. ASSUME NEW i \in DOMAIN opens, Drops(i) \/ ServerEnds(i)  PROVE AudioFlows'
  BY <1>3 DEF Drops, ServerEnds, Reconnect, Fail, Live, AudioFlows
<1>4. ASSUME NEW i \in DOMAIN opens, Acked(i)  PROVE AudioFlows'
  <2>1. CASE opens[i].by = 0
    BY <1>4, <2>1 DEF Acked, uplinkVars, AudioFlows
  <2>2. CASE opens[i].by # 0
    <3>1. opens[i].run = epoch
      BY <1>4 DEF Acked, StreamInv, OwnRun
    <3> QED BY <1>4, <2>2, <3>1 DEF Acked, Reopened, Live, AudioFlows
  <2> QED BY <2>1, <2>2
<1>5. ASSUME NEW i \in DOMAIN opens, OpenFails(i)  PROVE AudioFlows'
  <2>1. opens[i].run = epoch /\ opens[i].by # 0
    BY <1>5 DEF OpenFails, StreamInv, OwnRun
  <2>2. opens[i].by \in DOMAIN loops /\ loops[opens[i].by].run = epoch
    <3>1. opens[i].by \in DOMAIN loops /\ loops[opens[i].by].at = "open"
      BY <1>5, <2>1 DEF OpenFails, StreamInv, LinksSound, OwnRun
    <3> QED BY <3>1, LoopEndsAudible
  <2> QED BY <1>5, <2>1, <2>2 DEF OpenFails, TryAgain, Fail, Live, uplinkVars, AudioFlows
<1>6. ASSUME NEW k \in DOMAIN loops, DelayOver(k)  PROVE AudioFlows'
  <2>1. Live(loops[k].run)
    BY <1>6, LoopEndsAudible DEF DelayOver
  <2> QED BY <1>6, <2>1 DEF DelayOver, Fail, uplinkVars, AudioFlows
<1> QED BY <1>1, <1>2, <1>3, <1>4, <1>5, <1>6, <1>7 DEF StreamNext

\* A run of the streaming engine that began with no work of an earlier one pending keeps sending
\* what it hears, or is reconnecting, for as long as it records.
THEOREM NeverDeafenedCorrect == StreamSpec => NeverDeafened
<1>1. StreamInv /\ [StreamNext]_streamVars => [StaysAudible]_streamVars
  BY AudibleStep
<1> QED BY <1>1, StreamInit_Inv, StreamStep, PTL DEF StreamSpec, NeverDeafened

------------------------------------------------------------------------------
(* ChunkEngine.  Every chunk is in exactly one place: it is being recorded,*)
(* waits for its upload, or was told of.  Places is that for a chunk c     *)
(* being recorded, m begun, uploads u and a log t; each operation moves    *)
(* one chunk from a place to the next.                                     *)

Tellings == [n : Nat, what : {"text", "silence", "gap", "sliver", "withheld"}]

Places(c, m, u, t) ==
  /\ m \in Nat /\ c \in 0..m /\ u \in Seq(1..m) /\ t \in Seq(Tellings)
  /\ \A i \in DOMAIN t : t[i].n \in 0..m
  \* somewhere
  /\ \A n \in 1..m : n = c \/ (\E j \in DOMAIN u : u[j] = n) \/ (\E i \in DOMAIN t : t[i].n = n)
  \* and nowhere else
  /\ \A j \in DOMAIN u : u[j] # c
  /\ \A i \in DOMAIN t : t[i].n # 0 => t[i].n # c /\ \A j \in DOMAIN u : t[i].n # u[j]
  /\ \A i, k \in DOMAIN t : t[i].n # 0 /\ t[i].n = t[k].n => i = k
  \* in the order recorded
  /\ c # 0 => c = m
  /\ \A j, k \in DOMAIN u : j < k => u[j] < u[k]
  /\ \A i \in DOMAIN t, j \in DOMAIN u : t[i].what = "text" => t[i].n < u[j]
  /\ \A i, k \in DOMAIN t : i < k /\ t[i].what = "text" /\ t[k].what = "text" => t[i].n < t[k].n

\* A chunk is recorded while the chunked engine records, and that engine runs only in its turn.
Turn ==
  /\ fallback = [st |-> fallback.st, fellBack |-> fallback.fellBack,
                 stopping |-> fallback.stopping, failed |-> fallback.failed]
  /\ fallback.st \in {"idle", "primary", "secondary"}
  /\ chunkState \in {"idle", "starting", "recording", "stopping"}
  /\ chunkState # "idle" <=> fallback.st = "secondary"
  /\ chunk # 0 <=> chunkState = "recording"
  /\ chunkState \in {"idle", "starting"} => chunkUploads = <<>>
  /\ chunkOps \in Seq({"rotate", "shutdown", "fail"})

\* What is being recorded or waits for its upload has its file.
HasFiles(c, u, f) ==
  /\ c # 0 => c \in f
  /\ \A j \in DOMAIN u : u[j] \in f

AccountInv ==
  Turn /\ Places(chunk, chunks, chunkUploads, told) /\ HasFiles(chunk, chunkUploads, files)

LEMMA ChunkTold ==
  ASSUME NEW c, NEW m, NEW u, NEW t, Places(c, m, u, t), c # 0,
         NEW what \in {"silence", "gap", "sliver", "withheld"}
  PROVE  Places(0, m, u, Append(t, [n |-> c, what |-> what]))
<1> DEFINE e == [n |-> c, what |-> what]
           t2 == Append(t, e)
<1>1. m \in Nat /\ c \in 1..m /\ u \in Seq(1..m) /\ t \in Seq(Tellings) /\ e \in Tellings
  BY DEF Places, Tellings
<1>2. /\ t2 \in Seq(Tellings) /\ Len(t2) = Len(t) + 1 /\ t2[Len(t) + 1] = e
      /\ \A i \in DOMAIN t : t2[i] = t[i]
      /\ DOMAIN t2 = DOMAIN t \cup {Len(t) + 1} /\ Len(t) \in Nat /\ DOMAIN t = 1..Len(t)
  BY <1>1
<1> HIDE DEF t2
<1>3. e.n = c /\ e.what # "text"  OBVIOUS
<1> HIDE DEF e
<1>4. \A i \in DOMAIN t2 : t2[i].n \in 0..m  BY <1>1, <1>2, <1>3 DEF Places
<1>5. \A n \in 1..m : (\E j \in DOMAIN u : u[j] = n) \/ (\E i \in DOMAIN t2 : t2[i].n = n)
  <2> TAKE n \in 1..m
  <2>1. n = c \/ (\E j \in DOMAIN u : u[j] = n) \/ (\E i \in DOMAIN t : t[i].n = n)  BY <1>1 DEF Places
  <2>2. CASE n = c  BY <2>2, <1>2, <1>3
  <2>3. CASE \E i \in DOMAIN t : t[i].n = n  BY <2>3, <1>2
  <2> QED BY <2>1, <2>2, <2>3
<1>6. \A j \in DOMAIN u : u[j] # 0  BY <1>1
<1>7. \A i \in DOMAIN t2 : t2[i].n # 0 => \A j \in DOMAIN u : t2[i].n # u[j]
  BY <1>2, <1>3 DEF Places
<1>8. \A i, k \in DOMAIN t2 : t2[i].n # 0 /\ t2[i].n = t2[k].n => i = k
  BY <1>2, <1>3 DEF Places
<1>9. \A i \in DOMAIN t2, j \in DOMAIN u : t2[i].what = "text" => t2[i].n < u[j]
  BY <1>2, <1>3 DEF Places
<1>10. \A i, k \in DOMAIN t2 : i < k /\ t2[i].what = "text" /\ t2[k].what = "text" => t2[i].n < t2[k].n
  BY <1>2, <1>3 DEF Places
<1>11. 0 \in 0..m  BY <1>1
<1>12. Places(0, m, u, t2)
  BY <1>1, <1>2, <1>4, <1>5, <1>6, <1>7, <1>8, <1>9, <1>10, <1>11 DEF Places
<1> QED BY <1>12 DEF t2, e

LEMMA ChunkQueued ==
  ASSUME NEW c, NEW m, NEW u, NEW t, Places(c, m, u, t), c # 0
  PROVE  Places(0, m, Append(u, c), t)
<1> DEFINE u2 == Append(u, c)
<1>1. m \in Nat /\ c \in 1..m /\ u \in Seq(1..m) /\ c = m  BY DEF Places
<1>2. /\ u2 \in Seq(1..m) /\ u2[Len(u) + 1] = c /\ Len(u) \in Nat
      /\ \A i \in DOMAIN u : u2[i] = u[i] /\ u2[i] \in 1..m
      /\ DOMAIN u2 = DOMAIN u \cup {Len(u) + 1} /\ DOMAIN u = 1..Len(u)
  BY <1>1
<1> HIDE DEF u2
<1>4. \A n \in 1..m : (\E j \in DOMAIN u2 : u2[j] = n) \/ (\E i \in DOMAIN t : t[i].n = n)
  <2> TAKE n \in 1..m
  <2>1. n = c \/ (\E j \in DOMAIN u : u[j] = n) \/ (\E i \in DOMAIN t : t[i].n = n)  BY <1>1 DEF Places
  <2>2. CASE n = c  BY <2>2, <1>2
  <2>3. CASE \E j \in DOMAIN u : u[j] = n  BY <2>3, <1>2
  <2> QED BY <2>1, <2>2, <2>3
<1>5. \A j \in DOMAIN u2 : u2[j] # 0  BY <1>1, <1>2
<1>6. \A i \in DOMAIN t : t[i].n # 0 => \A j \in DOMAIN u2 : t[i].n # u2[j]
  BY <1>2 DEF Places
<1>7. \A j, k \in DOMAIN u2 : j < k => u2[j] < u2[k]
  <2>1. \A j \in DOMAIN u : u[j] < c  BY <1>1, <1>2 DEF Places
  <2> QED BY <2>1, <1>2 DEF Places
<1>8. \A i \in DOMAIN t, j \in DOMAIN u2 : t[i].what = "text" => t[i].n < u2[j]
  <2>1. \A i \in DOMAIN t : t[i].n < c  BY <1>1 DEF Places
  <2> QED BY <2>1, <1>2 DEF Places
<1>9. 0 \in 0..m  BY <1>1
<1>10. Places(0, m, u2, t)
  BY <1>2, <1>4, <1>5, <1>6, <1>7, <1>8, <1>9 DEF Places
<1> QED BY <1>10 DEF u2

LEMMA ChunkBegun ==
  ASSUME NEW m, NEW u, NEW t, Places(0, m, u, t)
  PROVE  Places(m + 1, m + 1, u, t)
<1>1. m \in Nat /\ m + 1 \in Nat /\ u \in Seq(1..m) /\ 1..m \subseteq 1..(m + 1) /\ m + 1 \in 0..(m + 1)
  BY DEF Places
<1>2. u \in Seq(1..(m + 1)) /\ \A j \in DOMAIN u : u[j] \in 1..m  BY <1>1
<1>3. \A i \in DOMAIN t : t[i].n \in 0..m /\ t[i].n \in 0..(m + 1) /\ t[i].n # m + 1  BY <1>1 DEF Places
<1>4. \A n \in 1..(m + 1) : n = m + 1 \/ (\E j \in DOMAIN u : u[j] = n) \/ (\E i \in DOMAIN t : t[i].n = n)
  <2>1. \A n \in 1..m : (\E j \in DOMAIN u : u[j] = n) \/ (\E i \in DOMAIN t : t[i].n = n)
    <3>1. \A n \in 1..m : n # 0  BY <1>1
    <3> QED BY <3>1 DEF Places
  <2>2. \A n \in 1..(m + 1) : n = m + 1 \/ n \in 1..m  BY <1>1
  <2> QED BY <2>1, <2>2
<1>5. \A j \in DOMAIN u : u[j] # m + 1  BY <1>1, <1>2
<1> QED BY <1>1, <1>2, <1>3, <1>4, <1>5 DEF Places

\* The first upload settles.
LEMMA ChunkSettled ==
  ASSUME NEW c, NEW m, NEW u, NEW t, Places(c, m, u, t), u # <<>>,
         NEW what \in {"text", "silence", "gap", "withheld"}
  PROVE  Places(c, m, Tail(u), Append(t, [n |-> Head(u), what |-> what]))
<1> DEFINE e == [n |-> Head(u), what |-> what]
           t2 == Append(t, e)
           u2 == Tail(u)
<1>1. m \in Nat /\ u \in Seq(1..m) /\ t \in Seq(Tellings) /\ Len(u) \in Nat \ {0} /\ DOMAIN u = 1..Len(u)
  BY DEF Places
<1>2. Head(u) = u[1] /\ u[1] \in 1..m /\ e \in Tellings  BY <1>1 DEF Tellings
<1>3. /\ t2 \in Seq(Tellings) /\ t2[Len(t) + 1] = e
      /\ \A i \in DOMAIN t : t2[i] = t[i]
      /\ DOMAIN t2 = DOMAIN t \cup {Len(t) + 1} /\ Len(t) \in Nat /\ DOMAIN t = 1..Len(t)
  BY <1>1, <1>2
<1>4. /\ u2 \in Seq(1..m) /\ DOMAIN u2 = 1..(Len(u) - 1)
      /\ \A j \in DOMAIN u2 : u2[j] = u[j + 1] /\ j + 1 \in DOMAIN u /\ u2[j] \in 1..m
  BY <1>1
<1> HIDE DEF t2, u2
<1>5. e.n = u[1] /\ e.n \in 1..m  BY <1>2
<1> HIDE DEF e
<1>6. \A j \in DOMAIN u : j = 1 \/ (j - 1 \in DOMAIN u2 /\ u2[j - 1] = u[j])
  <2> TAKE j \in DOMAIN u
  <2>1. CASE j # 1
    <3>1. j - 1 \in DOMAIN u2 /\ (j - 1) + 1 = j  BY <2>1, <1>1, <1>4, SMTT(60)
    <3> QED BY <3>1, <1>4
  <2> QED BY <2>1
<1>7. \A j \in DOMAIN u2 : u[1] < u2[j]
  <2> TAKE j \in DOMAIN u2
  <2>1. 1 \in DOMAIN u /\ j + 1 \in DOMAIN u /\ 1 < j + 1 /\ u2[j] = u[j + 1]  BY <1>1, <1>4, SMTT(60)
  <2> QED BY <2>1 DEF Places
<1>9. \A n \in 1..m : n = c \/ (\E j \in DOMAIN u2 : u2[j] = n) \/ (\E i \in DOMAIN t2 : t2[i].n = n)
  <2> TAKE n \in 1..m
  <2>1. n = c \/ (\E j \in DOMAIN u : u[j] = n) \/ (\E i \in DOMAIN t : t[i].n = n)  BY DEF Places
  <2>2. CASE \E j \in DOMAIN u : u[j] = n  BY <2>2, <1>3, <1>5, <1>6
  <2> QED BY <2>1, <2>2, <1>3
<1>10. \A j \in DOMAIN u2 : u2[j] # c  BY <1>4 DEF Places
<1>11. \A i \in DOMAIN t2 : t2[i].n \in 0..m /\
         (t2[i].n # 0 => t2[i].n # c /\ \A j \in DOMAIN u2 : t2[i].n # u2[j])
  <2>1. \A i \in DOMAIN t : t[i].n \in 0..m /\
         (t[i].n # 0 => t[i].n # c /\ \A j \in DOMAIN u2 : t[i].n # u2[j])  BY <1>4, SMTT(60) DEF Places
  <2>2. u[1] # c /\ 1 \in DOMAIN u  BY <1>1 DEF Places
  <2>3. \A j \in DOMAIN u2 : u[1] # u2[j]  BY <1>2, <1>4, <1>7
  <2> QED BY <2>1, <2>2, <2>3, <1>3, <1>5
<1>12. \A i, k \in DOMAIN t2 : t2[i].n # 0 /\ t2[i].n = t2[k].n => i = k
  <2>1. 1 \in DOMAIN u /\ \A i \in DOMAIN t : t[i].n # 0 => t[i].n # u[1]  BY <1>1, SMTT(60) DEF Places
  <2>2. \A i \in DOMAIN t : t[i].n # u[1]  BY <2>1, <1>2
  <2> QED BY <2>2, <1>3, <1>5 DEF Places
<1>13. \A i \in DOMAIN t2, j \in DOMAIN u2 : t2[i].what = "text" => t2[i].n < u2[j]
  <2>1. \A i \in DOMAIN t, j \in DOMAIN u2 : t[i].what = "text" => t[i].n < u2[j]  BY <1>4, SMTT(60) DEF Places
  <2> QED BY <2>1, <1>3, <1>5, <1>7
<1>14. \A i, k \in DOMAIN t2 : i < k /\ t2[i].what = "text" /\ t2[k].what = "text" => t2[i].n < t2[k].n
  <2>1. 1 \in DOMAIN u  BY <1>1
  <2> QED BY <2>1, <1>3, <1>5 DEF Places
<1>15. \A j, k \in DOMAIN u2 : j < k => u2[j] < u2[k]  BY <1>4 DEF Places
<1>16. Places(c, m, u2, t2)
  BY <1>1, <1>3, <1>4, <1>9, <1>10, <1>11, <1>12, <1>13, <1>14, <1>15 DEF Places
<1> QED BY <1>16 DEF t2, u2, e

\* Time in which no engine ran is told as chunk 0.
LEMMA GapTold ==
  ASSUME NEW c, NEW m, NEW u, NEW t, Places(c, m, u, t)
  PROVE  Places(c, m, u, Append(t, [n |-> 0, what |-> "gap"]))
<1> DEFINE e == [n |-> 0, what |-> "gap"]
           t2 == Append(t, e)
<1>1. m \in Nat /\ t \in Seq(Tellings) /\ e \in Tellings
  BY DEF Places, Tellings
<1>2. /\ t2 \in Seq(Tellings) /\ t2[Len(t) + 1] = e
      /\ \A i \in DOMAIN t : t2[i] = t[i]
      /\ DOMAIN t2 = DOMAIN t \cup {Len(t) + 1} /\ Len(t) \in Nat /\ DOMAIN t = 1..Len(t)
  BY <1>1
<1> HIDE DEF t2
<1>3. e.n = 0 /\ e.what = "gap"  OBVIOUS
<1> HIDE DEF e
<1>4. \A n \in 1..m : n = c \/ (\E j \in DOMAIN u : u[j] = n) \/ (\E i \in DOMAIN t2 : t2[i].n = n)
  BY <1>2 DEF Places
<1>5. \A i \in DOMAIN t2 : t2[i].n \in 0..m
  BY <1>1, <1>2, <1>3 DEF Places
<1>6. \A i \in DOMAIN t2 : t2[i].n # 0 => t2[i].n # c /\ \A j \in DOMAIN u : t2[i].n # u[j]
  BY <1>2, <1>3 DEF Places
<1>7. \A i, k \in DOMAIN t2 : t2[i].n # 0 /\ t2[i].n = t2[k].n => i = k
  BY <1>2, <1>3 DEF Places
<1>8. \A i \in DOMAIN t2, j \in DOMAIN u : t2[i].what = "text" => t2[i].n < u[j]
  BY <1>2, <1>3 DEF Places
<1>9. \A i, k \in DOMAIN t2 : i < k /\ t2[i].what = "text" /\ t2[k].what = "text" => t2[i].n < t2[k].n
  BY <1>2, <1>3 DEF Places
<1>10. Places(c, m, u, t2)
  BY <1>2, <1>4, <1>5, <1>6, <1>7, <1>8, <1>9 DEF Places
<1> QED BY <1>10 DEF t2, e

\* Files go only with their chunk: what waits behind the first upload, or is recorded, keeps its own.
LEMMA FilesKept ==
  ASSUME NEW c, NEW m, NEW u, NEW t, NEW f, Places(c, m, u, t), HasFiles(c, u, f), u # <<>>
  PROVE  HasFiles(c, Tail(u), f \ {Head(u)}) /\ HasFiles(c, Tail(u), f)
<1>1. m \in Nat /\ u \in Seq(1..m) /\ Len(u) \in Nat \ {0} /\ DOMAIN u = 1..Len(u) /\ Head(u) = u[1]
      /\ \A j \in DOMAIN u : u[j] \in 1..m
  BY DEF Places
<1>2. \A j \in DOMAIN Tail(u) : j + 1 \in DOMAIN u /\ Tail(u)[j] = u[j + 1] /\ 1 < j + 1 /\ 1 \in DOMAIN u
  BY <1>1
<1>3. \A j \in DOMAIN Tail(u) : Tail(u)[j] \in f /\ Tail(u)[j] # u[1]
  <2> TAKE j \in DOMAIN Tail(u)
  <2>1. u[1] < u[j + 1] /\ u[j + 1] \in f  BY <1>2 DEF Places, HasFiles
  <2> QED BY <1>1, <1>2, <2>1
<1>4. c # 0 => c \in f /\ c # u[1]  BY <1>1, <1>2 DEF Places, HasFiles
<1> QED BY <1>1, <1>3, <1>4 DEF HasFiles

LEMMA CollectAccounts ==
  ASSUME NEW stopped \in BOOLEAN, NEW left \in Deleted(chunk), AccountInv, chunk # 0,
         Collect(stopped, left)
  PROVE  Places(0, chunks, chunkUploads', told') /\ HasFiles(0, chunkUploads', left)
<1>1. Places(chunk, chunks, chunkUploads, told) /\ HasFiles(chunk, chunkUploads, files)
  BY DEF AccountInv
<1>2. \A j \in DOMAIN chunkUploads : chunkUploads[j] \in left
  BY <1>1 DEF Deleted, Places, HasFiles
<1>3. ASSUME NEW what \in {"gap", "sliver"}, Tell(chunk, what), UNCHANGED chunkUploads
      PROVE Places(0, chunks, chunkUploads', told') /\ HasFiles(0, chunkUploads', left)
  BY <1>1, <1>2, <1>3, ChunkTold DEF Tell, HasFiles
<1>4. CASE chunkUploads' = Append(chunkUploads, chunk) /\ UNCHANGED told /\ left = files
  <2>1. Places(0, chunks, chunkUploads', told')  BY <1>1, <1>4, ChunkQueued
  <2>2. chunkUploads \in Seq(1..chunks) /\ chunk \in 1..chunks /\ chunk \in left
    BY <1>1, <1>4 DEF Places, HasFiles
  <2>3. \A j \in DOMAIN chunkUploads' : (j \in DOMAIN chunkUploads /\ chunkUploads'[j] = chunkUploads[j])
                                        \/ chunkUploads'[j] = chunk
    BY <1>4, <2>2
  <2> QED BY <1>2, <2>1, <2>2, <2>3 DEF HasFiles
<1> QED BY <1>3, <1>4 DEF Collect

LEMMA ChunkInitAccounts == ChunkInit => AccountInv
BY DEF ChunkInit, AccountInv, Turn, Places, HasFiles

\* What the switch does by itself: the chunked engine starts with nothing to upload.
LEMMA SwitchStep ==
  ASSUME AccountInv, StartRecording \/ StopRecording \/ PrimaryEnds \/ PrimaryFails
  PROVE  AccountInv'
<1>1. chunk' = chunk /\ chunks' = chunks /\ chunkUploads' = chunkUploads /\ told' = told /\ files' = files
  BY DEF StartRecording, StopRecording, PrimaryEnds, PrimaryFails, StartSecondary, engineState
<1>2. Places(chunk, chunks, chunkUploads, told)' /\ HasFiles(chunk, chunkUploads, files)'
  BY <1>1 DEF AccountInv
<1>s. ASSUME StartSecondary \/ UNCHANGED engineState PROVE chunkOps' \in Seq({"rotate", "shutdown", "fail"})
  <2>1. chunkOps' = <<>> \/ chunkOps' = chunkOps  BY <1>s DEF StartSecondary, engineState
  <2>2. chunkOps \in Seq({"rotate", "shutdown", "fail"}) /\ <<>> \in Seq({"rotate", "shutdown", "fail"})
    BY DEF AccountInv, Turn
  <2> QED BY <2>1, <2>2
<1>3. CASE StartRecording
  <2>1. chunkOps' \in Seq({"rotate", "shutdown", "fail"})  BY <1>3, <1>s DEF StartRecording
  <2>2. chunkState' = "starting" \/ chunkState' = chunkState
    BY <1>3 DEF StartRecording, StartSecondary, engineState
  <2>3. Turn'
    BY <1>1, <1>3, <2>1, <2>2 DEF AccountInv, Turn, StartRecording, StartSecondary, engineState
  <2> QED BY <1>2, <2>3 DEF AccountInv
<1>4. CASE StopRecording
  <2>1. chunkOps' \in Seq({"rotate", "shutdown", "fail"})  BY <1>4 DEF AccountInv, Turn, StopRecording
  <2> QED BY <1>1, <1>4, <2>1 DEF AccountInv, Turn, StopRecording
<1>5. CASE PrimaryEnds  BY <1>1, <1>5 DEF AccountInv, Turn, PrimaryEnds, FallbackEnded, engineState
<1>6. CASE PrimaryFails
  <2>1. chunkOps' \in Seq({"rotate", "shutdown", "fail"})  BY <1>6, <1>s DEF PrimaryFails
  <2>2. Turn'
    BY <1>1, <1>6, <2>1 DEF AccountInv, Turn, PrimaryFails, FallbackEnded, StartSecondary, engineState
  <2> QED BY <1>2, <2>2 DEF AccountInv
<1> QED BY <1>2, <1>3, <1>4, <1>5, <1>6 DEF AccountInv

\* The purge finds no upload waiting.
LEMMA RecorderOpensStep == ASSUME AccountInv, RecorderOpens PROVE AccountInv'
<1>1. chunk = 0 /\ chunks' = chunks + 1 /\ chunkUploads = <<>> /\ chunkUploads' = <<>>
  BY DEF RecorderOpens, Begun, AccountInv, Turn
<1>2. chunks \in Nat /\ chunks + 1 # 0  BY DEF AccountInv, Places
<1>3. Places(chunks + 1, chunks + 1, <<>>, told)  BY <1>1, ChunkBegun DEF AccountInv
<1>4. ASSUME NEW what \in {"sliver", "gap"}
      PROVE  Places(0, chunks + 1, <<>>, Append(told, [n |-> chunks + 1, what |-> what]))
  BY <1>2, <1>3, ChunkTold
<1>5. Places(chunks + 1, chunks + 1, <<>>, Append(told, [n |-> 0, what |-> "gap"]))
  BY <1>3, GapTold
<1>6. Places(chunk, chunks, chunkUploads, told)'
  BY <1>1, <1>3, <1>4, <1>5 DEF RecorderOpens, Begun, Tell
<1>7. HasFiles(chunk, chunkUploads, files)'
  BY <1>1 DEF RecorderOpens, Begun, HasFiles
<1>8. Turn'  BY <1>1, <1>2 DEF RecorderOpens, Begun, AccountInv, Turn
<1> QED BY <1>6, <1>7, <1>8 DEF AccountInv

LEMMA QuietSteps == ASSUME AccountInv, RecorderFails \/ ChunkFull \/ Settled PROVE AccountInv'
<1>1. Places(chunk, chunks, chunkUploads, told)'
  BY DEF AccountInv, RecorderFails, ChunkFull, Settled
<1>2. CASE RecorderFails
  <2>1. chunk = 0 /\ chunkUploads = <<>>  BY <1>2 DEF RecorderFails, AccountInv, Turn
  <2>2. HasFiles(chunk, chunkUploads, files)'  BY <1>2, <2>1 DEF RecorderFails, HasFiles
  <2> QED BY <1>1, <1>2, <2>2 DEF AccountInv, Turn, RecorderFails
<1>3. CASE ChunkFull  BY <1>1, <1>3 DEF AccountInv, Turn, ChunkFull, HasFiles
<1>4. CASE Settled  BY <1>1, <1>4 DEF AccountInv, Turn, Settled, Drained, FallbackEnded, HasFiles
<1> QED BY <1>2, <1>3, <1>4

LEMMA RunOpStep == ASSUME AccountInv, RunOp PROVE AccountInv'
<1>1. CASE chunkState # "recording"
  <2>1. Turn'  BY <1>1 DEF AccountInv, Turn, RunOp
  <2>2. Places(chunk, chunks, chunkUploads, told)' /\ HasFiles(chunk, chunkUploads, files)'
    BY <1>1 DEF AccountInv, RunOp
  <2> QED BY <2>1, <2>2 DEF AccountInv
<1>2. CASE chunkState = "recording"
  <2>1. chunk # 0 /\ chunks \in Nat /\ fallback' = fallback
         /\ chunkOps' \in Seq({"rotate", "shutdown", "fail"})
    BY <1>2 DEF AccountInv, Turn, Places, RunOp
  <2>2. CASE Rotate
    <3>1. PICK left \in Deleted(chunk) :
            /\ Collect(FALSE, left)
            /\ \/ Begun(left) /\ UNCHANGED chunkState
               \/ chunkState' = "stopping" /\ chunk' = 0 /\ files' = left /\ UNCHANGED chunks
      BY <2>2 DEF Rotate
    <3>2. Places(0, chunks, chunkUploads', told') /\ HasFiles(0, chunkUploads', left)
      BY <2>1, <3>1, CollectAccounts
    <3>3. Places(chunks + 1, chunks + 1, chunkUploads', told')  BY <3>2, ChunkBegun
    <3>4. Places(chunk, chunks, chunkUploads, told)' /\ HasFiles(chunk, chunkUploads, files)'
      BY <3>1, <3>2, <3>3 DEF Begun, HasFiles
    <3> QED BY <1>2, <2>1, <3>1, <3>4 DEF Begun, AccountInv, Turn
  <2>3. CASE ShutDownChunks
    <3>1. Places(0, chunks, chunkUploads', told') /\ HasFiles(0, chunkUploads', files')
      BY <2>1, <2>3, CollectAccounts DEF ShutDownChunks
    <3> QED BY <1>2, <2>1, <2>3, <3>1 DEF ShutDownChunks, AccountInv, Turn
  <2>4. CASE FailChunks
    <3>1. Places(0, chunks, chunkUploads, Append(told, [n |-> chunk, what |-> "withheld"]))
      BY <2>1, ChunkTold DEF AccountInv
    <3> QED BY <1>2, <2>1, <2>4, <3>1 DEF FailChunks, Tell, AccountInv, Turn, HasFiles
  <2>5. Head(chunkOps) \in {"rotate", "shutdown", "fail"}  BY DEF RunOp, AccountInv, Turn
  <2> QED BY <1>2, <2>2, <2>3, <2>4, <2>5 DEF RunOp
<1> QED BY <1>1, <1>2

LEMMA UploadStep == ASSUME AccountInv, UploadSettles PROVE AccountInv'
<1>1. PICK what \in {"text", "silence", "gap", "withheld"} : Tell(Head(chunkUploads), what)
  BY DEF UploadSettles
<1>2. chunkUploads # <<>> /\ chunkUploads' = Tail(chunkUploads)
      /\ files' \in {files, files \ {Head(chunkUploads)}}
      /\ UNCHANGED <<fallback, chunkState, chunk, chunks>>
  BY DEF UploadSettles, Deleted
<1>3. Places(chunk, chunks, chunkUploads', told')
  BY <1>1, <1>2, ChunkSettled DEF Tell, AccountInv
<1>4. HasFiles(chunk, chunkUploads', files')
  BY <1>2, FilesKept DEF AccountInv
<1>5. Turn'
  <2>1. chunkOps' \in Seq({"rotate", "shutdown", "fail"})  BY SMTT(60) DEF AccountInv, Turn, UploadSettles
  <2>2. chunkState' = chunkState /\ chunkState \notin {"idle", "starting"}  BY <1>2 DEF AccountInv, Turn
  <2> QED BY <1>2, <2>1, <2>2 DEF AccountInv, Turn
<1> QED BY <1>2, <1>3, <1>4, <1>5 DEF AccountInv

LEMMA AccountStep == AccountInv /\ [ChunkNext]_chunkVars => AccountInv'
<1> SUFFICES ASSUME AccountInv, [ChunkNext]_chunkVars PROVE AccountInv'  OBVIOUS
<1>1. CASE UNCHANGED chunkVars  BY <1>1 DEF chunkVars, AccountInv, Turn
<1> QED BY <1>1, SwitchStep, RecorderOpensStep, QuietSteps, RunOpStep, UploadStep DEF ChunkNext

(* For any number of chunks, recordings and uploads at once: every chunk   *)
(* is being recorded, waits for its upload with its file, or was dealt     *)
(* with exactly once, and nothing waits when the recording has ended       *)
(* (server-stt-engine.ts).                                                 *)
THEOREM EveryChunkAccountedCorrect == ChunkSpec => []EveryChunkAccounted
<1>1. AccountInv => EveryChunkAccounted
  <2> SUFFICES ASSUME AccountInv PROVE EveryChunkAccounted  OBVIOUS
  <2>1. ASSUME NEW n \in 1..chunks
        PROVE  \/ n = chunk /\ WaitingAt(n) = {} /\ Told(n) = {}
               \/ n # chunk /\ OnlyOne(WaitingAt(n)) /\ Told(n) = {}
               \/ n # chunk /\ WaitingAt(n) = {} /\ OnlyOne(Told(n))
    <3>0. Places(chunk, chunks, chunkUploads, told) /\ n # 0 /\ DOMAIN chunkUploads \subseteq Nat
          /\ \A j \in DOMAIN chunkUploads : chunkUploads[j] \in Nat
      <4>1. Places(chunk, chunks, chunkUploads, told) /\ chunkUploads \in Seq(1..chunks) /\ chunks \in Nat
        BY DEF AccountInv, Places
      <4>2. PICK S : S = 1..chunks  OBVIOUS
      <4>3. chunkUploads \in Seq(S) /\ S \subseteq Nat  BY <4>1, <4>2
      <4>4. DOMAIN chunkUploads = 1..Len(chunkUploads) /\ \A j \in DOMAIN chunkUploads : chunkUploads[j] \in S
        BY <4>3
      <4> QED BY <4>1, <4>3, <4>4
    <3>1. CASE n = chunk
      BY <3>0, <3>1 DEF Places, WaitingAt, Told
    <3>2. CASE \E j \in DOMAIN chunkUploads : chunkUploads[j] = n
      <4>1. PICK j \in DOMAIN chunkUploads : chunkUploads[j] = n  BY <3>2
      <4>2. \A k \in DOMAIN chunkUploads : chunkUploads[k] = n => k = j
        <5>1. \A i, k \in DOMAIN chunkUploads : i < k => chunkUploads[i] < chunkUploads[k]
          BY <3>0 DEF Places
        <5> QED BY <3>0, <4>1, <5>1
      <4>3. WaitingAt(n) = {j}  BY <4>1, <4>2 DEF WaitingAt
      <4>4. n # chunk /\ \A i \in DOMAIN told : told[i].n # n  BY <3>0, <4>1 DEF Places
      <4>5. Told(n) = {}  BY <4>4 DEF Told
      <4> QED BY <4>3, <4>4, <4>5 DEF OnlyOne
    <3>3. CASE \E i \in DOMAIN told : told[i].n = n
      <4>1. PICK i \in DOMAIN told : told[i].n = n  BY <3>3
      <4>2. \A k \in DOMAIN told : told[k].n = n => k = i  BY <3>0, <4>1 DEF Places
      <4>3. Told(n) = {i}  BY <4>1, <4>2 DEF Told
      <4>4. WaitingAt(n) = {} /\ n # chunk  BY <3>0, <4>1 DEF Places, WaitingAt
      <4> QED BY <4>3, <4>4 DEF OnlyOne
    <3> QED BY <3>0, <3>1, <3>2, <3>3 DEF Places
  <2>2. fallback.st = "idle" => chunk = 0 /\ chunkUploads = <<>>  BY DEF AccountInv, Turn
  <2>3. \A i, j \in DOMAIN told :
          (i < j /\ told[i].what = "text" /\ told[j].what = "text") => told[i].n < told[j].n
    BY DEF AccountInv, Places
  <2>4. \A i \in DOMAIN chunkUploads : chunkUploads[i] \in files  BY DEF AccountInv, HasFiles
  <2> QED BY <2>1, <2>2, <2>3, <2>4 DEF EveryChunkAccounted
<1> QED BY <1>1, ChunkInitAccounts, AccountStep, PTL DEF ChunkSpec

==============================================================================

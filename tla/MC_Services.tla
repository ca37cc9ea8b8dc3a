----------------------------- MODULE MC_Services -----------------------------
(***************************************************************************)
(* Speech, recording, accounts and Gemini on small instances.  The eleven  *)
(* modules share no variable, so interleaving them shows nothing: a        *)
(* behaviour picks one part and the others stay where they are.            *)
(***************************************************************************)
EXTENDS LiveStream, StreamSlots, GeminiCalls, Sessions, Accounts, Answers,
        Recognition, StreamEngine, ChunkEngine, RecordingControl,
        PushTokens, TLC

VARIABLE part

MCOwnerOf == [s \in Sockets |-> 1]

Init ==
  /\ LiveInit /\ SlotsInit /\ CallsInit /\ SessionsInit /\ AccountsInit /\ AnswersInit
  /\ RecognitionInit /\ StreamInit /\ ChunkInit /\ ControlInit /\ PushInit
  /\ part \in {"live", "slots", "calls", "sessions", "accounts", "answers",
               "recognition", "stream", "chunks", "control", "push"}
  /\ part # "recognition" => recogMode = "server"

serverVars == <<liveVars, slotVars, callVars>>
userVars == <<sessionVars, accountVars, answerVars, pushVars>>
phoneVars == <<recogVars, streamVars, chunkVars, controlVars>>

Next ==
  /\ UNCHANGED part
  /\ \/ /\ UNCHANGED <<userVars, phoneVars>>
        /\ \/ part = "live" /\ LiveNext /\ UNCHANGED <<slotVars, callVars>>
           \/ part = "slots" /\ SlotsNext /\ UNCHANGED <<liveVars, callVars>>
           \/ part = "calls" /\ CallsNext /\ UNCHANGED <<liveVars, slotVars>>
     \/ /\ UNCHANGED <<serverVars, phoneVars>>
        /\ \/ part = "sessions" /\ SessionsNext /\ UNCHANGED <<accountVars, answerVars, pushVars>>
           \/ part = "accounts" /\ AccountsNext /\ UNCHANGED <<sessionVars, answerVars, pushVars>>
           \/ part = "answers" /\ AnswersNext /\ UNCHANGED <<sessionVars, accountVars, pushVars>>
           \/ part = "push" /\ PushNext /\ UNCHANGED <<sessionVars, accountVars, answerVars>>
     \/ /\ UNCHANGED <<serverVars, userVars>>
        /\ \/ part = "recognition" /\ RecognitionNext /\ UNCHANGED <<streamVars, chunkVars, controlVars>>
           \/ part = "stream" /\ StreamNext /\ UNCHANGED <<recogVars, chunkVars, controlVars>>
           \/ part = "chunks" /\ ChunkNext /\ UNCHANGED <<recogVars, streamVars, controlVars>>
           \/ part = "control" /\ ControlNext /\ UNCHANGED <<recogVars, streamVars, chunkVars>>

Spec == Init /\ [][Next]_<<part, serverVars, userVars, phoneVars>>
=============================================================================

---------------------------- MODULE MC_Knowledge ----------------------------
(***************************************************************************)
(* What is derived from transcripts, on small instances: the freshness of  *)
(* one meeting's chunks and summary, the cutting into chunks, the user's   *)
(* graph, the translations, and the screen that follows the work.  The     *)
(* five share no variable, so interleaving them shows nothing: a behaviour *)
(* picks one part and the others stay where they are.                      *)
(***************************************************************************)
EXTENDS TranscriptFreshness, Chunker, EntityGraph, Translations, MeetingRoom, TLC

VARIABLE part

MCChunks == {1, 2}
MCExtraction ==
  [c \in MCChunks |-> IF c = 1 THEN [names |-> {1, 2, 3}, relations |-> {<<1, 2>>, <<2, 3>>}]
                               ELSE [names |-> {2}, relations |-> {}]]

ChunkerParked ==
  /\ lines = [k \in Lines |-> [tokens |-> 1, pause |-> 0]]
  /\ uploaded = 1 /\ cuts = <<>> /\ chunked = 0 /\ fullCut = FALSE

Init ==
  /\ FreshInit /\ GraphInit /\ TransInit /\ RoomInit
  /\ \/ part \in {"freshness", "graph", "translations", "room"} /\ ChunkerParked
     \/ part = "chunker" /\ ChunkerInit

Next ==
  /\ UNCHANGED part
  /\ \/ /\ UNCHANGED <<transVars, roomVars>>
        /\ \/ part = "freshness" /\ FreshNext /\ UNCHANGED <<chunkerVars, graphVars>>
           \/ part = "chunker" /\ ChunkerNext /\ UNCHANGED <<freshVars, graphVars>>
           \/ part = "graph" /\ GraphNext /\ UNCHANGED <<freshVars, chunkerVars>>
     \/ /\ UNCHANGED <<freshVars, chunkerVars, graphVars>>
        /\ \/ part = "translations" /\ TransNext /\ UNCHANGED roomVars
           \/ part = "room" /\ RoomNext /\ UNCHANGED transVars

Spec == Init /\ [][Next]_<<part, freshVars, chunkerVars, graphVars, transVars, roomVars>>
=============================================================================

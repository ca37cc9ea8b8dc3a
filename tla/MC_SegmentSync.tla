---------------------------- MODULE MC_SegmentSync ----------------------------
(* Finite instances of SegmentSync. *)
EXTENDS SegmentSync
=============================================================================

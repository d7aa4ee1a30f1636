----------------------------- MODULE MuseHeapMC -----------------------------
(* Small instances of MuseHeap for TLC. *)
EXTENDS MuseHeap, TLC
=============================================================================

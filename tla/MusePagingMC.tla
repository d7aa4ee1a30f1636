---------------------------- MODULE MusePagingMC ----------------------------
(* Small instances of MusePaging for TLC. *)
EXTENDS MusePaging, TLC
TwoPrograms == 1..2
TwoPages == [f \in Files |-> 2]
Frames2 == 0..1
=============================================================================

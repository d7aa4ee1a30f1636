-------------------------------- MODULE SacMC --------------------------------
(* Small instances of Sac for TLC. *)
EXTENDS Sac, TLC
TwoFiles == {<<"d">>, <<"d", "a">>}
OneDir == {<<"d">>}
TwoDirs == {<<"d">>, <<"e">>}
Nodes2 == 0..2
Blocks5 == 1..5
SmallWrites == {<<1, 0>>, <<3, 0>>, <<2, 1>>, <<1, 10>>}
=============================================================================

---------------------------- MODULE MCBoardDemos ----------------------------
(***************************************************************************)
(* Instance of BoardDemos: a few taps, one rotation, two keys; two input   *)
(* pins, one output pin; two commands of client.cpp, the second with a     *)
(* token the user of HelloActivity also types.                             *)
(***************************************************************************)
EXTENDS BoardDemos

TwoCommands == <<"token0", "token1">>
=============================================================================

----------------------------- MODULE MCLcdDemo -----------------------------
(***************************************************************************)
(* Small instances of LcdDemo: four Timers (two presses of mButton2, or    *)
(* one and two of mButton1), a 5000 ms delay scaled down to 3 query        *)
(* delays, and a brightness scale of 5 in steps of 2, so that both ends    *)
(* cut a step short.                                                       *)
(***************************************************************************)
EXTENDS LcdDemo

=============================================================================

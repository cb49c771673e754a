---------------------------- MODULE MCGetCommands ----------------------------
(***************************************************************************)
(* GetCommands on every optimisation of up to four hours, with a free, a   *)
(* cheap and a dear hour and one the supplier pays for, and levels below,  *)
(* at and above the minimum.                                               *)
(***************************************************************************)
EXTENDS GetCommands

MCCosts  == {-1, 0, 1, 2}
MCLevels == {5, 10, 50, 80}
=============================================================================

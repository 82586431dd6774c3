-------------------------------- MODULE MCBatch --------------------------------
(* Pages of five units and an overrun of six: messages that share a page,   *)
(* messages that fill one, and one that is longer than any.                 *)
EXTENDS Batch, TLC

CONSTANTS m1, m2, m3, m4, m5

MCMsgs == {m1, m2, m3, m4, m5}
MCSize == m1 :> 1 @@ m2 :> 2 @@ m3 :> 3 @@ m4 :> 5 @@ m5 :> 6
===============================================================================

---------------------------- MODULE MCBatchProbe ----------------------------
(* Six sequence numbers: those at which the numbers of the three messages  *)
(* wrap around, and others.                                                *)
EXTENDS BatchProbe
=============================================================================

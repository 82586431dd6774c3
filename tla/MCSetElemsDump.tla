---------------------------- MODULE MCSetElemsDump ----------------------------
(* SetElemsDump with a nest of 10 units, two of them its header, and lengths   *)
(* that wrap at 11.  Some of the elements fit together in a message, some do   *)
(* not, one is a unit too long for any message, and one wraps to a length of 3 *)
(* and passes for a short one.                                                 *)
EXTENDS SetElemsDump, TLC

CONSTANTS e1, e2, e3, e4, e5, e6, e7

MCElems == {e1, e2, e3, e4, e5, e6, e7}
MCSize == e1 :> 2 @@ e2 :> 3 @@ e3 :> 5 @@ e4 :> 6 @@ e5 :> 8 @@ e6 :> 9 @@ e7 :> 14
===============================================================================

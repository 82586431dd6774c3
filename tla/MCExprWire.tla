----------------------------- MODULE MCExprWire -----------------------------
(* Every type of expression, with every three of its attributes.           *)
EXTENDS ExprWire
=============================================================================

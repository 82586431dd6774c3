--------------------------- MODULE MCObjectMemory ---------------------------
(* Every kind of object, with every pair of its attributes in use.         *)
EXTENDS ObjectMemory
=============================================================================

------------------------------ MODULE MCChainList ------------------------------
(* ChainList with three names of which two share a bucket.                  *)
EXTENDS ChainList, TLC

CONSTANTS n1, n2, n3, b1, b2

MCNames == {n1, n2, n3}
MCBuckets == {b1, b2}
MCHash == n1 :> b1 @@ n2 :> b1 @@ n3 :> b2

Interchangeable == Permutations(Chains)
===============================================================================

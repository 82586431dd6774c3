----------------------------- MODULE MCChainRules -----------------------------
(* ChainRules on a small heap: chains are interchangeable, so are rules and walks. *)
EXTENDS ChainRules, TLC

Interchangeable ==
    Permutations(Chains) \cup Permutations(Rules) \cup Permutations(Walkers)
===============================================================================

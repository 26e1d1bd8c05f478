---------------------------- MODULE MCCacheStore ----------------------------
(* Instance of CacheStore for TLC: keys are interchangeable. *)
EXTENDS CacheStore, TLC

KeySymmetry == Permutations(Keys)
=============================================================================

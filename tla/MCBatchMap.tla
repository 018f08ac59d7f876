----------------------------- MODULE MCBatchMap -----------------------------
(***************************************************************************)
(* TLC instances of BatchMap.  The keys are the integers of an interval,   *)
(* so that ranges and split keys can fall between, on and outside of them. *)
(***************************************************************************)
EXTENDS BatchMap, TLC

CONSTANTS v1, v2

FourKeys == 1..4
FiveKeys == 1..5
ValueSymmetry == Permutations(Value)
=============================================================================

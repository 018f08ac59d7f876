------------------------------- MODULE MCEpoch -------------------------------
(***************************************************************************)
(* TLC instances of Epoch: three threads that contend for the epoch with   *)
(* one item to retire, and two threads that each can fill several bags.    *)
(***************************************************************************)
EXTENDS EpochInv, TLC

CONSTANTS t1, t2, t3, a, b, c

EpochSymmetry == Permutations(Thread) \cup Permutations(Item)
=============================================================================

------------------------------ MODULE Reclaimer ------------------------------
(***************************************************************************)
(* What an epoch-based reclaimer promises its clients, without epochs.     *)
(*                                                                         *)
(* A thread announces before it reads shared nodes and unannounces when it *)
(* is done.  An item that is retired waits for every thread announced at   *)
(* that moment; it is reclaimed, at some time of the reclaimer's choosing  *)
(* or never, only when all of them have unannounced.                       *)
(*                                                                         *)
(* Epoch implements this contract (main.support.Epoch), and VersionedCas   *)
(* relies on nothing else about it, but takes Announce for a part of the   *)
(* call: the thread goes on only when its announcement counts.             *)
(***************************************************************************)
EXTENDS Naturals

CONSTANTS Thread, Item

VARIABLES announced,   \* the threads inside an announced section
          waiting,     \* per item, the threads it still waits for
          stage        \* per item: live, retired or reclaimed

reclaimerVars == <<announced, waiting, stage>>

TypeOK == /\ announced \in SUBSET Thread
          /\ waiting \in [Item -> SUBSET Thread]
          /\ stage \in [Item -> {"live", "retired", "reclaimed"}]

Init == /\ announced = {}
        /\ waiting = [i \in Item |-> {}]
        /\ stage = [i \in Item |-> "live"]

Announce(t) == /\ t \notin announced
               /\ announced' = announced \cup {t}
               /\ UNCHANGED <<waiting, stage>>

Unannounce(t) == /\ t \in announced
                 /\ announced' = announced \ {t}
                 /\ waiting' = [i \in Item |-> waiting[i] \ {t}]
                 /\ UNCHANGED stage

Retire(i) == /\ stage[i] = "live"
             /\ stage' = [stage EXCEPT ![i] = "retired"]
             /\ waiting' = [waiting EXCEPT ![i] = announced]
             /\ UNCHANGED announced

Reclaim(i) == /\ stage[i] = "retired"
              /\ waiting[i] = {}
              /\ stage' = [stage EXCEPT ![i] = "reclaimed"]
              /\ UNCHANGED <<announced, waiting>>

Next == \/ \E t \in Thread : Announce(t) \/ Unannounce(t)
        \/ \E i \in Item : Retire(i) \/ Reclaim(i)

Spec == Init /\ [][Next]_reclaimerVars
=============================================================================

---------------------------- MODULE CameraHistory ----------------------------
(***************************************************************************)
(* The camera on its own, driven by threads that take snapshots over and   *)
(* over, with one history variable: `floor[t]` is the largest timestamp    *)
(* that had been returned by any takeSnapshot when thread t's current call *)
(* began.  It serves only to state the real-time order of snapshots.       *)
(***************************************************************************)
EXTENDS Camera

VARIABLES floor,     \* per thread: largest result returned before its call began
          returned   \* largest result returned so far, -1 if none

historyVars == <<floor, returned>>
vars == <<cameraVars, historyVars>>

Init == /\ CameraInit
        /\ floor = [t \in Thread |-> -1]
        /\ returned = -1

Begin(t) == /\ timestamp < MaxTimestamp
            /\ ReadTimestamp(t)
            /\ floor' = [floor EXCEPT ![t] = returned]
            /\ UNCHANGED returned

Step(t) == /\ TakeSnapshotStep(t)
           /\ UNCHANGED historyVars

Return(t) == /\ ReturnSnapshot(t)
             /\ returned' = IF camTs[t] > returned THEN camTs[t] ELSE returned
             /\ UNCHANGED floor

Next == \E t \in Thread : Begin(t) \/ Step(t) \/ Return(t)

\* takeSnapshot is straight-line code: a thread that keeps running finishes it.
Fairness == \A t \in Thread : WF_vars(Step(t))

Spec == Init /\ [][Next]_vars /\ Fairness
-----------------------------------------------------------------------------
HistoryTypeOK ==
    /\ CameraTypeOK
    /\ floor \in [Thread -> Int]
    /\ returned \in Int

\* takeSnapshot respects real time: a call that begins after another one has
\* returned obtains a strictly larger timestamp, although calls that overlap
\* may share one (Camera.takeSnapshot does not always increment).
RealTimeOrder ==
    \A t \in Thread : camPc[t] # "idle" => camTs[t] > floor[t]

\* takeSnapshot has no way back: a thread that looks at the clock again goes
\* on to its return, whether it finds the clock moved, wins or loses its CAS.
TakeSnapshotReturns ==
    \A t \in Thread : camPc[t] = "recheck" ~> camPc[t] = "taken"
=============================================================================

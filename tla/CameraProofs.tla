----------------------------- MODULE CameraProofs -----------------------------
(***************************************************************************)
(* Proofs about the camera, for every set of threads and every bound.      *)
(***************************************************************************)
EXTENDS CameraHistory, CameraLemmas

HistoryInv ==
    /\ floor \in [Thread -> Int]
    /\ returned \in Int
    /\ returned < timestamp
    /\ \A t \in Thread : camPc[t] # "idle" => camTs[t] > floor[t]

CameraIInv == CameraTypeOK /\ CameraInv /\ HistoryInv

LEMMA CameraInductive == Spec => []CameraIInv
<1>1. Init => CameraIInv
  BY CameraAssumption
  DEF Init, CameraInit, CameraIInv, CameraTypeOK, CameraInv, HistoryInv
<1>2. CameraIInv /\ [Next]_vars => CameraIInv'
  <2> SUFFICES ASSUME CameraIInv, [Next]_vars PROVE CameraIInv'
    OBVIOUS
  <2> USE DEF CameraIInv
  <2>1. CASE UNCHANGED vars
    BY <2>1 DEF vars, cameraVars, historyVars, CameraTypeOK, CameraInv, HistoryInv
  <2>2. ASSUME NEW t \in Thread, Begin(t) \/ Step(t) \/ Return(t)
        PROVE  CameraIInv'
    <3>1. CameraTypeOK'
      BY <2>2, CameraTypeStep DEF Begin, Step, Return
    <3>2. CameraInv'
      BY <2>2, CameraInvStep DEF Begin, Step, Return
    <3>3. HistoryInv'
      <4> USE DEF CameraTypeOK, CameraInv, HistoryInv
      <4>1. CASE Begin(t)
        BY <4>1 DEF Begin, ReadTimestamp
      <4>2. CASE Step(t)
        BY <4>2 DEF Step, TakeSnapshotStep, Recheck, CasTimestamp, historyVars
      <4>3. CASE Return(t)
        BY <4>3 DEF Return, ReturnSnapshot
      <4> QED BY <2>2, <4>1, <4>2, <4>3
    <3> QED BY <3>1, <3>2, <3>3
  <2> QED BY <2>1, <2>2 DEF Next
<1> QED BY <1>1, <1>2, PTL DEF Spec

\* Every variable of takeSnapshot keeps its type; in particular the backoff
\* amount stays between 1 and its cap.
THEOREM CameraTypeCorrect == Spec => []HistoryTypeOK
<1>1. CameraIInv => HistoryTypeOK
  BY DEF CameraIInv, HistoryTypeOK, HistoryInv
<1> QED BY <1>1, CameraInductive, PTL

\* A returned snapshot is strictly below the counter, for any number of
\* threads that share, beat or lose one another's CAS.
THEOREM SnapshotsBelowClock == Spec => []SnapshotBelowClock
<1>1. CameraIInv => SnapshotBelowClock
  BY DEF CameraIInv, CameraInv, SnapshotBelowClock
<1> QED BY <1>1, CameraInductive, PTL

\* Snapshots that do not overlap are strictly ordered by their timestamps.
THEOREM SnapshotsRespectRealTime == Spec => []RealTimeOrder
<1>1. CameraIInv => RealTimeOrder
  BY DEF CameraIInv, HistoryInv, RealTimeOrder
<1> QED BY <1>1, CameraInductive, PTL
=============================================================================

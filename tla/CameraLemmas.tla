----------------------------- MODULE CameraLemmas -----------------------------
(***************************************************************************)
(* What each step of takeSnapshot preserves, for use wherever the camera   *)
(* is part of a larger system.                                             *)
(***************************************************************************)
EXTENDS Camera, TLAPS

\* Clamp keeps the thread-local backoff amount within 1..MaxBackoff, whatever
\* halving or doubling handed it (Camera.java, the two ifs before the set).
LEMMA ClampRange ==
    ASSUME NEW ba \in Int
    PROVE  Clamp(ba) \in 1..MaxBackoff
  BY CameraAssumption DEF Clamp

LEMMA CameraTypeStep ==
    ASSUME CameraTypeOK, NEW t \in Thread,
           ReadTimestamp(t) \/ TakeSnapshotStep(t) \/ ReturnSnapshot(t)
    PROVE  CameraTypeOK'
<1> USE DEF CameraTypeOK
<1>1. CASE ReadTimestamp(t)
  BY <1>1 DEF ReadTimestamp
<1>2. CASE Recheck(t)
  BY <1>2 DEF Recheck
<1>3. CASE CasTimestamp(t)
  <2>1. backoffAmount[t] \div 2 \in Int /\ backoffAmount[t] * 2 \in Int
    BY CameraAssumption
  <2>2. /\ Clamp(backoffAmount[t] \div 2) \in 1..MaxBackoff
        /\ Clamp(backoffAmount[t] * 2) \in 1..MaxBackoff
    BY <2>1, ClampRange
  <2> QED BY <1>3, <2>2 DEF CasTimestamp
<1>4. CASE ReturnSnapshot(t)
  BY <1>4 DEF ReturnSnapshot
<1> QED BY <1>1, <1>2, <1>3, <1>4 DEF TakeSnapshotStep

\* One step of one thread's takeSnapshot keeps every thread's snapshot below
\* the counter: the counter never goes back, and a thread whose CAS fails saw
\* the counter move.
LEMMA CameraInvStep ==
    ASSUME CameraTypeOK, CameraInv, NEW t \in Thread,
           ReadTimestamp(t) \/ TakeSnapshotStep(t) \/ ReturnSnapshot(t)
    PROVE  CameraInv'
<1> USE DEF CameraTypeOK, CameraInv
<1>1. CASE ReadTimestamp(t)
  BY <1>1 DEF ReadTimestamp
<1>2. CASE Recheck(t)
  BY <1>2 DEF Recheck
<1>3. CASE CasTimestamp(t)
  BY <1>3 DEF CasTimestamp
<1>4. CASE ReturnSnapshot(t)
  BY <1>4 DEF ReturnSnapshot
<1> QED BY <1>1, <1>2, <1>3, <1>4 DEF TakeSnapshotStep
=============================================================================

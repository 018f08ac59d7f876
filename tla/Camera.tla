------------------------------- MODULE Camera -------------------------------
(***************************************************************************)
(* The camera object of vcaslib: one shared counter, `timestamp`, that     *)
(* orders updates and snapshots.  Updates read it (getTimestamp) to stamp  *)
(* the versions they install; a scan calls takeSnapshot to choose the      *)
(* timestamp at which it reads and to push the counter past it.            *)
(*                                                                         *)
(* takeSnapshot does not increment blindly: it reads the counter, backs    *)
(* off, re-reads it and only then tries one CAS, so that several scans may *)
(* share one timestamp.  Each of its three shared-memory accesses is an    *)
(* action.  The busy loop of `backoff` has no effect on shared state and   *)
(* is only the gap between ReadTimestamp and Recheck.                      *)
(***************************************************************************)
EXTENDS Integers

CONSTANTS Thread,        \* the threads that take snapshots
          MaxBackoff,    \* 512 in the code
          MaxTimestamp   \* bound: no call begins once the counter is there

ASSUME CameraAssumption == /\ MaxBackoff \in Nat \ {0}
                           /\ MaxTimestamp \in Nat

VARIABLES timestamp,     \* Camera.timestamp
          camPc,         \* where each thread is in takeSnapshot
          camTs,         \* takeSnapshot's local ts, then its result
          backoffAmount  \* the thread-local backoff amount

cameraVars == <<timestamp, camPc, camTs, backoffAmount>>

CameraTypeOK ==
    /\ timestamp \in Nat
    /\ camPc \in [Thread -> {"idle", "recheck", "cas", "taken"}]
    /\ camTs \in [Thread -> Nat]
    /\ backoffAmount \in [Thread -> 1..MaxBackoff]

CameraInit ==
    /\ timestamp = 0
    /\ camPc = [t \in Thread |-> "idle"]
    /\ camTs = [t \in Thread |-> 0]
    /\ backoffAmount = [t \in Thread |-> 1]
-----------------------------------------------------------------------------
\* Fault: the lower limit of the backoff is forgotten (`if (ba < 1)`).
ClampNoFloor(ba) == IF ba > MaxBackoff THEN MaxBackoff ELSE ba

\* if (ba < 1) ba = 1; if (ba > 512) ba = 512
Clamp(ba) == IF ba < 1 THEN 1 ELSE IF ba > MaxBackoff THEN MaxBackoff ELSE ba

\* long ts = camera.timestamp
ReadTimestamp(t) ==
    /\ camPc[t] = "idle"
    /\ camTs' = [camTs EXCEPT ![t] = timestamp]
    /\ camPc' = [camPc EXCEPT ![t] = "recheck"]
    /\ UNCHANGED <<timestamp, backoffAmount>>

\* Fault: a thread that finds the counter unmoved returns without moving it.
RecheckWithoutCas(t) ==
    /\ camPc[t] = "recheck"
    /\ camPc' = [camPc EXCEPT ![t] = "taken"]
    /\ UNCHANGED <<timestamp, camTs, backoffAmount>>

\* if (ts == camera.timestamp): another scan may have moved the counter
Recheck(t) ==
    /\ camPc[t] = "recheck"
    /\ camPc' = [camPc EXCEPT ![t] = IF camTs[t] = timestamp THEN "cas" ELSE "taken"]
    /\ UNCHANGED <<timestamp, camTs, backoffAmount>>

\* Fault: a plain write instead of a compare-and-set.
WriteTimestamp(t) ==
    /\ camPc[t] = "cas"
    /\ camPc' = [camPc EXCEPT ![t] = "taken"]
    /\ timestamp' = camTs[t] + 1
    /\ UNCHANGED <<camTs, backoffAmount>>

\* Fault: the CAS is retried with the stale timestamp until it succeeds.
CasUntilSuccess(t) ==
    /\ camPc[t] = "cas"
    /\ camTs[t] = timestamp
    /\ timestamp' = timestamp + 1
    /\ camPc' = [camPc EXCEPT ![t] = "taken"]
    /\ UNCHANGED <<camTs, backoffAmount>>

\* timestampUpdater.compareAndSet(camera, ts, ts+1); both outcomes return ts
CasTimestamp(t) ==
    /\ camPc[t] = "cas"
    /\ camPc' = [camPc EXCEPT ![t] = "taken"]
    /\ \/ /\ camTs[t] = timestamp
          /\ timestamp' = timestamp + 1
          /\ backoffAmount' = [backoffAmount EXCEPT ![t] = Clamp(@ \div 2)]
       \/ /\ camTs[t] # timestamp
          /\ backoffAmount' = [backoffAmount EXCEPT ![t] = Clamp(@ * 2)]
          /\ UNCHANGED timestamp
    /\ UNCHANGED camTs

\* return ts: the caller uses the result, then forgets it
ReturnSnapshot(t) ==
    /\ camPc[t] = "taken"
    /\ camPc' = [camPc EXCEPT ![t] = "idle"]
    /\ camTs' = [camTs EXCEPT ![t] = 0]
    /\ UNCHANGED <<timestamp, backoffAmount>>

TakeSnapshotStep(t) == Recheck(t) \/ CasTimestamp(t)
-----------------------------------------------------------------------------
\* A snapshot that was returned lies strictly in the past of the counter, so
\* every version stamped from now on is invisible to it.
SnapshotBelowClock ==
    \A t \in Thread : camPc[t] = "taken" => camTs[t] < timestamp

\* The inductive form: a thread that has read the counter holds a value that
\* the counter once had, and only a thread that is still to try its CAS may
\* hold the current value.
CameraInv ==
    \A t \in Thread :
        /\ camPc[t] # "idle" => camTs[t] <= timestamp
        /\ camPc[t] = "taken" => camTs[t] < timestamp
=============================================================================

----------------------------- MODULE ScanReclaim -----------------------------
(***************************************************************************)
(* Range scans, versioned pointers and the epoch reclaimer put together as *)
(* VcasBatchBSTMapGC does: the pointers take every step of VersionedCas,   *)
(* and where those use the Reclaimer contract this module calls Epoch.     *)
(*                                                                         *)
(* The difference that matters is the scan's announcement.  VersionedCas   *)
(* announces at once; epoch.announce stores into a plain array, and a scan *)
(* may go on to take its snapshot and to read pointers while that store is *)
(* still in its buffer.  A CAS or a volatile write drains it.              *)
(***************************************************************************)
EXTENDS VersionedCas, Sequences

CONSTANTS AnnouncesBeforeCollect, BufferSize, MaxEpoch

VARIABLES epochNum, announce, buffer, prevRetireEpoch, announceCount,
          retiredNodes, epochPc, curEpoch, unchecked, item, retiredAt, seenAt,
          covered   \* history: was t's announcement visible when it read the clock

E == INSTANCE Epoch WITH Item <- Node, NoItem <- Null

epochOnlyVars == <<epochNum, announce, buffer, prevRetireEpoch, announceCount,
                   retiredNodes, epochPc, curEpoch, unchecked, item, retiredAt, seenAt>>
pointerVars == <<cameraVars, listVars, infoVars, localVars>>
allVars == <<vars, epochOnlyVars, covered>>

AllTypeOK == TypeOK /\ E!TypeOK /\ covered \in [Thread -> BOOLEAN]

AllInit == Init /\ E!Init /\ covered = [t \in Thread |-> FALSE]

\* A thread is in its own code, not in a call of the reclaimer.
Outside(t) == epochPc[t] \in {"idle", "announced"}

\* t's next step is a CAS or a volatile write, either of which drains its buffer.
Fenced(t) == \/ pc[t] \in {"initTSCas", "spliceWrite", "swap", "dedupWrite"}
             \/ pc[t] = "compare" /\ node[t] = oldV[t]
             \/ camPc[t] = "cas"
-----------------------------------------------------------------------------
\* The steps of VersionedCas that do not call the reclaimer.
PointerStep(t) ==
    /\ Outside(t) /\ (pc[t] = "idle" => epochPc[t] = "idle")
    /\ Fenced(t) => buffer[t] = <<>>
    /\ \/ InitTSStep(t) \/ Walk(t) \/ WalkEnds(t) \/ Return(t)
       \/ ReadHead(t) \/ SpliceRead(t) \/ SpliceReadNext(t) \/ SpliceWrite(t)
       \/ RejectStale(t) \/ Link(t) \/ Swap(t) \/ SwapFails(t) \/ RereadHead(t)
       \/ DedupRead(t) \/ DedupWrite(t) \/ RetireTest(t) \/ HelperStep(t)
       \/ \E o \in Obj : Get(t, o) \/ ScanReadHead(t, o)
       \/ \E n \in Node : Propose(t, n)
    /\ UNCHANGED <<epochOnlyVars, covered>>

\* Camera.takeSnapshot()
SnapshotStep(t) ==
    /\ Outside(t) /\ (Fenced(t) => buffer[t] = <<>>)
    /\ ScanTakesSnapshot(t)
    /\ covered' = [covered EXCEPT ![t] = IF camPc[t] = "idle" THEN t \in announced ELSE @]
    /\ UNCHANGED epochOnlyVars

\* epoch.announce(): the call and, when it has returned, the scan proper
ScanAnnounces(t) ==
    /\ t \in Scanner /\ pc[t] = "idle" /\ timestamp < MaxTimestamp
    /\ E!AnnounceRead(t)
    /\ UNCHANGED <<pointerVars, covered>>

ScanBegins(t) ==
    /\ pc[t] = "idle" /\ epochPc[t] = "announced"
    /\ Goto(t, "scan")
    /\ UNCHANGED <<cameraVars, listVars, infoVars, reclaimerVars, ret, obj, oldV, newV,
                   node, headNext, curTS, view, epochOnlyVars, covered>>

\* epoch.unannounce(): the scan has read all it needs
ScanUnannounces(t) ==
    /\ pc[t] = "scan" /\ ReturnSnapshot(t)
    /\ \A o \in Obj : view[t][o] # Unread
    /\ E!UnannounceStore(t)
    /\ view' = [view EXCEPT ![t] = [o \in Obj |-> Unread]]
    /\ Goto(t, "idle")
    /\ covered' = [covered EXCEPT ![t] = FALSE]
    /\ UNCHANGED <<listVars, infoVars, ret, obj, oldV, newV, node, headNext, curTS>>

\* epoch.retire(newV)
RetireCalled(t) ==
    /\ pc[t] = "retireCall"
    /\ E!RetireRead(t, newV[t])
    /\ Goto(t, "return")
    /\ UNCHANGED <<cameraVars, listVars, infoVars, ret, obj, oldV, newV,
                   node, headNext, curTS, view, covered>>

EpochStep(t) ==
    /\ E!Flush(t) \/ E!AnnounceStore(t) \/ E!TryAdvance(t) \/ E!AddToBag(t)
    /\ UNCHANGED <<pointerVars, covered>>

\* Node.reclaim(), from within another node's retire
ReclaimStep(t, n) ==
    /\ buffer[t] = <<>>
    /\ E!ReclaimItem(t, n)
    /\ nextv' = [nextv EXCEPT ![n] = Null]
    /\ UNCHANGED <<cameraVars, child, ts, ver, born, infoVars, localVars, covered>>

AllNext == \E t \in Thread :
    \/ PointerStep(t) \/ SnapshotStep(t)
    \/ ScanAnnounces(t) \/ ScanBegins(t) \/ ScanUnannounces(t)
    \/ RetireCalled(t) \/ EpochStep(t)
    \/ \E n \in Node : ReclaimStep(t, n)

AllSpec == AllInit /\ [][AllNext]_allVars
-----------------------------------------------------------------------------
\* A scan whose announcement is visible when it reads the camera reads one
\* past state of all pointers, while the reclaimer cuts version lists.
CoveredSnapshotView ==
    \A t \in Thread, o \in Obj :
        covered[t] /\ view[t][o] # Unread => VersionAt(view[t][o], o, camTs[t])
=============================================================================

---------------------------- MODULE VersionedCas ----------------------------
(***************************************************************************)
(* Versioned child pointers of VcasBatchBSTMapGC, read and updated by many *)
(* threads while others take snapshots of several of them.                 *)
(*                                                                         *)
(* A child pointer (InternalNode.left or .right, here an Obj) holds the    *)
(* newest version.  A version is a Node; its field nextv leads to older    *)
(* versions and its field ts, TBD until somebody stamps it, says since     *)
(* when it is current.  compareAndSet installs a version first and stamps  *)
(* it afterwards, so every operation that meets an unstamped head stamps   *)
(* it (initTS) before using it.  A scan takes a timestamp from the camera  *)
(* and reads, from each pointer, the newest version not younger than that. *)
(*                                                                         *)
(* Every access to a shared field is an action.  Reads of a field that can *)
(* no longer change (the ts of a stamped node) are part of the action that *)
(* uses them.  A replacement is proposed once, in an Info record; the one  *)
(* who proposes it and any thread that helps look for oldV under the left  *)
(* pointer of the node and run compareAndSet(oldV, newV) on that side, so  *)
(* one compareAndSet may be executed by several threads at once, and on    *)
(* the wrong side.  Reclaiming follows the Reclaimer contract.             *)
(***************************************************************************)
EXTENDS Camera

CONSTANTS Obj,       \* child pointers, each with an initial version
          Node,      \* versions
          Initial,   \* [Obj -> Node]: the children the constructor installs
          Left,      \* [Obj -> Obj]: the left pointer of the same internal node
          Right,     \* ... and the right one, Null if it is never set (the root)
          Scanner,   \* the threads that run range scans
          Updater,   \* the threads that read and replace children
          Null,      \* Java's null
          Dummy,     \* Node.dummyNextv, the nextv of a node never linked
          Unread     \* a pointer that a scan has not read yet

TBD == -1

ASSUME NodeAssumption ==
    /\ Null \notin Node /\ Dummy \notin Node /\ Unread \notin Node
    /\ Null # Dummy /\ Null # Unread /\ Null \notin Obj
    /\ Initial \in [Obj -> Node]
    /\ \A o, p \in Obj : Initial[o] = Initial[p] => o = p
    /\ Left \in [Obj -> Obj] /\ Right \in [Obj -> Obj \cup {Null}]
    /\ \A o \in Obj : o \in {Left[o], Right[o]}
    /\ Scanner \subseteq Thread /\ Updater \subseteq Thread

VARIABLES
    child,      \* InternalNode.left / right
    ts,         \* Node.ts
    nextv,      \* Node.nextv
    target,     \* the pointer a node was proposed for, Null if none (Info)
    replaces,   \* the version it is to replace (Info)
    announced, waiting, stage,   \* the reclaimer's state
    pc, ret,    \* each thread's control point, and where initTS returns to
    obj, oldV, newV,             \* arguments of the current operation
    node,       \* local: head, or the node a scan has walked to
    headNext,   \* local: the nextv that was read
    curTS,      \* local: initTS's timestamp
    view,       \* what a scan has read from each pointer
    ver,        \* history: position of a version in its pointer, 0 if none
    born        \* history: the camera's timestamp when it was installed

Reclaim == INSTANCE Reclaimer WITH Item <- Node

listVars == <<child, ts, nextv, ver, born>>
infoVars == <<target, replaces>>
reclaimerVars == <<announced, waiting, stage>>
localVars == <<pc, ret, obj, oldV, newV, node, headNext, curTS, view>>
vars == <<cameraVars, listVars, infoVars, reclaimerVars, localVars>>

Control == {"idle", "initTS", "initTSGet", "initTSCas", "got", "help", "side",
            "cas", "spliceRead", "spliceReadNext", "spliceWrite", "compare",
            "swap", "failed", "dedup", "dedupWrite", "retire", "retireCall",
            "return", "scan", "walk"}

TypeOK ==
    /\ CameraTypeOK
    /\ child \in [Obj -> Node]
    /\ ts \in [Node -> Nat \cup {TBD}]
    /\ nextv \in [Node -> Node \cup {Null, Dummy}]
    /\ target \in [Node -> Obj \cup {Null}]
    /\ replaces \in [Node -> Node \cup {Null}]
    /\ Reclaim!TypeOK
    /\ pc \in [Thread -> Control]
    /\ ret \in [Thread -> Control]
    /\ obj \in [Thread -> Obj \cup {Null}]
    /\ oldV \in [Thread -> Node \cup {Null}]
    /\ newV \in [Thread -> Node \cup {Null}]
    /\ node \in [Thread -> Node \cup {Null}]
    /\ headNext \in [Thread -> Node \cup {Null}]
    /\ curTS \in [Thread -> Nat]
    /\ view \in [Thread -> [Obj -> Node \cup {Null, Unread}]]
    /\ ver \in [Node -> Nat]
    /\ born \in [Node -> Nat]
-----------------------------------------------------------------------------
InitialNode == {Initial[o] : o \in Obj}

\* The constructor of InternalNode stamps both children with the camera's
\* first timestamp and ends their version lists (Node.init).
Init ==
    /\ CameraInit
    /\ Reclaim!Init
    /\ child = Initial
    /\ ts = [n \in Node |-> IF n \in InitialNode THEN 0 ELSE TBD]
    /\ nextv = [n \in Node |-> IF n \in InitialNode THEN Null ELSE Dummy]
    /\ target = [n \in Node |-> IF n \in InitialNode
                                THEN CHOOSE o \in Obj : Initial[o] = n ELSE Null]
    /\ replaces = [n \in Node |-> Null]
    /\ ver = [n \in Node |-> IF n \in InitialNode THEN 1 ELSE 0]
    /\ born = [n \in Node |-> 0]
    /\ pc = [t \in Thread |-> "idle"]
    /\ ret = [t \in Thread |-> "idle"]
    /\ obj = [t \in Thread |-> Null]
    /\ oldV = [t \in Thread |-> Null]
    /\ newV = [t \in Thread |-> Null]
    /\ node = [t \in Thread |-> Null]
    /\ headNext = [t \in Thread |-> Null]
    /\ curTS = [t \in Thread |-> 0]
    /\ view = [t \in Thread |-> [o \in Obj |-> Unread]]

Goto(t, l) == pc' = [pc EXCEPT ![t] = l]

\* Call initTS on node n, then continue at l.
CallInitTS(t, n, l) ==
    /\ Goto(t, "initTS")
    /\ ret' = [ret EXCEPT ![t] = l]
    /\ node' = [node EXCEPT ![t] = n]
-----------------------------------------------------------------------------
(* Node.initTS.                                                            *)

\* Fault: initTS does nothing.
InitTSSkipped(t) ==
    /\ pc[t] = "initTS"
    /\ Goto(t, ret[t])
    /\ UNCHANGED <<cameraVars, listVars, infoVars, reclaimerVars,
                   ret, obj, oldV, newV, node, headNext, curTS, view>>

\* if (ts == TBD)
InitTSRead(t) ==
    /\ pc[t] = "initTS"
    /\ Goto(t, IF ts[node[t]] = TBD THEN "initTSGet" ELSE ret[t])
    /\ UNCHANGED <<cameraVars, listVars, infoVars, reclaimerVars,
                   ret, obj, oldV, newV, node, headNext, curTS, view>>

\* curTS = Camera.getTimestamp()
InitTSGet(t) ==
    /\ pc[t] = "initTSGet"
    /\ curTS' = [curTS EXCEPT ![t] = timestamp]
    /\ Goto(t, "initTSCas")
    /\ UNCHANGED <<cameraVars, listVars, infoVars, reclaimerVars,
                   ret, obj, oldV, newV, node, headNext, view>>

\* Fault: the stamp is written, not compared and set.
InitTSWrite(t) ==
    /\ pc[t] = "initTSCas"
    /\ ts' = [ts EXCEPT ![node[t]] = curTS[t]]
    /\ curTS' = [curTS EXCEPT ![t] = 0]
    /\ Goto(t, ret[t])
    /\ UNCHANGED <<cameraVars, child, nextv, ver, born, infoVars, reclaimerVars,
                   ret, obj, oldV, newV, node, headNext, view>>

\* Fault: initTS repeats its CAS until it is the one that stamps.
InitTSSpins(t) ==
    /\ pc[t] = "initTSCas"
    /\ ts[node[t]] = TBD
    /\ InitTSWrite(t)

\* tsUpdater.compareAndSet(this, TBD, curTS)
InitTSCas(t) ==
    /\ pc[t] = "initTSCas"
    /\ ts' = IF ts[node[t]] = TBD THEN [ts EXCEPT ![node[t]] = curTS[t]] ELSE ts
    /\ curTS' = [curTS EXCEPT ![t] = 0]
    /\ Goto(t, ret[t])
    /\ UNCHANGED <<cameraVars, child, nextv, ver, born, infoVars, reclaimerVars,
                   ret, obj, oldV, newV, node, headNext, view>>
-----------------------------------------------------------------------------
(* getLeft() / getRight().                                                 *)

Get(t, o) ==
    /\ t \in Updater /\ pc[t] = "idle"
    /\ obj' = [obj EXCEPT ![t] = o]
    /\ CallInitTS(t, child[o], "got")
    /\ UNCHANGED <<cameraVars, listVars, infoVars, reclaimerVars,
                   oldV, newV, headNext, curTS, view>>

\* An operation ends and its locals are dead.
Return(t) ==
    /\ pc[t] \in {"got", "return"}
    /\ Goto(t, "idle")
    /\ ret' = [ret EXCEPT ![t] = "idle"]
    /\ obj' = [obj EXCEPT ![t] = Null]
    /\ oldV' = [oldV EXCEPT ![t] = Null]
    /\ newV' = [newV EXCEPT ![t] = Null]
    /\ node' = [node EXCEPT ![t] = Null]
    /\ headNext' = [headNext EXCEPT ![t] = Null]
    /\ UNCHANGED <<cameraVars, listVars, infoVars, reclaimerVars, curTS, view>>
-----------------------------------------------------------------------------
(* compareAndSetLeft(oldV, newV) / compareAndSetRight(oldV, newV).         *)

\* Fault: the new node is stamped when it is created.
ProposeStamped(t, n) ==
    /\ pc[t] = "got"
    /\ target[n] = Null
    /\ ts' = [ts EXCEPT ![n] = timestamp]
    /\ target' = [target EXCEPT ![n] = obj[t]]
    /\ replaces' = [replaces EXCEPT ![n] = node[t]]
    /\ oldV' = [oldV EXCEPT ![t] = node[t]]
    /\ newV' = [newV EXCEPT ![t] = n]
    /\ obj' = [obj EXCEPT ![t] = Left[@]]
    /\ Goto(t, "help")
    /\ UNCHANGED <<cameraVars, child, nextv, ver, born, reclaimerVars,
                   ret, node, headNext, curTS, view>>

\* A thread builds a fresh node to replace the version it got, publishes the
\* intent and goes on like a helper, with the left pointer.  oldV and newV are
\* distinct in every caller: the test newV == oldV never succeeds.
Propose(t, n) ==
    /\ pc[t] = "got"
    /\ target[n] = Null
    /\ target' = [target EXCEPT ![n] = obj[t]]
    /\ replaces' = [replaces EXCEPT ![n] = node[t]]
    /\ oldV' = [oldV EXCEPT ![t] = node[t]]
    /\ newV' = [newV EXCEPT ![t] = n]
    /\ obj' = [obj EXCEPT ![t] = Left[@]]
    /\ Goto(t, "help")
    /\ UNCHANGED <<cameraVars, listVars, reclaimerVars,
                   ret, node, headNext, curTS, view>>

\* Another thread finds the Info and helps, before, during or long after the
\* compareAndSet of the one that proposed it.
Help(t, n) ==
    /\ t \in Updater /\ pc[t] = "idle"
    /\ replaces[n] # Null
    /\ obj' = [obj EXCEPT ![t] = Left[target[n]]]
    /\ oldV' = [oldV EXCEPT ![t] = replaces[n]]
    /\ newV' = [newV EXCEPT ![t] = n]
    /\ Goto(t, "help")
    /\ UNCHANGED <<cameraVars, listVars, infoVars, reclaimerVars,
                   ret, node, headNext, curTS, view>>

\* info.p.getLeft()
TestLeft(t) ==
    /\ pc[t] = "help"
    /\ CallInitTS(t, child[obj[t]], "side")
    /\ UNCHANGED <<cameraVars, listVars, infoVars, reclaimerVars,
                   obj, oldV, newV, headNext, curTS, view>>

\* if (p.getLeft() == oldV) p.compareAndSetLeft(oldV, newV)
TakeLeft(t) ==
    /\ pc[t] = "side"
    /\ node[t] = oldV[t]
    /\ Goto(t, "cas")
    /\ node' = [node EXCEPT ![t] = Null]
    /\ UNCHANGED <<cameraVars, listVars, infoVars, reclaimerVars,
                   ret, obj, oldV, newV, headNext, curTS, view>>

\* else p.compareAndSetRight(oldV, newV): the right side, where newV belongs
\* or where a late helper ends up; a null pointer is not oldV either.
TakeRight(t) ==
    /\ pc[t] = "side"
    /\ node[t] # oldV[t]
    /\ obj' = [obj EXCEPT ![t] = Right[@]]
    /\ Goto(t, IF Right[obj[t]] = Null THEN "return" ELSE "cas")
    /\ node' = [node EXCEPT ![t] = Null]
    /\ UNCHANGED <<cameraVars, listVars, infoVars, reclaimerVars,
                   ret, oldV, newV, headNext, curTS, view>>

\* Fault: compareAndSet does not stamp the head it reads.
ReadHeadUnstamped(t) ==
    /\ pc[t] = "cas"
    /\ Goto(t, "spliceRead")
    /\ node' = [node EXCEPT ![t] = child[obj[t]]]
    /\ UNCHANGED <<cameraVars, listVars, infoVars, reclaimerVars,
                   ret, obj, oldV, newV, headNext, curTS, view>>

\* Node head = left; head.initTS()
ReadHead(t) ==
    /\ pc[t] = "cas"
    /\ CallInitTS(t, child[obj[t]], "spliceRead")
    /\ UNCHANGED <<cameraVars, listVars, infoVars, reclaimerVars,
                   obj, oldV, newV, headNext, curTS, view>>

\* Fault: the stamps are not compared.
SpliceReadAny(t) ==
    /\ pc[t] = "spliceRead"
    /\ LET x == nextv[node[t]] IN
       IF x \in Node
       THEN /\ headNext' = [headNext EXCEPT ![t] = x]
            /\ Goto(t, "spliceReadNext")
       ELSE /\ Goto(t, "compare")
            /\ UNCHANGED headNext
    /\ UNCHANGED <<cameraVars, listVars, infoVars, reclaimerVars,
                   ret, obj, oldV, newV, node, curTS, view>>

\* headNext = head.nextv; a next version with the same stamp can be skipped
SpliceRead(t) ==
    /\ pc[t] = "spliceRead"
    /\ LET x == nextv[node[t]] IN
       IF x \in Node /\ ts[node[t]] = ts[x]
       THEN /\ headNext' = [headNext EXCEPT ![t] = x]
            /\ Goto(t, "spliceReadNext")
       ELSE /\ Goto(t, "compare")
            /\ UNCHANGED headNext
    /\ UNCHANGED <<cameraVars, listVars, infoVars, reclaimerVars,
                   ret, obj, oldV, newV, node, curTS, view>>

\* the read and the write of head.nextv = headNext.nextv
SpliceReadNext(t) ==
    /\ pc[t] = "spliceReadNext"
    /\ headNext' = [headNext EXCEPT ![t] = nextv[headNext[t]]]
    /\ Goto(t, "spliceWrite")
    /\ UNCHANGED <<cameraVars, listVars, infoVars, reclaimerVars,
                   ret, obj, oldV, newV, node, curTS, view>>

SpliceWrite(t) ==
    /\ pc[t] = "spliceWrite"
    /\ nextv' = [nextv EXCEPT ![node[t]] = headNext[t]]
    /\ headNext' = [headNext EXCEPT ![t] = Null]
    /\ Goto(t, "compare")
    /\ UNCHANGED <<cameraVars, child, ts, ver, born, infoVars, reclaimerVars,
                   ret, obj, oldV, newV, node, curTS, view>>

\* if (head != oldV) return false
RejectStale(t) ==
    /\ pc[t] = "compare"
    /\ node[t] # oldV[t]
    /\ Goto(t, "return")
    /\ UNCHANGED <<cameraVars, listVars, infoVars, reclaimerVars,
                   ret, obj, oldV, newV, node, headNext, curTS, view>>

\* Fault: the link is written, not compared and set.
LinkWrites(t) ==
    /\ pc[t] = "compare"
    /\ node[t] = oldV[t]
    /\ nextv' = [nextv EXCEPT ![newV[t]] = oldV[t]]
    /\ Goto(t, "swap")
    /\ UNCHANGED <<cameraVars, child, ts, ver, born, infoVars, reclaimerVars,
                   ret, obj, oldV, newV, node, headNext, curTS, view>>

\* Fault: the new version is not linked to the one it replaces.
LinkForgotten(t) ==
    /\ pc[t] = "compare"
    /\ node[t] = oldV[t]
    /\ Goto(t, "swap")
    /\ UNCHANGED <<cameraVars, listVars, infoVars, reclaimerVars,
                   ret, obj, oldV, newV, node, headNext, curTS, view>>

\* nextvUpdater.compareAndSet(newV, dummyNextv, oldV)
Link(t) ==
    /\ pc[t] = "compare"
    /\ node[t] = oldV[t]
    /\ nextv' = IF nextv[newV[t]] = Dummy THEN [nextv EXCEPT ![newV[t]] = oldV[t]] ELSE nextv
    /\ Goto(t, "swap")
    /\ UNCHANGED <<cameraVars, child, ts, ver, born, infoVars, reclaimerVars,
                   ret, obj, oldV, newV, node, headNext, curTS, view>>

\* Fault: the child is written, not compared and set.
SwapWrites(t) ==
    /\ pc[t] = "swap"
    /\ child' = [child EXCEPT ![obj[t]] = newV[t]]
    /\ ver' = [ver EXCEPT ![newV[t]] = ver[node[t]] + 1]
    /\ born' = [born EXCEPT ![newV[t]] = timestamp]
    /\ CallInitTS(t, newV[t], "dedup")
    /\ UNCHANGED <<cameraVars, ts, nextv, infoVars, reclaimerVars,
                   obj, oldV, newV, headNext, curTS, view>>

\* updateLeft.compareAndSet(this, head, newV) succeeds; then newV.initTS()
Swap(t) ==
    /\ pc[t] = "swap"
    /\ child[obj[t]] = node[t]
    /\ child' = [child EXCEPT ![obj[t]] = newV[t]]
    /\ ver' = [ver EXCEPT ![newV[t]] = ver[node[t]] + 1]
    /\ born' = [born EXCEPT ![newV[t]] = timestamp]
    /\ CallInitTS(t, newV[t], "dedup")
    /\ UNCHANGED <<cameraVars, ts, nextv, infoVars, reclaimerVars,
                   obj, oldV, newV, headNext, curTS, view>>

\* Fault: a helper whose CAS fails carries on like the one that succeeded.
SwapFailsUnnoticed(t) ==
    /\ pc[t] = "swap"
    /\ child[obj[t]] # node[t]
    /\ CallInitTS(t, newV[t], "dedup")
    /\ UNCHANGED <<cameraVars, listVars, infoVars, reclaimerVars,
                   obj, oldV, newV, headNext, curTS, view>>

\* the CAS fails: head = left; head.initTS(); return false
SwapFails(t) ==
    /\ pc[t] = "swap"
    /\ child[obj[t]] # node[t]
    /\ Goto(t, "failed")
    /\ UNCHANGED <<cameraVars, listVars, infoVars, reclaimerVars,
                   ret, obj, oldV, newV, node, headNext, curTS, view>>

RereadHead(t) ==
    /\ pc[t] = "failed"
    /\ CallInitTS(t, child[obj[t]], "return")
    /\ UNCHANGED <<cameraVars, listVars, infoVars, reclaimerVars,
                   obj, oldV, newV, headNext, curTS, view>>

\* Fault: the replaced version is dropped whatever its stamp.
DedupAlways(t) ==
    /\ pc[t] = "dedup"
    /\ headNext' = [headNext EXCEPT ![t] = nextv[oldV[t]]]
    /\ Goto(t, "dedupWrite")
    /\ UNCHANGED <<cameraVars, listVars, infoVars, reclaimerVars,
                   ret, obj, oldV, newV, node, curTS, view>>

\* if (newV.ts == head.ts) newV.nextv = head.nextv: the read
DedupRead(t) ==
    /\ pc[t] = "dedup"
    /\ \/ /\ ts[newV[t]] = ts[oldV[t]]
          /\ headNext' = [headNext EXCEPT ![t] = nextv[oldV[t]]]
          /\ Goto(t, "dedupWrite")
       \/ /\ ts[newV[t]] # ts[oldV[t]]
          /\ Goto(t, "retire")
          /\ UNCHANGED headNext
    /\ UNCHANGED <<cameraVars, listVars, infoVars, reclaimerVars,
                   ret, obj, oldV, newV, node, curTS, view>>

\* ... and the write
DedupWrite(t) ==
    /\ pc[t] = "dedupWrite"
    /\ nextv' = [nextv EXCEPT ![newV[t]] = headNext[t]]
    /\ headNext' = [headNext EXCEPT ![t] = Null]
    /\ Goto(t, "retire")
    /\ UNCHANGED <<cameraVars, child, ts, ver, born, infoVars, reclaimerVars,
                   ret, obj, oldV, newV, node, curTS, view>>

\* if (newV.nextv != null)
RetireTest(t) ==
    /\ pc[t] = "retire"
    /\ Goto(t, IF nextv[newV[t]] # Null THEN "retireCall" ELSE "return")
    /\ UNCHANGED <<cameraVars, listVars, infoVars, reclaimerVars,
                   ret, obj, oldV, newV, node, headNext, curTS, view>>

\* epoch.retire(newV); return true
Retire(t) ==
    /\ pc[t] = "retireCall"
    /\ Reclaim!Retire(newV[t])
    /\ Goto(t, "return")
    /\ UNCHANGED <<cameraVars, listVars, infoVars,
                   ret, obj, oldV, newV, node, headNext, curTS, view>>

\* Fault: a retired version is reclaimed under the scans it should wait for.
ReclaimEarly(n) ==
    /\ stage[n] = "retired"
    /\ stage' = [stage EXCEPT ![n] = "reclaimed"]
    /\ nextv' = [nextv EXCEPT ![n] = Null]
    /\ UNCHANGED <<announced, waiting>>
    /\ UNCHANGED <<cameraVars, child, ts, ver, born, infoVars, localVars>>

\* Node.reclaim, called by the reclaimer: the older versions are cut off.
ReclaimNode(n) ==
    /\ Reclaim!Reclaim(n)
    /\ nextv' = [nextv EXCEPT ![n] = Null]
    /\ UNCHANGED <<cameraVars, child, ts, ver, born, infoVars, localVars>>
-----------------------------------------------------------------------------
(* rangeScan: epoch.announce, takeSnapshot, getLeft(ts) / getRight(ts) on  *)
(* the pointers it visits, epoch.unannounce.                               *)

StartScan(t) ==
    /\ t \in Scanner /\ pc[t] = "idle"
    /\ timestamp < MaxTimestamp
    /\ Reclaim!Announce(t)
    /\ Goto(t, "scan")
    /\ UNCHANGED <<cameraVars, listVars, infoVars,
                   ret, obj, oldV, newV, node, headNext, curTS, view>>

ScanTakesSnapshot(t) ==
    /\ pc[t] = "scan"
    /\ ReadTimestamp(t) \/ TakeSnapshotStep(t)
    /\ UNCHANGED <<listVars, infoVars, reclaimerVars, localVars>>

\* Node node = left; node.initTS()
ScanReadHead(t, o) ==
    /\ pc[t] = "scan" /\ camPc[t] = "taken"
    /\ view[t][o] = Unread
    /\ obj' = [obj EXCEPT ![t] = o]
    /\ CallInitTS(t, child[o], "walk")
    /\ UNCHANGED <<cameraVars, listVars, infoVars, reclaimerVars,
                   oldV, newV, headNext, curTS, view>>

\* Fault: a version stamped at the scan's own timestamp is passed over.
YoungerOrEqual(n, s) == n # Null /\ ts[n] >= s

\* while (node != null && node.ts > ts) node = node.nextv
Younger(n, s) == n # Null /\ ts[n] > s

Walk(t) ==
    /\ pc[t] = "walk"
    /\ Younger(node[t], camTs[t])
    /\ node' = [node EXCEPT ![t] = nextv[node[t]]]
    /\ UNCHANGED <<cameraVars, listVars, infoVars, reclaimerVars,
                   pc, ret, obj, oldV, newV, headNext, curTS, view>>

\* return node
WalkEnds(t) ==
    /\ pc[t] = "walk"
    /\ ~ Younger(node[t], camTs[t])
    /\ view' = [view EXCEPT ![t][obj[t]] = node[t]]
    /\ Goto(t, "scan")
    /\ ret' = [ret EXCEPT ![t] = "idle"]
    /\ obj' = [obj EXCEPT ![t] = Null]
    /\ node' = [node EXCEPT ![t] = Null]
    /\ UNCHANGED <<cameraVars, listVars, infoVars, reclaimerVars,
                   oldV, newV, headNext, curTS>>

EndScan(t) ==
    /\ pc[t] = "scan" /\ ReturnSnapshot(t)
    /\ \A o \in Obj : view[t][o] # Unread
    /\ Reclaim!Unannounce(t)
    /\ view' = [view EXCEPT ![t] = [o \in Obj |-> Unread]]
    /\ Goto(t, "idle")
    /\ UNCHANGED <<listVars, infoVars,
                   ret, obj, oldV, newV, node, headNext, curTS>>
-----------------------------------------------------------------------------
CompareAndSetStep(t) ==
    \/ ReadHead(t) \/ SpliceRead(t) \/ SpliceReadNext(t) \/ SpliceWrite(t)
    \/ RejectStale(t) \/ Link(t) \/ Swap(t) \/ SwapFails(t) \/ RereadHead(t)
    \/ DedupRead(t) \/ DedupWrite(t) \/ RetireTest(t) \/ Retire(t)

HelperStep(t) ==
    \/ TestLeft(t) \/ TakeLeft(t) \/ TakeRight(t)
    \/ \E n \in Node : Help(t, n)

InitTSStep(t) == InitTSRead(t) \/ InitTSGet(t) \/ InitTSCas(t)

ScanStep(t) ==
    \/ ScanTakesSnapshot(t) \/ Walk(t) \/ WalkEnds(t) \/ EndScan(t)
    \/ \E o \in Obj : ScanReadHead(t, o)

Step(t) ==
    \/ InitTSStep(t) \/ HelperStep(t) \/ CompareAndSetStep(t) \/ ScanStep(t)
    \/ Return(t) \/ StartScan(t)
    \/ \E o \in Obj : Get(t, o)
    \/ \E n \in Node : Propose(t, n)

Next == \/ \E t \in Thread : Step(t)
        \/ \E n \in Node : ReclaimNode(n)

\* A scan that keeps running takes its steps; nothing is assumed of updaters
\* or of the reclaimer.
ScanFairness == \A t \in Scanner : WF_vars(ScanStep(t) \/ (t \in announced /\ InitTSStep(t)))

Spec == Init /\ [][Next]_vars
FairSpec == Spec /\ ScanFairness
-----------------------------------------------------------------------------
(* What the code promises.                                                 *)

\* The versions a pointer has had, oldest first by ver.
Installed(o) == {n \in Node : target[n] = o /\ ver[n] > 0}

Stamped(n) == ts[n] # TBD

\* n is what pointer o held at snapshot s: the newest version stamped at or
\* before s.
VersionAt(n, o, s) ==
    /\ n \in Installed(o) /\ Stamped(n) /\ ts[n] <= s
    /\ \A m \in Installed(o) : Stamped(m) /\ ts[m] <= s => ver[m] <= ver[n]

\* rangeScan reads one state of all pointers: whatever a scan has read from a
\* pointer is, and remains while other threads stamp, splice, replace and
\* reclaim, the version of that pointer at the scan's timestamp.
SnapshotView ==
    \A t \in Thread, o \in Obj :
        view[t][o] # Unread => VersionAt(view[t][o], o, camTs[t])

\* The list of a pointer is sorted by timestamp, and initTS on every path
\* means that no version is buried by a newer one before it is stamped.
VersionsOrdered ==
    \A o \in Obj : \A n, m \in Installed(o) :
        ver[n] < ver[m] => Stamped(n) /\ (Stamped(m) => ts[n] <= ts[m])

\* Updates respect real time: the stamp of a version, whoever writes it, was
\* read from the camera after the version was installed, so that a scan that
\* had its timestamp by then cannot see it.
StampedAfterInstall ==
    \A n \in Node : Stamped(n) /\ ver[n] > 0 => born[n] <= ts[n]

\* No operation returns while its effect is undated: what get returns, and
\* what a compareAndSet of any helper installed, has its stamp by then.
ReturnsStamped ==
    \A t \in Thread :
        /\ pc[t] = "got" => Stamped(node[t])
        /\ pc[t] = "return" /\ ver[newV[t]] > 0 => Stamped(newV[t])

\* Only the helper whose CAS installed a version hands it to the reclaimer.
RetiredOnce ==
    \A t \in Thread : pc[t] \in {"retire", "retireCall"} => stage[newV[t]] = "live"

\* Splicing (by compareAndSet on the head, and by its winner on the new
\* version) drops a version from a list only if the one before it has the
\* same timestamp, and cuts a list only where the reclaimer allowed it.
Between(k, n, x) ==
    /\ target[k] = target[n] /\ 0 < ver[k] /\ ver[k] < ver[n]
    /\ x # Null => ver[x] < ver[k]

LinkOK(n, x) ==
    /\ x # Null => x \in Node /\ target[x] = target[n] /\ 0 < ver[x] /\ ver[x] < ver[n]
    /\ \/ \A k \in Node : Between(k, n, x) => ts[k] = ts[n]
       \/ x = Null /\ \E r \in Node : stage[r] = "reclaimed" /\ target[r] = target[n] /\ ts[r] = ts[n]

LinksSkipOnlyDuplicates ==
    \A n \in Node : ver[n] > 0 => LinkOK(n, nextv[n])

\* A stamp, once written, is final, although several helpers write it.
StampsAreFinal == [][\A n \in Node : Stamped(n) => ts'[n] = ts[n]]_ts

\* A version is installed at most once, however many helpers run its
\* compareAndSet and however late they are.
InstalledOnce == [][\A o \in Obj : child'[o] # child[o] => ver[child'[o]] = 0]_child

\* A version is linked to the one it replaces once, before it is installed: no
\* splice and no helper, however late, puts that link back once it is gone.
LinkedOnce ==
    [][\A n \in Node : replaces[n] # Null /\ nextv'[n] = replaces[n]
                           => nextv[n] \in {Dummy, replaces[n]}]_nextv

\* A scan needs nobody: it finishes by its own steps, although updaters may
\* stop halfway through replacing, stamping or splicing what it reads.
ScanTerminates == \A t \in Scanner : pc[t] = "scan" ~> pc[t] = "idle"

\* Scans are linearizable among themselves: of two that run together, one
\* has seen every update the other has seen, on every pointer both have read.
ScansComparable ==
    \A t, u \in Thread : \A o \in Obj :
        /\ view[t][o] # Unread /\ view[u][o] # Unread
        /\ camTs[t] <= camTs[u]
        => ver[view[t][o]] <= ver[view[u][o]]

\* The pointers implement the abstract store of dated versions.
Store == INSTANCE SnapshotStore WITH
    Reader <- Scanner, Value <- Node, First <- Initial, NoWrite <- Null,
    clock <- timestamp,
    log <- [o \in Obj |-> {[val |-> n, pos |-> ver[n], stamp |-> ts[n]] :
                           n \in {m \in Installed(o) : Stamped(m)}}],
    pending <- [o \in Obj |-> IF Stamped(child[o]) THEN Null
                              ELSE [val |-> child[o], since |-> born[child[o]]]],
    snap <- [t \in Scanner |-> IF camPc[t] = "idle" THEN -1 ELSE camTs[t]],
    view <- [t \in Scanner |-> view[t]]

\* The camera, initTS, compareAndSet and the versioned reads together behave
\* like the store: each scan reads every pointer as of one past instant.
ImplementsStore == Store!Spec
=============================================================================

--------------------------- MODULE VersionedCasInv ---------------------------
(***************************************************************************)
(* The inductive invariant of VersionedCas, in named parts.  TLC checks it *)
(* on small instances, VersionedCasProofs proves it for all.               *)
(***************************************************************************)
EXTENDS VersionedCas

\* The positions of a pointer's versions: the child is the newest, positions
\* are distinct, and only the child may be unstamped.
HistoryInv ==
    /\ \A o \in Obj : target[child[o]] = o /\ ver[child[o]] > 0
    /\ \A o \in Obj : target[Initial[o]] = o /\ ver[Initial[o]] > 0 /\ replaces[Initial[o]] = Null
    /\ \A n \in Node : ver[n] > 0 =>
          /\ target[n] # Null
          /\ ver[n] <= ver[child[target[n]]]
          /\ n # child[target[n]] => Stamped(n)
    /\ \A n, m \in Node : ver[n] > 0 /\ ver[n] = ver[m] /\ target[n] = target[m] => n = m

\* A proposal names a stamped version of the same pointer; a node that nobody
\* installed is unstamped and at most linked to the version it is to replace;
\* the first version of a pointer is stamped with the camera's first time.
ProposalInv ==
    /\ \A n \in Node : replaces[n] # Null =>
          /\ target[n] # Null
          /\ target[replaces[n]] = target[n]
          /\ ver[replaces[n]] > 0
          /\ Stamped(replaces[n])
          /\ ver[n] > 0 => ver[n] = ver[replaces[n]] + 1
    /\ \A n \in Node : replaces[n] = Null /\ ver[n] > 0 => ver[n] = 1 /\ ts[n] = 0
    /\ \A n \in Node : replaces[n] = Null /\ ver[n] = 0 => target[n] = Null
    /\ \A n \in Node : ver[n] = 0 =>
          /\ ~ Stamped(n)
          /\ nextv[n] = Dummy \/ (replaces[n] # Null /\ nextv[n] = replaces[n])

\* Stamps lie between installation and now, and a version is installed only
\* after the stamp of every older one.
StampInv ==
    /\ \A n \in Node : ts[n] <= timestamp /\ born[n] <= timestamp
    /\ \A n \in Node : Stamped(n) => born[n] <= ts[n]
    /\ \A n, m \in Node : target[n] = target[m] /\ 0 < ver[n] /\ ver[n] < ver[m] => ts[n] <= born[m]

LinkInv == \A n \in Node : ver[n] > 0 => nextv[n] # Dummy /\ LinkOK(n, nextv[n])

\* Control points at which a thread helps or runs compareAndSet(oldV, newV), and
\* those of a thread whose CAS has installed newV.
InInit(t) == pc[t] \in {"initTS", "initTSGet", "initTSCas"}

InCas(t) ==
    \/ pc[t] \in {"help", "side", "cas", "spliceRead", "spliceReadNext", "spliceWrite",
                  "compare", "swap", "failed", "dedup", "dedupWrite", "retire", "retireCall"}
    \/ InInit(t) /\ ret[t] \in {"side", "spliceRead", "dedup"}

HasInstalled(t) ==
    \/ pc[t] \in {"dedup", "dedupWrite", "retire", "retireCall"}
    \/ InInit(t) /\ ret[t] = "dedup"

\* Control points at which the local `node` is a version of pointer obj.
HasNode(t) ==
    InInit(t) \/ pc[t] \in {"got", "side", "spliceRead", "spliceReadNext", "spliceWrite",
                            "compare", "swap", "walk"}

\* The link from n to x leads past the version that n replaces.
PastReplaced(n, x) == x # Null => ver[x] + 1 < ver[n]

LocalOK(t) ==
    /\ InInit(t) => ret[t] \in {"got", "side", "spliceRead", "dedup", "return", "walk"}
    /\ HasNode(t) => /\ obj[t] \in Obj /\ node[t] \in Node
                     /\ target[node[t]] = obj[t] /\ ver[node[t]] > 0
    /\ HasNode(t) /\ ~ InInit(t) => Stamped(node[t])
    /\ pc[t] = "initTSCas" => born[node[t]] <= curTS[t] /\ curTS[t] <= timestamp
    /\ InCas(t) => /\ obj[t] \in Obj /\ newV[t] \in Node /\ oldV[t] \in Node
                   /\ replaces[newV[t]] = oldV[t]
    /\ pc[t] = "spliceReadNext" =>
          /\ headNext[t] \in Node
          /\ LinkOK(node[t], headNext[t])
          /\ ts[headNext[t]] = ts[node[t]]
    /\ pc[t] = "spliceWrite" => LinkOK(node[t], headNext[t]) /\ PastReplaced(node[t], headNext[t])
    /\ pc[t] = "swap" => node[t] = oldV[t] /\ nextv[newV[t]] # Dummy
    /\ HasInstalled(t) => ver[newV[t]] > 0
    /\ InInit(t) /\ ret[t] = "dedup" => node[t] = newV[t]
    /\ HasInstalled(t) /\ ~ InInit(t) => Stamped(newV[t])
    /\ pc[t] = "dedupWrite" => LinkOK(newV[t], headNext[t]) /\ PastReplaced(newV[t], headNext[t])

LocalInv == \A t \in Thread : LocalOK(t)

\* Every version newer than n is, or will be when it is stamped, after s.
NewerHidden(n, s) ==
    \A k \in Node : target[k] = target[n] /\ ver[n] < ver[k] => born[k] > s \/ ts[k] > s

Walking(t) == pc[t] = "walk" \/ (InInit(t) /\ ret[t] = "walk")

ScanOK(t) ==
    /\ camPc[t] # "idle" \/ pc[t] = "scan" => t \in announced
    /\ Walking(t) =>
          camPc[t] = "taken" /\ NewerHidden(node[t], camTs[t])
    /\ \A o \in Obj : view[t][o] # Unread =>
          /\ camPc[t] = "taken"
          /\ view[t][o] \in Node /\ target[view[t][o]] = o /\ ver[view[t][o]] > 0
          /\ Stamped(view[t][o]) /\ ts[view[t][o]] <= camTs[t]
          /\ NewerHidden(view[t][o], camTs[t])

ScanInv == \A t \in Thread : ScanOK(t)

\* What is retired is still waited for by every scan that could look behind
\* it, whenever that scan announced itself.
ReclaimInv == \A n \in Node : stage[n] # "live" =>
    /\ ver[n] > 0 /\ Stamped(n)
    /\ stage[n] = "reclaimed" => waiting[n] = {}
    /\ \A t \in Thread : camPc[t] # "idle" /\ ts[n] > camTs[t] => t \in waiting[n]

IInv == /\ TypeOK /\ CameraInv
        /\ HistoryInv /\ ProposalInv /\ StampInv /\ LinkInv
        /\ LocalInv /\ ScanInv /\ ReclaimInv
=============================================================================

-------------------------- MODULE VersionedCasProofs --------------------------
(***************************************************************************)
(* Proofs about VersionedCas, for any number of pointers, versions and     *)
(* threads.                                                                *)
(***************************************************************************)
EXTENDS VersionedCasInv, CameraLemmas

\* How any step changes what is shared: stamps, positions and proposals are
\* final, and a version that is installed is newer than all the others of its
\* pointer and dated no earlier than now.
Evolves ==
    /\ timestamp <= timestamp'
    /\ \A n \in Node :
          /\ Stamped(n) => ts'[n] = ts[n]
          /\ ver[n] > 0 => ver'[n] = ver[n] /\ born'[n] = born[n]
          /\ target[n] # Null => target'[n] = target[n]
          /\ replaces[n] # Null => replaces'[n] = replaces[n]
          /\ nextv[n] # Dummy => nextv'[n] # Dummy
          /\ stage[n] = "reclaimed" => stage'[n] = "reclaimed"
          /\ ver[n] = 0 /\ ver'[n] > 0 =>
                /\ born'[n] = timestamp /\ target[n] # Null
                /\ \A k \in Node : target[k] = target[n] /\ ver[k] > 0 => ver[k] < ver'[n]

\* Another step leaves the locals of thread u alone.
SameLocals(u) ==
    /\ pc'[u] = pc[u] /\ ret'[u] = ret[u] /\ obj'[u] = obj[u]
    /\ oldV'[u] = oldV[u] /\ newV'[u] = newV[u] /\ node'[u] = node[u]
    /\ headNext'[u] = headNext[u] /\ curTS'[u] = curTS[u]

\* ... and of its scan: it may leave a walk, not enter one or a scan.
SameScan(u) ==
    /\ view'[u] = view[u] /\ camPc'[u] = camPc[u] /\ camTs'[u] = camTs[u]
    /\ u \in announced => u \in announced'
    /\ pc'[u] = "scan" => pc[u] = "scan"
    /\ Walking(u)' => Walking(u) /\ node'[u] = node[u]
-----------------------------------------------------------------------------
(* What is true of the shared lists stays true.                            *)

\* A link that skips only duplicates does so for ever.
LEMMA LinkStable ==
    ASSUME TypeOK, TypeOK', HistoryInv, ReclaimInv, Evolves,
           NEW n \in Node, ver[n] > 0, NEW x \in Node \cup {Null}, LinkOK(n, x)
    PROVE  LinkOK(n, x)'
<1> USE NodeAssumption DEF TypeOK
<1>1. target[n] # Null /\ target'[n] = target[n] /\ ver'[n] = ver[n]
  BY DEF HistoryInv, Evolves
<1>2. x # Null => /\ x \in Node /\ target'[x] = target'[n]
                  /\ 0 < ver'[x] /\ ver'[x] < ver'[n]
  BY <1>1 DEF LinkOK, Evolves
<1>3. ASSUME NEW k \in Node, Between(k, n, x)'
      PROVE  Between(k, n, x) /\ ver[k] > 0
  <2>1. CASE ver[k] > 0
    BY <1>1, <1>2, <1>3, <2>1 DEF Between, HistoryInv, Evolves, LinkOK
  <2>2. CASE ver[k] = 0
    <3>1. target[k] # Null /\ target[k] = target[n] /\ ver[n] < ver'[k]
      BY <1>1, <1>3, <2>2 DEF Between, Evolves
    <3> QED BY <1>1, <1>3, <3>1 DEF Between
  <2> QED BY <2>1, <2>2
<1>4. CASE \A k \in Node : Between(k, n, x) => ts[k] = ts[n]
  <2>1. ASSUME NEW k \in Node, Between(k, n, x)'
        PROVE  ts'[k] = ts'[n]
    <3>1. Between(k, n, x) /\ ver[k] > 0 /\ ts[k] = ts[n]
      BY <1>3, <1>4, <2>1
    <3>2. Stamped(k)
      BY <1>1, <3>1 DEF Between, HistoryInv
    <3> QED BY <3>1, <3>2 DEF Evolves, Stamped
  <2> QED BY <1>2, <2>1 DEF LinkOK
<1>5. CASE x = Null /\ \E r \in Node : stage[r] = "reclaimed" /\ target[r] = target[n] /\ ts[r] = ts[n]
  <2>1. PICK r \in Node : stage[r] = "reclaimed" /\ target[r] = target[n] /\ ts[r] = ts[n]
    BY <1>5
  <2>2. Stamped(r) /\ target[r] # Null
    BY <1>1, <2>1 DEF ReclaimInv
  <2> QED BY <1>1, <1>5, <2>1, <2>2 DEF LinkOK, Evolves, Stamped
<1> QED BY <1>4, <1>5 DEF LinkOK

\* A link past the version that was replaced stays one.
LEMMA PastStable ==
    ASSUME Evolves, NEW n \in Node, ver[n] > 0, NEW x \in Node \cup {Null},
           LinkOK(n, x), PastReplaced(n, x)
    PROVE  PastReplaced(n, x)'
  BY DEF Evolves, LinkOK, PastReplaced

\* A version hidden from snapshot s stays hidden, and so do those to come.
LEMMA HiddenStable ==
    ASSUME TypeOK, TypeOK', HistoryInv, Evolves,
           NEW n \in Node, ver[n] > 0, NEW s \in Nat, s < timestamp, NewerHidden(n, s)
    PROVE  NewerHidden(n, s)'
<1> USE NodeAssumption DEF TypeOK
<1>1. target[n] # Null /\ target'[n] = target[n] /\ ver'[n] = ver[n]
  BY DEF HistoryInv, Evolves
<1> SUFFICES ASSUME NEW k \in Node, target'[k] = target'[n], ver'[n] < ver'[k]
             PROVE  born'[k] > s \/ ts'[k] > s
  BY DEF NewerHidden
<1>2. CASE ver[k] > 0
  <2>1. target[k] = target[n] /\ ver[n] < ver[k] /\ born'[k] = born[k]
    BY <1>1, <1>2 DEF HistoryInv, Evolves
  <2>2. ts[k] > s => ts'[k] = ts[k]
    BY DEF Evolves, Stamped, TBD
  <2> QED BY <2>1, <2>2 DEF NewerHidden
<1>3. CASE ver[k] = 0
  <2>1. ver'[k] > 0
    BY <1>1
  <2>2. born'[k] = timestamp
    BY <1>3, <2>1 DEF Evolves
  <2> QED BY <2>2 DEF CameraTypeOK
<1> QED BY <1>2, <1>3

\* What one thread knows is not falsified by the steps of others.
LEMMA LocalStable ==
    ASSUME TypeOK, TypeOK', HistoryInv, ReclaimInv, Evolves,
           NEW u \in Thread, LocalOK(u), SameLocals(u)
    PROVE  LocalOK(u)'
<1> USE NodeAssumption
<1>a. /\ InInit(u)' = InInit(u) /\ InCas(u)' = InCas(u)
      /\ HasInstalled(u)' = HasInstalled(u) /\ HasNode(u)' = HasNode(u)
  BY DEF SameLocals, InInit, InCas, HasInstalled, HasNode
<1>1. InInit(u) => ret'[u] \in {"got", "side", "spliceRead", "dedup", "return", "walk"}
  BY DEF LocalOK, SameLocals
<1>2. HasNode(u) => /\ obj'[u] \in Obj /\ node'[u] \in Node
                    /\ target'[node'[u]] = obj'[u] /\ ver'[node'[u]] > 0
  BY DEF LocalOK, SameLocals, Evolves, TypeOK
<1>3. HasNode(u) /\ ~ InInit(u) => Stamped(node[u])'
  BY DEF LocalOK, SameLocals, Evolves, TypeOK, Stamped
<1>4. pc[u] = "initTSCas" => born'[node'[u]] <= curTS'[u] /\ curTS'[u] <= timestamp'
  BY DEF LocalOK, HasNode, InInit, SameLocals, Evolves, TypeOK, CameraTypeOK
<1>5. InCas(u) => /\ obj'[u] \in Obj /\ newV'[u] \in Node /\ oldV'[u] \in Node
                  /\ replaces'[newV'[u]] = oldV'[u]
  BY DEF LocalOK, SameLocals, Evolves, TypeOK
<1>6. pc[u] = "spliceReadNext" =>
          /\ headNext'[u] \in Node
          /\ LinkOK(node[u], headNext[u])'
          /\ ts'[headNext[u]] = ts'[node[u]]
  <2> SUFFICES ASSUME pc[u] = "spliceReadNext"
               PROVE  /\ headNext'[u] \in Node
                      /\ LinkOK(node[u], headNext[u])'
                      /\ ts'[headNext[u]] = ts'[node[u]]
    OBVIOUS
  <2>1. node[u] \in Node /\ ver[node[u]] > 0 /\ Stamped(node[u])
    BY DEF LocalOK, HasNode, InInit
  <2>2. headNext[u] \in Node /\ LinkOK(node[u], headNext[u]) /\ ts[headNext[u]] = ts[node[u]]
    BY DEF LocalOK
  <2>3. \A n \in Node, x \in Node \cup {Null} :
           ver[n] > 0 /\ LinkOK(n, x) => LinkOK(n, x)'
    BY LinkStable
  <2> QED BY <2>1, <2>2, <2>3 DEF SameLocals, Evolves, Stamped
<1>7. pc[u] = "spliceWrite" => (LinkOK(node[u], headNext[u]) /\ PastReplaced(node[u], headNext[u]))'
  <2> SUFFICES ASSUME pc[u] = "spliceWrite"
               PROVE  (LinkOK(node[u], headNext[u]) /\ PastReplaced(node[u], headNext[u]))'
    OBVIOUS
  <2>1. node[u] \in Node /\ ver[node[u]] > 0 /\ headNext[u] \in Node \cup {Null}
    BY DEF LocalOK, HasNode, InInit, TypeOK
  <2>2. /\ LinkOK(node[u], headNext[u]) /\ PastReplaced(node[u], headNext[u])
        /\ node'[u] = node[u] /\ headNext'[u] = headNext[u]
    BY DEF LocalOK, SameLocals
  <2>3. \A n \in Node, x \in Node \cup {Null} :
           ver[n] > 0 /\ LinkOK(n, x) => LinkOK(n, x)'
    BY LinkStable
  <2>4. PastReplaced(node[u], headNext[u])'
    BY <2>1, <2>2, PastStable
  <2> QED BY <2>1, <2>2, <2>3, <2>4
<1>8. pc[u] = "swap" => node'[u] = oldV'[u] /\ nextv'[newV'[u]] # Dummy
  BY DEF LocalOK, SameLocals, InCas, Evolves
<1>9. HasInstalled(u) => ver'[newV'[u]] > 0
  BY DEF LocalOK, SameLocals, InCas, HasInstalled, Evolves, TypeOK
<1>10. InInit(u) /\ ret[u] = "dedup" => node'[u] = newV'[u]
  BY DEF LocalOK, SameLocals
<1>11. HasInstalled(u) /\ ~ InInit(u) => Stamped(newV[u])'
  BY DEF LocalOK, SameLocals, InCas, HasInstalled, InInit, Evolves, Stamped
<1>12. pc[u] = "dedupWrite" => (LinkOK(newV[u], headNext[u]) /\ PastReplaced(newV[u], headNext[u]))'
  <2> SUFFICES ASSUME pc[u] = "dedupWrite"
               PROVE  (LinkOK(newV[u], headNext[u]) /\ PastReplaced(newV[u], headNext[u]))'
    OBVIOUS
  <2>1. newV[u] \in Node /\ ver[newV[u]] > 0 /\ headNext[u] \in Node \cup {Null}
    BY DEF LocalOK, InCas, HasInstalled, TypeOK
  <2>2. /\ LinkOK(newV[u], headNext[u]) /\ PastReplaced(newV[u], headNext[u])
        /\ newV'[u] = newV[u] /\ headNext'[u] = headNext[u]
    BY DEF LocalOK, SameLocals
  <2>3. \A n \in Node, x \in Node \cup {Null} :
           ver[n] > 0 /\ LinkOK(n, x) => LinkOK(n, x)'
    BY LinkStable
  <2>4. PastReplaced(newV[u], headNext[u])'
    BY <2>1, <2>2, PastStable
  <2> QED BY <2>1, <2>2, <2>3, <2>4
<1> QED BY <1>a, <1>1, <1>2, <1>3, <1>4, <1>5, <1>6, <1>7, <1>8, <1>9, <1>10, <1>11, <1>12
        DEF LocalOK, SameLocals

LEMMA ScanStable ==
    ASSUME TypeOK, TypeOK', CameraInv, HistoryInv, LocalInv, Evolves,
           NEW u \in Thread, ScanOK(u), SameScan(u)
    PROVE  ScanOK(u)'
<1> USE NodeAssumption
<1>1. camPc'[u] # "idle" \/ pc'[u] = "scan" => u \in announced'
  BY DEF ScanOK, SameScan
<1>2. camPc[u] = "taken" => camTs[u] \in Nat /\ camTs[u] < timestamp /\ camTs'[u] = camTs[u]
  BY DEF CameraInv, TypeOK, CameraTypeOK, SameScan
<1>3. \A n \in Node : camPc[u] = "taken" /\ ver[n] > 0 /\ NewerHidden(n, camTs[u])
                          => NewerHidden(n, camTs[u])'
  BY <1>2, HiddenStable
<1>4. Walking(u)' => camPc'[u] = "taken" /\ NewerHidden(node[u], camTs[u])'
  <2> SUFFICES ASSUME Walking(u), node'[u] = node[u]
               PROVE  camPc'[u] = "taken" /\ NewerHidden(node[u], camTs[u])'
    BY DEF SameScan
  <2>1. node[u] \in Node /\ ver[node[u]] > 0
    BY DEF LocalInv, LocalOK, HasNode, Walking
  <2>2. camPc[u] = "taken" /\ NewerHidden(node[u], camTs[u])
    BY DEF ScanOK
  <2> QED BY <1>2, <1>3, <2>1, <2>2 DEF SameScan, NewerHidden
<1>5. \A o \in Obj : view'[u][o] # Unread =>
          /\ camPc'[u] = "taken"
          /\ view'[u][o] \in Node /\ target'[view'[u][o]] = o /\ ver'[view'[u][o]] > 0
          /\ Stamped(view[u][o])' /\ ts'[view'[u][o]] <= camTs'[u]
          /\ NewerHidden(view[u][o], camTs[u])'
  <2> SUFFICES ASSUME NEW o \in Obj, view[u][o] # Unread
               PROVE  /\ camPc'[u] = "taken"
                      /\ view'[u][o] \in Node /\ target'[view'[u][o]] = o /\ ver'[view'[u][o]] > 0
                      /\ Stamped(view[u][o])' /\ ts'[view'[u][o]] <= camTs'[u]
                      /\ NewerHidden(view[u][o], camTs[u])'
    BY DEF SameScan
  <2>1. /\ camPc[u] = "taken"
        /\ view[u][o] \in Node /\ target[view[u][o]] = o /\ ver[view[u][o]] > 0
        /\ Stamped(view[u][o]) /\ ts[view[u][o]] <= camTs[u]
        /\ NewerHidden(view[u][o], camTs[u])
    BY DEF ScanOK
  <2>2. view'[u][o] = view[u][o]
    BY DEF SameScan
  <2>3. target'[view[u][o]] = o /\ ver'[view[u][o]] > 0 /\ ts'[view[u][o]] = ts[view[u][o]]
    BY <2>1 DEF Evolves
  <2> QED BY <1>2, <1>3, <2>1, <2>2, <2>3 DEF SameScan, Stamped
<1> QED BY <1>1, <1>4, <1>5 DEF ScanOK
-----------------------------------------------------------------------------
(* Steps that change nothing but the locals of one thread.                 *)

OnlyLocals(t) ==
    /\ UNCHANGED <<cameraVars, listVars, infoVars, reclaimerVars>>
    /\ \A u \in Thread \ {t} : SameLocals(u) /\ view'[u] = view[u]

LEMMA UnchangedShared ==
    ASSUME UNCHANGED <<cameraVars, listVars, infoVars, reclaimerVars>>
    PROVE  /\ \A n, x : LinkOK(n, x)' <=> LinkOK(n, x)
           /\ \A n, s : NewerHidden(n, s)' <=> NewerHidden(n, s)
           /\ \A n : Stamped(n)' <=> Stamped(n)
  BY DEF cameraVars, listVars, infoVars, reclaimerVars, LinkOK, Between, NewerHidden, Stamped

LEMMA LocalStep ==
    ASSUME IInv, TypeOK', NEW t \in Thread, OnlyLocals(t), LocalOK(t)', ScanOK(t)'
    PROVE  IInv'
<1> USE DEF IInv, OnlyLocals
<1>1. Evolves
  BY DEF Evolves, cameraVars, listVars, infoVars, reclaimerVars, TypeOK, CameraTypeOK
<1>2. CameraInv'
  BY DEF CameraInv, cameraVars
<1>3. HistoryInv' /\ ProposalInv' /\ StampInv'
  BY DEF HistoryInv, ProposalInv, StampInv, Stamped, cameraVars, listVars, infoVars
<1>4. LinkInv'
  BY UnchangedShared DEF LinkInv, listVars
<1>5. ReclaimInv'
  BY DEF ReclaimInv, Stamped, cameraVars, listVars, infoVars, reclaimerVars
<1>6. LocalInv'
  BY <1>1, LocalStable DEF LocalInv
<1>7. ScanInv'
  <2>1. \A u \in Thread \ {t} : SameScan(u)
    BY DEF SameLocals, SameScan, Walking, InInit, cameraVars, reclaimerVars
  <2> QED BY <1>1, <2>1, ScanStable DEF ScanInv
<1> QED BY <1>2, <1>3, <1>4, <1>5, <1>6, <1>7

\* Skipping a version that has the same stamp leaves a good link.
LEMMA LinkCompose ==
    ASSUME TypeOK, HistoryInv, NEW n \in Node, NEW m \in Node, NEW x \in Node \cup {Null},
           LinkOK(n, m), ts[m] = ts[n], LinkOK(m, x)
    PROVE  LinkOK(n, x)
<1> USE NodeAssumption
<1>1. target[m] = target[n] /\ 0 < ver[m] /\ ver[m] < ver[n]
  BY DEF LinkOK, TypeOK
<1>2. x # Null => x \in Node /\ target[x] = target[n] /\ 0 < ver[x] /\ ver[x] < ver[n]
  BY <1>1 DEF LinkOK, TypeOK
<1>3. \A k \in Node : Between(k, n, m) => ts[k] = ts[n]
  BY DEF LinkOK
<1>4. ASSUME \A k \in Node : Between(k, m, x) => ts[k] = ts[m]
      PROVE  \A k \in Node : Between(k, n, x) => ts[k] = ts[n]
  <2> SUFFICES ASSUME NEW k \in Node, Between(k, n, x) PROVE ts[k] = ts[n]
    OBVIOUS
  <2>0. ver[k] \in Nat /\ ver[n] \in Nat /\ ver[m] \in Nat
    BY DEF TypeOK
  <2>1. CASE ver[k] > ver[m]
    BY <1>1, <1>3, <2>1 DEF Between
  <2>2. CASE ver[k] = ver[m]
    BY <1>1, <2>2 DEF Between, HistoryInv, TypeOK
  <2>3. CASE ver[k] < ver[m]
    BY <1>1, <1>4, <2>0, <2>3 DEF Between
  <2> QED BY <2>0, <2>1, <2>2, <2>3
<1>5. CASE \A k \in Node : Between(k, m, x) => ts[k] = ts[m]
  BY <1>2, <1>4, <1>5 DEF LinkOK
<1>6. CASE x = Null /\ \E r \in Node : stage[r] = "reclaimed" /\ target[r] = target[m] /\ ts[r] = ts[m]
  BY <1>1, <1>2, <1>6 DEF LinkOK
<1> QED BY <1>5, <1>6 DEF LinkOK

\* A scan that meets a version younger than its snapshot finds an older one
\* behind it: the list is never cut there, because the reclaimer still waits
\* for the scan.  What the link skips is hidden from the scan as well.
LEMMA WalkFinds ==
    ASSUME IInv, NEW t \in Thread, Walk(t)
    PROVE  /\ nextv[node[t]] \in Node /\ target[nextv[node[t]]] = obj[t]
           /\ ver[nextv[node[t]]] > 0 /\ Stamped(nextv[node[t]])
           /\ NewerHidden(nextv[node[t]], camTs[t])
<1> DEFINE n == node[t]
           x == nextv[node[t]]
           s == camTs[t]
<1> USE NodeAssumption DEF IInv
<1>1. /\ n \in Node /\ target[n] = obj[t] /\ obj[t] \in Obj /\ ver[n] > 0
      /\ Stamped(n) /\ ts[n] > s
  BY DEF Walk, Younger, LocalInv, LocalOK, HasNode, InInit
<1>2. camPc[t] = "taken" /\ NewerHidden(n, s) /\ s \in Nat
  BY DEF Walk, ScanInv, ScanOK, Walking, TypeOK, CameraTypeOK
<1>3. x \in Node \cup {Null} /\ LinkOK(n, x)
  BY <1>1 DEF LinkInv, TypeOK
<1>4. ~ \E r \in Node : stage[r] = "reclaimed" /\ ts[r] = ts[n]
  BY <1>1, <1>2 DEF ReclaimInv
<1>5. \A k \in Node : Between(k, n, x) => ts[k] = ts[n]
  BY <1>3, <1>4 DEF LinkOK
<1>6. x # Null
  <2> SUFFICES ASSUME x = Null PROVE FALSE
    OBVIOUS
  <2> DEFINE i == Initial[obj[t]]
  <2>1. i \in Node /\ target[i] = obj[t] /\ ver[i] = 1 /\ ts[i] = 0 /\ replaces[i] = Null
    BY <1>1 DEF HistoryInv, ProposalInv
  <2>2. ts[n] \in Int /\ ts[n] > 0 /\ ver[n] \in Nat
    BY <1>1, <1>2 DEF TypeOK, TBD
  <2>3. ver[n] # 1
    BY <1>1, <2>1, <2>2 DEF HistoryInv
  <2>4. Between(i, n, x)
    BY <1>1, <2>1, <2>2, <2>3 DEF Between
  <2> QED BY <1>5, <2>1, <2>2, <2>4
<1>7. x \in Node /\ target[x] = target[n] /\ 0 < ver[x] /\ ver[x] < ver[n]
  BY <1>3, <1>6 DEF LinkOK
<1>8. Stamped(x)
  BY <1>1, <1>7 DEF HistoryInv, TypeOK
<1>9. NewerHidden(x, s)
  <2> SUFFICES ASSUME NEW k \in Node, target[k] = target[x], ver[x] < ver[k]
               PROVE  born[k] > s \/ ts[k] > s
    BY DEF NewerHidden
  <2>0. ver[k] \in Nat /\ ver[n] \in Nat /\ ver[x] \in Nat
    BY <1>1, <1>7 DEF TypeOK
  <2>1. CASE ver[k] < ver[n]
    BY <1>1, <1>5, <1>7, <2>0, <2>1 DEF Between
  <2>2. CASE ver[k] = ver[n]
    BY <1>1, <1>7, <2>2 DEF HistoryInv
  <2>3. CASE ver[k] > ver[n]
    BY <1>2, <1>7, <2>3 DEF NewerHidden
  <2> QED BY <2>0, <2>1, <2>2, <2>3
<1> QED BY <1>1, <1>6, <1>7, <1>8, <1>9

LEMMA InitTSReadStep ==
    ASSUME IInv, NEW t \in Thread, InitTSRead(t)
    PROVE  IInv'
<1> USE NodeAssumption DEF IInv, InitTSRead, Goto
<1>1. TypeOK'
  <2>1. ret[t] \in Control /\ "initTSGet" \in Control
    BY DEF TypeOK, Control
  <2>2. pc' \in [Thread -> Control]
    BY <2>1 DEF TypeOK
  <2> QED BY <2>2 DEF TypeOK, CameraTypeOK, Reclaim!TypeOK, cameraVars, listVars, infoVars, reclaimerVars
<1>2. OnlyLocals(t)
  BY DEF OnlyLocals, SameLocals, TypeOK
<1>3. LocalOK(t)'
  <2>1. InInit(t) /\ HasNode(t) /\ LocalOK(t)
    BY DEF LocalInv, HasNode, InInit
  <2>2. CASE ts[node[t]] = TBD
    <3>1. /\ InInit(t)' /\ ret' = ret /\ HasNode(t)' /\ pc'[t] = "initTSGet"
          /\ HasInstalled(t)' = HasInstalled(t) /\ InCas(t)' = InCas(t)
      BY <2>1, <2>2 DEF InInit, HasNode, HasInstalled, InCas, TypeOK
    <3> QED BY <2>1, <3>1 DEF LocalOK, cameraVars, listVars, infoVars, reclaimerVars
  <2>3. CASE ts[node[t]] # TBD
    <3>1. pc'[t] = ret[t] /\ ret[t] \in {"got", "side", "spliceRead", "dedup", "return", "walk"}
      BY <2>1, <2>3 DEF LocalOK, TypeOK
    <3>2. ~ InInit(t)' /\ (HasNode(t)' => HasNode(t))
          /\ HasInstalled(t)' = HasInstalled(t) /\ InCas(t)' = InCas(t)
      BY <2>1, <3>1 DEF InInit, HasNode, HasInstalled, InCas
    <3>3. HasInstalled(t) => newV[t] = node[t]
      BY <2>1 DEF HasInstalled, InInit, LocalOK
    <3>4. Stamped(node[t])' /\ (HasInstalled(t) => Stamped(newV[t])')
      BY <2>3, <3>3 DEF Stamped, listVars
    <3> QED BY <2>1, <3>1, <3>2, <3>4 DEF LocalOK, cameraVars, listVars, infoVars, reclaimerVars
  <2> QED BY <2>2, <2>3
<1>4. ScanOK(t)'
  <2>1. InInit(t) /\ ret[t] \in {"got", "side", "spliceRead", "dedup", "return", "walk"}
    BY DEF LocalInv, LocalOK, InInit
  <2>2. pc'[t] \in {"initTSGet", ret[t]} /\ ret' = ret /\ node' = node /\ view' = view
    BY DEF TypeOK
  <2> QED BY <2>1, <2>2, UnchangedShared DEF ScanInv, ScanOK, Walking, InInit,
             cameraVars, listVars, infoVars, reclaimerVars
<1> QED BY <1>1, <1>2, <1>3, <1>4, LocalStep

LEMMA InitTSGetStep ==
    ASSUME IInv, NEW t \in Thread, InitTSGet(t)
    PROVE  IInv'
<1> USE NodeAssumption DEF IInv, InitTSGet, Goto
<1>1. TypeOK'
  BY DEF TypeOK, CameraTypeOK, Reclaim!TypeOK, Control, cameraVars, listVars, infoVars, reclaimerVars
<1>2. OnlyLocals(t)
  BY DEF OnlyLocals, SameLocals, TypeOK
<1>3. LocalOK(t)'
  <2>1. /\ InInit(t) /\ HasNode(t) /\ LocalOK(t)
        /\ node[t] \in Node /\ born[node[t]] <= timestamp
    BY DEF LocalInv, LocalOK, StampInv, HasNode, InInit
  <2>2. /\ InInit(t)' /\ HasNode(t)' /\ pc'[t] = "initTSCas" /\ curTS'[t] = timestamp
        /\ HasInstalled(t)' = HasInstalled(t) /\ InCas(t)' = InCas(t)
    BY <2>1 DEF InInit, HasNode, HasInstalled, InCas, TypeOK
  <2> QED BY <2>1, <2>2 DEF LocalOK, TypeOK, CameraTypeOK, cameraVars, listVars, infoVars, reclaimerVars
<1>4. ScanOK(t)'
  BY UnchangedShared DEF TypeOK, ScanInv, ScanOK, Walking, InInit, cameraVars, listVars, infoVars, reclaimerVars
<1> QED BY <1>1, <1>2, <1>3, <1>4, LocalStep

LEMMA GetStep ==
    ASSUME IInv, NEW t \in Thread, NEW o \in Obj, Get(t, o)
    PROVE  IInv'
<1> USE NodeAssumption DEF IInv, Get, Goto, CallInitTS
<1>1. TypeOK'
  BY DEF TypeOK, CameraTypeOK, Reclaim!TypeOK, Control, cameraVars, listVars, infoVars, reclaimerVars
<1>2. OnlyLocals(t)
  BY DEF OnlyLocals, SameLocals, TypeOK
<1>3. LocalOK(t)'
  BY UnchangedShared DEF HistoryInv, TypeOK, LocalInv, LocalOK, HasNode, InInit, InCas, HasInstalled, cameraVars, listVars, infoVars, reclaimerVars
<1>4. ScanOK(t)'
  BY UnchangedShared DEF TypeOK, ScanInv, ScanOK, Walking, InInit, cameraVars, listVars, infoVars, reclaimerVars
<1> QED BY <1>1, <1>2, <1>3, <1>4, LocalStep

LEMMA ReturnStep ==
    ASSUME IInv, NEW t \in Thread, Return(t)
    PROVE  IInv'
<1> USE NodeAssumption DEF IInv, Return, Goto, CallInitTS
<1>1. TypeOK'
  BY DEF TypeOK, CameraTypeOK, Reclaim!TypeOK, Control, cameraVars, listVars, infoVars, reclaimerVars
<1>2. OnlyLocals(t)
  BY DEF OnlyLocals, SameLocals, TypeOK
<1>3. LocalOK(t)'
  BY UnchangedShared DEF TypeOK, LocalInv, LocalOK, HasNode, InInit, InCas, HasInstalled, cameraVars, listVars, infoVars, reclaimerVars
<1>4. ScanOK(t)'
  BY UnchangedShared DEF TypeOK, ScanInv, ScanOK, Walking, InInit, cameraVars, listVars, infoVars, reclaimerVars
<1> QED BY <1>1, <1>2, <1>3, <1>4, LocalStep

LEMMA HelpStep ==
    ASSUME IInv, NEW t \in Thread, NEW n \in Node, Help(t, n)
    PROVE  IInv'
<1> USE NodeAssumption DEF IInv, Help, Goto, CallInitTS
<1>1. TypeOK'
  <2>1. target[n] \in Obj
    BY DEF ProposalInv, TypeOK
  <2>2. Left[target[n]] \in Obj
    BY <2>1
  <2> QED BY <2>2 DEF TypeOK, CameraTypeOK, Reclaim!TypeOK, Control, cameraVars, listVars, infoVars, reclaimerVars
<1>2. OnlyLocals(t)
  BY DEF OnlyLocals, SameLocals, TypeOK
<1>3. LocalOK(t)'
  BY UnchangedShared DEF ProposalInv, TypeOK, LocalInv, LocalOK, HasNode, InInit, InCas, HasInstalled, cameraVars, listVars, infoVars, reclaimerVars
<1>4. ScanOK(t)'
  BY UnchangedShared DEF TypeOK, ScanInv, ScanOK, Walking, InInit, cameraVars, listVars, infoVars, reclaimerVars
<1> QED BY <1>1, <1>2, <1>3, <1>4, LocalStep

LEMMA TestLeftStep ==
    ASSUME IInv, NEW t \in Thread, TestLeft(t)
    PROVE  IInv'
<1> USE NodeAssumption DEF IInv, TestLeft, Goto, CallInitTS
<1>1. TypeOK'
  <2>1. obj[t] \in Obj
    BY DEF LocalInv, LocalOK, InCas
  <2> QED BY <2>1 DEF TypeOK, CameraTypeOK, Reclaim!TypeOK, Control, cameraVars, listVars, infoVars, reclaimerVars
<1>2. OnlyLocals(t)
  BY DEF OnlyLocals, SameLocals, TypeOK
<1>3. LocalOK(t)'
  BY UnchangedShared DEF HistoryInv, TypeOK, LocalInv, LocalOK, HasNode, InInit, InCas, HasInstalled, cameraVars, listVars, infoVars, reclaimerVars
<1>4. ScanOK(t)'
  BY UnchangedShared DEF TypeOK, ScanInv, ScanOK, Walking, InInit, cameraVars, listVars, infoVars, reclaimerVars
<1> QED BY <1>1, <1>2, <1>3, <1>4, LocalStep

LEMMA TakeLeftStep ==
    ASSUME IInv, NEW t \in Thread, TakeLeft(t)
    PROVE  IInv'
<1> USE NodeAssumption DEF IInv, TakeLeft, Goto, CallInitTS
<1>1. TypeOK'
  BY DEF TypeOK, CameraTypeOK, Reclaim!TypeOK, Control, cameraVars, listVars, infoVars, reclaimerVars
<1>2. OnlyLocals(t)
  BY DEF OnlyLocals, SameLocals, TypeOK
<1>3. LocalOK(t)'
  BY UnchangedShared DEF TypeOK, LocalInv, LocalOK, HasNode, InInit, InCas, HasInstalled, cameraVars, listVars, infoVars, reclaimerVars
<1>4. ScanOK(t)'
  BY UnchangedShared DEF TypeOK, ScanInv, ScanOK, Walking, InInit, cameraVars, listVars, infoVars, reclaimerVars
<1> QED BY <1>1, <1>2, <1>3, <1>4, LocalStep

LEMMA TakeRightStep ==
    ASSUME IInv, NEW t \in Thread, TakeRight(t)
    PROVE  IInv'
<1> USE NodeAssumption DEF IInv, TakeRight, Goto, CallInitTS
<1>1. TypeOK'
  <2>1. obj[t] \in Obj
    BY DEF LocalInv, LocalOK, InCas
  <2> QED BY <2>1 DEF TypeOK, CameraTypeOK, Reclaim!TypeOK, Control, cameraVars, listVars, infoVars, reclaimerVars
<1>2. OnlyLocals(t)
  BY DEF OnlyLocals, SameLocals, TypeOK
<1>3. LocalOK(t)'
  <2>1. obj[t] \in Obj /\ LocalOK(t) /\ InCas(t)
    BY DEF LocalInv, LocalOK, InCas
  <2>2. CASE Right[obj[t]] = Null
    BY <2>2 DEF LocalOK, HasNode, InInit, InCas, HasInstalled, TypeOK
  <2>3. CASE Right[obj[t]] # Null
    <3>1. obj'[t] \in Obj /\ pc'[t] = "cas"
      BY <2>1, <2>3 DEF TypeOK
    <3> QED BY <2>1, <3>1 DEF LocalOK, HasNode, InInit, InCas, HasInstalled, infoVars
  <2> QED BY <2>2, <2>3
<1>4. ScanOK(t)'
  BY UnchangedShared DEF TypeOK, ScanInv, ScanOK, Walking, InInit, cameraVars, listVars, infoVars, reclaimerVars
<1> QED BY <1>1, <1>2, <1>3, <1>4, LocalStep

LEMMA ReadHeadStep ==
    ASSUME IInv, NEW t \in Thread, ReadHead(t)
    PROVE  IInv'
<1> USE NodeAssumption DEF IInv, ReadHead, Goto, CallInitTS
<1>1. TypeOK'
  <2>1. obj[t] \in Obj
    BY DEF LocalInv, LocalOK, InCas
  <2> QED BY <2>1 DEF TypeOK, CameraTypeOK, Reclaim!TypeOK, Control, cameraVars, listVars, infoVars, reclaimerVars
<1>2. OnlyLocals(t)
  BY DEF OnlyLocals, SameLocals, TypeOK
<1>3. LocalOK(t)'
  BY UnchangedShared DEF HistoryInv, TypeOK, LocalInv, LocalOK, HasNode, InInit, InCas, HasInstalled, cameraVars, listVars, infoVars, reclaimerVars
<1>4. ScanOK(t)'
  BY UnchangedShared DEF TypeOK, ScanInv, ScanOK, Walking, InInit, cameraVars, listVars, infoVars, reclaimerVars
<1> QED BY <1>1, <1>2, <1>3, <1>4, LocalStep

LEMMA SpliceReadStep ==
    ASSUME IInv, NEW t \in Thread, SpliceRead(t)
    PROVE  IInv'
<1> USE NodeAssumption DEF IInv, SpliceRead, Goto, CallInitTS
<1>1. TypeOK'
  BY DEF TypeOK, CameraTypeOK, Reclaim!TypeOK, Control, cameraVars, listVars, infoVars, reclaimerVars
<1>2. OnlyLocals(t)
  BY DEF OnlyLocals, SameLocals, TypeOK
<1>3. LocalOK(t)'
  <2>1. LocalOK(t) /\ node[t] \in Node /\ ver[node[t]] > 0 /\ Stamped(node[t]) /\ InCas(t)
    BY DEF LocalInv, LocalOK, HasNode, InInit, InCas
  <2>2. ~ InInit(t)' /\ HasNode(t)' /\ HasNode(t) /\ InCas(t)' /\ ~ HasInstalled(t)'
    BY DEF InInit, HasNode, InCas, HasInstalled, TypeOK
  <2>3. CASE nextv[node[t]] \in Node /\ ts[node[t]] = ts[nextv[node[t]]]
    <3>1. LinkOK(node[t], nextv[node[t]])
      BY <2>1 DEF LinkInv
    <3>2. pc'[t] = "spliceReadNext" /\ headNext'[t] = nextv[node[t]]
      BY <2>3 DEF TypeOK
    <3> QED BY <2>1, <2>2, <2>3, <3>1, <3>2, UnchangedShared DEF LocalOK, cameraVars, listVars, infoVars, reclaimerVars
  <2>4. CASE ~ (nextv[node[t]] \in Node /\ ts[node[t]] = ts[nextv[node[t]]])
    <3>1. pc'[t] = "compare"
      BY <2>4 DEF TypeOK
    <3> QED BY <2>1, <2>2, <3>1, UnchangedShared DEF LocalOK, cameraVars, listVars, infoVars, reclaimerVars
  <2> QED BY <2>3, <2>4
<1>4. ScanOK(t)'
  BY UnchangedShared DEF TypeOK, ScanInv, ScanOK, Walking, InInit, cameraVars, listVars, infoVars, reclaimerVars
<1> QED BY <1>1, <1>2, <1>3, <1>4, LocalStep

LEMMA SpliceReadNextStep ==
    ASSUME IInv, NEW t \in Thread, SpliceReadNext(t)
    PROVE  IInv'
<1> USE NodeAssumption DEF IInv, SpliceReadNext, Goto, CallInitTS
<1>1. TypeOK'
  <2>1. headNext[t] \in Node /\ ver[headNext[t]] > 0
    BY DEF LocalInv, LocalOK, LinkOK
  <2>2. nextv[headNext[t]] \in Node \cup {Null}
    BY <2>1 DEF LinkInv, TypeOK
  <2> QED BY <2>2 DEF TypeOK, CameraTypeOK, Reclaim!TypeOK, Control, cameraVars, listVars, infoVars, reclaimerVars
<1>2. OnlyLocals(t)
  BY DEF OnlyLocals, SameLocals, TypeOK
<1>3. LocalOK(t)'
  <2>1. /\ LocalOK(t) /\ headNext[t] \in Node
        /\ LinkOK(node[t], headNext[t]) /\ ts[headNext[t]] = ts[node[t]]
    BY DEF LocalInv, LocalOK
  <2>2. /\ ~ InInit(t)' /\ HasNode(t)' /\ HasNode(t) /\ InCas(t)' /\ InCas(t)
        /\ ~ HasInstalled(t)' /\ ~ InInit(t) /\ pc'[t] = "spliceWrite"
    BY DEF InInit, HasNode, InCas, HasInstalled, TypeOK
  <2>3. headNext'[t] = nextv[headNext[t]]
    BY DEF TypeOK
  <2>4. node[t] \in Node
    BY <2>1, <2>2 DEF LocalOK
  <2>5. LinkOK(headNext[t], nextv[headNext[t]]) /\ nextv[headNext[t]] \in Node \cup {Null}
    BY <2>1 DEF LinkInv, LinkOK, TypeOK
  <2>6. LinkOK(node[t], nextv[headNext[t]])
    BY <2>1, <2>4, <2>5, LinkCompose
  <2>7. PastReplaced(node[t], nextv[headNext[t]])
    BY <2>1, <2>4, <2>5 DEF PastReplaced, LinkOK, TypeOK
  <2> QED BY <2>1, <2>2, <2>3, <2>6, <2>7, UnchangedShared
          DEF LocalOK, PastReplaced, cameraVars, listVars, infoVars, reclaimerVars
<1>4. ScanOK(t)'
  BY UnchangedShared DEF TypeOK, ScanInv, ScanOK, Walking, InInit, cameraVars, listVars, infoVars, reclaimerVars
<1> QED BY <1>1, <1>2, <1>3, <1>4, LocalStep

LEMMA RejectStaleStep ==
    ASSUME IInv, NEW t \in Thread, RejectStale(t)
    PROVE  IInv'
<1> USE NodeAssumption DEF IInv, RejectStale, Goto, CallInitTS
<1>1. TypeOK'
  BY DEF TypeOK, CameraTypeOK, Reclaim!TypeOK, Control, cameraVars, listVars, infoVars, reclaimerVars
<1>2. OnlyLocals(t)
  BY DEF OnlyLocals, SameLocals, TypeOK
<1>3. LocalOK(t)'
  BY UnchangedShared DEF TypeOK, LocalInv, LocalOK, HasNode, InInit, InCas, HasInstalled, cameraVars, listVars, infoVars, reclaimerVars
<1>4. ScanOK(t)'
  BY UnchangedShared DEF TypeOK, ScanInv, ScanOK, Walking, InInit, cameraVars, listVars, infoVars, reclaimerVars
<1> QED BY <1>1, <1>2, <1>3, <1>4, LocalStep

LEMMA SwapFailsStep ==
    ASSUME IInv, NEW t \in Thread, SwapFails(t)
    PROVE  IInv'
<1> USE NodeAssumption DEF IInv, SwapFails, Goto, CallInitTS
<1>1. TypeOK'
  BY DEF TypeOK, CameraTypeOK, Reclaim!TypeOK, Control, cameraVars, listVars, infoVars, reclaimerVars
<1>2. OnlyLocals(t)
  BY DEF OnlyLocals, SameLocals, TypeOK
<1>3. LocalOK(t)'
  BY UnchangedShared DEF TypeOK, LocalInv, LocalOK, HasNode, InInit, InCas, HasInstalled, cameraVars, listVars, infoVars, reclaimerVars
<1>4. ScanOK(t)'
  BY UnchangedShared DEF TypeOK, ScanInv, ScanOK, Walking, InInit, cameraVars, listVars, infoVars, reclaimerVars
<1> QED BY <1>1, <1>2, <1>3, <1>4, LocalStep

LEMMA RereadHeadStep ==
    ASSUME IInv, NEW t \in Thread, RereadHead(t)
    PROVE  IInv'
<1> USE NodeAssumption DEF IInv, RereadHead, Goto, CallInitTS
<1>1. TypeOK'
  <2>1. obj[t] \in Obj
    BY DEF LocalInv, LocalOK, InCas
  <2> QED BY <2>1 DEF TypeOK, CameraTypeOK, Reclaim!TypeOK, Control, cameraVars, listVars, infoVars, reclaimerVars
<1>2. OnlyLocals(t)
  BY DEF OnlyLocals, SameLocals, TypeOK
<1>3. LocalOK(t)'
  BY UnchangedShared DEF HistoryInv, TypeOK, LocalInv, LocalOK, HasNode, InInit, InCas, HasInstalled, cameraVars, listVars, infoVars, reclaimerVars
<1>4. ScanOK(t)'
  BY UnchangedShared DEF TypeOK, ScanInv, ScanOK, Walking, InInit, cameraVars, listVars, infoVars, reclaimerVars
<1> QED BY <1>1, <1>2, <1>3, <1>4, LocalStep

LEMMA DedupReadStep ==
    ASSUME IInv, NEW t \in Thread, DedupRead(t)
    PROVE  IInv'
<1> USE NodeAssumption DEF IInv, DedupRead, Goto, CallInitTS
<1>1. TypeOK'
  <2>1. oldV[t] \in Node /\ ver[oldV[t]] > 0
    BY DEF LocalInv, LocalOK, InCas, ProposalInv
  <2>2. nextv[oldV[t]] \in Node \cup {Null}
    BY <2>1 DEF LinkInv, TypeOK
  <2>3. headNext' \in [Thread -> Node \cup {Null}] /\ pc' \in [Thread -> Control]
    BY <2>2 DEF TypeOK, Control
  <2> QED BY <2>3 DEF TypeOK, CameraTypeOK, Reclaim!TypeOK, cameraVars, listVars, infoVars, reclaimerVars
<1>2. OnlyLocals(t)
  BY DEF OnlyLocals, SameLocals, TypeOK
<1>3. LocalOK(t)'
  <2>1. /\ LocalOK(t) /\ InCas(t) /\ HasInstalled(t) /\ ~ InInit(t)
        /\ ~ InInit(t)' /\ ~ HasNode(t)' /\ InCas(t)' /\ HasInstalled(t)'
    BY DEF LocalInv, InInit, HasNode, InCas, HasInstalled, TypeOK
  <2>2. /\ newV[t] \in Node /\ oldV[t] \in Node /\ replaces[newV[t]] = oldV[t]
        /\ ver[newV[t]] > 0 /\ Stamped(newV[t])
    BY <2>1 DEF LocalOK
  <2>3. CASE ts[newV[t]] = ts[oldV[t]]
    <3>1. pc'[t] = "dedupWrite" /\ headNext'[t] = nextv[oldV[t]]
      BY <2>3 DEF TypeOK
    <3>2. ver[oldV[t]] > 0 /\ target[oldV[t]] = target[newV[t]] /\ ver[newV[t]] = ver[oldV[t]] + 1
      BY <2>2 DEF ProposalInv
    <3>3. LinkOK(newV[t], oldV[t])
      BY <2>2, <3>2 DEF LinkOK, Between, TypeOK
    <3>4. LinkOK(oldV[t], nextv[oldV[t]]) /\ nextv[oldV[t]] \in Node \cup {Null}
      BY <2>2, <3>2 DEF LinkInv, TypeOK
    <3>5. LinkOK(newV[t], nextv[oldV[t]])
      BY <2>2, <2>3, <3>3, <3>4, LinkCompose
    <3>6. PastReplaced(newV[t], nextv[oldV[t]])
      BY <2>2, <3>2, <3>4 DEF PastReplaced, LinkOK, TypeOK
    <3> QED BY <2>1, <3>1, <3>5, <3>6, UnchangedShared
            DEF LocalOK, PastReplaced, cameraVars, listVars, infoVars, reclaimerVars
  <2>4. CASE ts[newV[t]] # ts[oldV[t]]
    <3>1. pc'[t] = "retire"
      BY <2>4 DEF TypeOK
    <3> QED BY <2>1, <3>1, UnchangedShared DEF LocalOK, cameraVars, listVars, infoVars, reclaimerVars
  <2> QED BY <2>3, <2>4
<1>4. ScanOK(t)'
  BY UnchangedShared DEF TypeOK, ScanInv, ScanOK, Walking, InInit, cameraVars, listVars, infoVars, reclaimerVars
<1> QED BY <1>1, <1>2, <1>3, <1>4, LocalStep

LEMMA RetireTestStep ==
    ASSUME IInv, NEW t \in Thread, RetireTest(t)
    PROVE  IInv'
<1> USE NodeAssumption DEF IInv, RetireTest, Goto, CallInitTS
<1>1. TypeOK'
  BY DEF TypeOK, CameraTypeOK, Reclaim!TypeOK, Control, cameraVars, listVars, infoVars, reclaimerVars
<1>2. OnlyLocals(t)
  BY DEF OnlyLocals, SameLocals, TypeOK
<1>3. LocalOK(t)'
  BY UnchangedShared DEF TypeOK, LocalInv, LocalOK, HasNode, InInit, InCas, HasInstalled, cameraVars, listVars, infoVars, reclaimerVars
<1>4. ScanOK(t)'
  BY UnchangedShared DEF TypeOK, ScanInv, ScanOK, Walking, InInit, cameraVars, listVars, infoVars, reclaimerVars
<1> QED BY <1>1, <1>2, <1>3, <1>4, LocalStep

LEMMA ScanReadHeadStep ==
    ASSUME IInv, NEW t \in Thread, NEW o \in Obj, ScanReadHead(t, o)
    PROVE  IInv'
<1> USE NodeAssumption DEF IInv, ScanReadHead, Goto, CallInitTS
<1>1. TypeOK'
  BY DEF TypeOK, CameraTypeOK, Reclaim!TypeOK, Control, cameraVars, listVars, infoVars, reclaimerVars
<1>2. OnlyLocals(t)
  BY DEF OnlyLocals, SameLocals, TypeOK
<1>3. LocalOK(t)'
  BY UnchangedShared DEF HistoryInv, TypeOK, LocalInv, LocalOK, HasNode, InInit, InCas, HasInstalled, cameraVars, listVars, infoVars, reclaimerVars
<1>4. ScanOK(t)'
  <2>1. child[o] \in Node /\ NewerHidden(child[o], camTs[t])
    <3>1. child[o] \in Node /\ target[child[o]] = o
      BY DEF HistoryInv, TypeOK
    <3>2. \A k \in Node : target[k] = o => ~ (ver[child[o]] < ver[k])
      <4> SUFFICES ASSUME NEW k \in Node, target[k] = o, ver[child[o]] < ver[k] PROVE FALSE
        OBVIOUS
      <4>1. ver[k] \in Nat /\ ver[child[o]] \in Nat
        BY <3>1 DEF TypeOK
      <4>2. ver[k] > 0 => ver[k] <= ver[child[o]]
        BY DEF HistoryInv
      <4> QED BY <4>1, <4>2
    <3> QED BY <3>1, <3>2 DEF NewerHidden
  <2>2. node'[t] = child[o]
    BY DEF TypeOK
  <2> QED BY <2>1, <2>2, UnchangedShared DEF TypeOK, ScanInv, ScanOK, Walking, InInit, cameraVars, listVars, infoVars, reclaimerVars
<1> QED BY <1>1, <1>2, <1>3, <1>4, LocalStep

LEMMA WalkStep ==
    ASSUME IInv, NEW t \in Thread, Walk(t)
    PROVE  IInv'
<1> USE NodeAssumption DEF IInv, Walk, Goto, CallInitTS
<1>1. TypeOK'
  <2>1. nextv[node[t]] \in Node
    BY WalkFinds
  <2> QED BY <2>1 DEF TypeOK, CameraTypeOK, Reclaim!TypeOK, Control, cameraVars, listVars, infoVars, reclaimerVars
<1>2. OnlyLocals(t)
  BY DEF OnlyLocals, SameLocals, TypeOK
<1>3. LocalOK(t)'
  <2>1. /\ nextv[node[t]] \in Node /\ target[nextv[node[t]]] = obj[t]
        /\ ver[nextv[node[t]]] > 0 /\ Stamped(nextv[node[t]])
    BY WalkFinds
  <2>2. node'[t] = nextv[node[t]]
    BY DEF TypeOK
  <2> QED BY <2>1, <2>2, UnchangedShared
          DEF LocalInv, LocalOK, HasNode, InInit, InCas, HasInstalled, cameraVars, listVars, infoVars, reclaimerVars
<1>4. ScanOK(t)'
  <2>1. nextv[node[t]] \in Node /\ NewerHidden(nextv[node[t]], camTs[t]) /\ node'[t] = nextv[node[t]]
    BY WalkFinds DEF TypeOK
  <2> QED BY <2>1, UnchangedShared DEF ScanInv, ScanOK, Walking, InInit, cameraVars, listVars, infoVars, reclaimerVars
<1> QED BY <1>1, <1>2, <1>3, <1>4, LocalStep

LEMMA WalkEndsStep ==
    ASSUME IInv, NEW t \in Thread, WalkEnds(t)
    PROVE  IInv'
<1> USE NodeAssumption DEF IInv, WalkEnds, Goto, CallInitTS
<1>1. TypeOK'
  BY DEF TypeOK, CameraTypeOK, Reclaim!TypeOK, Control, cameraVars, listVars, infoVars, reclaimerVars
<1>2. OnlyLocals(t)
  BY DEF OnlyLocals, SameLocals, TypeOK
<1>3. LocalOK(t)'
  BY UnchangedShared DEF TypeOK, LocalInv, LocalOK, HasNode, InInit, InCas, HasInstalled, cameraVars, listVars, infoVars, reclaimerVars
<1>4. ScanOK(t)'
  <2>1. /\ node[t] \in Node /\ target[node[t]] = obj[t] /\ ver[node[t]] > 0
        /\ Stamped(node[t]) /\ obj[t] \in Obj
    BY DEF LocalInv, LocalOK, HasNode, InInit
  <2>2. camPc[t] = "taken" /\ NewerHidden(node[t], camTs[t])
    BY DEF ScanInv, ScanOK, Walking
  <2>3. ts[node[t]] <= camTs[t]
    <3>1. ts[node[t]] \in Int /\ camTs[t] \in Int /\ node[t] # Null
      BY <2>1 DEF TypeOK, CameraTypeOK, TBD
    <3> QED BY <3>1 DEF Younger
  <2>4. pc'[t] = "scan" /\ \A o \in Obj : view'[t][o] = IF o = obj[t] THEN node[t] ELSE view[t][o]
    BY <2>1 DEF TypeOK
  <2> QED BY <2>1, <2>2, <2>3, <2>4, UnchangedShared DEF ScanInv, ScanOK, Walking, InInit, cameraVars, listVars, infoVars, reclaimerVars
<1> QED BY <1>1, <1>2, <1>3, <1>4, LocalStep
-----------------------------------------------------------------------------
(* Steps that change what is shared.                                       *)

\* What is left to show of such a step: how it changes the lists, and what
\* the thread that takes it knows afterwards.
LEMMA SharedStep ==
    ASSUME IInv, TypeOK', NEW t \in Thread, Evolves, CameraInv',
           HistoryInv', ProposalInv', StampInv', LinkInv', ReclaimInv',
           \A u \in Thread \ {t} : SameLocals(u) /\ SameScan(u),
           LocalOK(t)', ScanOK(t)'
    PROVE  IInv'
<1> USE DEF IInv
<1>1. LocalInv'
  BY LocalStable DEF LocalInv
<1>2. ScanInv'
  BY ScanStable DEF ScanInv
<1> QED BY <1>1, <1>2

\* Links that nobody wrote stay good.
LEMMA LinksStable ==
    ASSUME IInv, TypeOK', Evolves, NEW S \in SUBSET Node,
           \A n \in S : ver'[n] = ver[n] /\ nextv'[n] = nextv[n]
    PROVE  \A n \in S : ver'[n] > 0 => nextv'[n] # Dummy /\ LinkOK(n, nextv[n])'
<1> USE DEF IInv
<1> SUFFICES ASSUME NEW n \in S, ver'[n] > 0
             PROVE  nextv'[n] # Dummy /\ LinkOK(n, nextv[n])'
  OBVIOUS
<1>1. ver[n] > 0 /\ nextv[n] \in Node \cup {Null} /\ LinkOK(n, nextv[n]) /\ nextv[n] # Dummy
  BY DEF LinkInv, TypeOK
<1>2. \A x \in Node \cup {Null} : LinkOK(n, x) => LinkOK(n, x)'
  BY <1>1, LinkStable
<1> QED BY <1>1, <1>2

\* Writing a good link into one node.
LEMMA LinkWrite ==
    ASSUME IInv, TypeOK', Evolves, ver' = ver,
           NEW a \in Node, NEW x \in Node \cup {Null},
           nextv' = [nextv EXCEPT ![a] = x], ver[a] > 0 => LinkOK(a, x)'
    PROVE  LinkInv'
<1> USE DEF IInv
<1>1. \A n \in Node \ {a} : ver'[n] > 0 => nextv'[n] # Dummy /\ LinkOK(n, nextv[n])'
  <2>1. \A n \in Node \ {a} : ver'[n] = ver[n] /\ nextv'[n] = nextv[n]
    BY DEF TypeOK
  <2> QED BY <2>1, LinksStable
<1>2. nextv'[a] = x /\ x # Dummy
  BY NodeAssumption DEF TypeOK
<1> QED BY <1>1, <1>2 DEF LinkInv

LEMMA InitTSCasStep ==
    ASSUME IInv, NEW t \in Thread, InitTSCas(t)
    PROVE  IInv'
<1> USE NodeAssumption DEF IInv, InitTSCas, Goto
<1>1. /\ InInit(t) /\ HasNode(t) /\ node[t] \in Node /\ ver[node[t]] > 0
      /\ target[node[t]] = obj[t] /\ obj[t] \in Obj
      /\ born[node[t]] <= curTS[t] /\ curTS[t] <= timestamp /\ curTS[t] \in Nat
      /\ ret[t] \in {"got", "side", "spliceRead", "dedup", "return", "walk"}
  BY DEF LocalInv, LocalOK, HasNode, InInit, TypeOK
<1>2. \A n \in Node : ts'[n] = IF n = node[t] /\ ts[n] = TBD THEN curTS[t] ELSE ts[n]
  BY <1>1 DEF TypeOK
<1>3. TypeOK'
  <2>1. ts' \in [Node -> Nat \cup {TBD}] /\ curTS' \in [Thread -> Nat] /\ pc' \in [Thread -> Control]
    BY <1>1 DEF TypeOK
  <2> QED BY <2>1 DEF TypeOK, CameraTypeOK, Reclaim!TypeOK, cameraVars, infoVars, reclaimerVars
<1>4. Evolves
  BY <1>2 DEF Evolves, Stamped, TypeOK, CameraTypeOK, cameraVars, infoVars, reclaimerVars
<1>5. CameraInv'
  BY DEF CameraInv, cameraVars
<1>6. \A n \in Node : Stamped(n) => Stamped(n)'
  BY <1>2 DEF Stamped
<1>7. HistoryInv'
  BY <1>6 DEF HistoryInv, infoVars
<1>8. ProposalInv'
  BY <1>1, <1>2, <1>6 DEF ProposalInv, Stamped, infoVars, TBD
<1>9. StampInv'
  <2>1. \A n \in Node : ts'[n] <= timestamp /\ born[n] <= timestamp
    BY <1>1, <1>2 DEF StampInv
  <2>2. \A n \in Node : Stamped(n)' => born[n] <= ts'[n]
    BY <1>1, <1>2 DEF StampInv, Stamped
  <2>3. ASSUME NEW n \in Node, NEW m \in Node, target[n] = target[m], 0 < ver[n], ver[n] < ver[m]
        PROVE  ts'[n] <= born[m]
    <3>1. Stamped(n)
      <4>1. ver[n] > 0 /\ ver[m] > 0 /\ ver[n] \in Nat /\ ver[m] \in Nat
        BY <2>3 DEF TypeOK
      <4>2. ver[m] <= ver[child[target[n]]]
        BY <2>3, <4>1 DEF HistoryInv
      <4>3. n # child[target[n]]
        BY <2>3, <4>1, <4>2
      <4> QED BY <4>1, <4>3 DEF HistoryInv
    <3>2. ts'[n] = ts[n]
      BY <1>2, <3>1 DEF Stamped
    <3> QED BY <2>3, <3>2 DEF StampInv
  <2> QED BY <2>1, <2>2, <2>3 DEF cameraVars, infoVars, StampInv
<1>10. LinkInv'
  BY <1>3, <1>4, LinksStable DEF LinkInv
<1>11. ReclaimInv'
  BY <1>2, <1>6 DEF ReclaimInv, Stamped, cameraVars, reclaimerVars
<1>12. \A u \in Thread \ {t} : SameLocals(u) /\ SameScan(u)
  BY DEF SameLocals, SameScan, Walking, InInit, TypeOK, cameraVars, reclaimerVars
<1>13. LocalOK(t)'
  <2>1. /\ pc'[t] = ret[t] /\ ~ InInit(t)' /\ (HasNode(t)' => HasNode(t))
        /\ HasInstalled(t)' = HasInstalled(t) /\ InCas(t)' = InCas(t)
    BY <1>1 DEF InInit, HasNode, HasInstalled, InCas, TypeOK
  <2>2. HasInstalled(t) => newV[t] = node[t]
    BY <1>1 DEF HasInstalled, InInit, LocalInv, LocalOK
  <2>3. Stamped(node[t])' /\ (HasInstalled(t) => Stamped(newV[t])')
    BY <1>1, <1>2, <2>2 DEF Stamped, TBD
  <2> QED BY <1>1, <2>1, <2>2, <2>3 DEF LocalInv, LocalOK, infoVars
<1>14. ScanOK(t)'
  <2>1. SameScan(t)
    BY <1>1 DEF SameScan, Walking, InInit, TypeOK, cameraVars, reclaimerVars
  <2> QED BY <1>3, <1>4, <2>1, ScanStable DEF ScanInv
<1> QED BY <1>3, <1>4, <1>5, <1>7, <1>8, <1>9, <1>10, <1>11, <1>12, <1>13, <1>14, SharedStep

LEMMA ProposeStep ==
    ASSUME IInv, NEW t \in Thread, NEW n \in Node, Propose(t, n)
    PROVE  IInv'
<1> USE NodeAssumption DEF IInv, Propose, Goto
<1>1. /\ HasNode(t) /\ ~ InInit(t) /\ node[t] \in Node /\ ver[node[t]] > 0
      /\ target[node[t]] = obj[t] /\ obj[t] \in Obj /\ Stamped(node[t])
  BY DEF LocalInv, LocalOK, HasNode, InInit
<1>2. ver[n] = 0 /\ replaces[n] = Null /\ nextv[n] = Dummy
  BY DEF HistoryInv, ProposalInv, TypeOK
<1>3. \A m \in Node : target'[m] = IF m = n THEN obj[t] ELSE target[m]
  BY DEF TypeOK
<1>3a. \A m \in Node : replaces'[m] = IF m = n THEN node[t] ELSE replaces[m]
  BY DEF TypeOK
<1>4. TypeOK'
  BY <1>1 DEF TypeOK, CameraTypeOK, Reclaim!TypeOK, Control, cameraVars, listVars, reclaimerVars
<1>5. Evolves
  BY <1>2, <1>3, <1>3a DEF Evolves, Stamped, TypeOK, CameraTypeOK, cameraVars, listVars, reclaimerVars
<1>6. CameraInv'
  BY DEF CameraInv, cameraVars
<1>7. HistoryInv'
  BY <1>2, <1>3, <1>3a DEF HistoryInv, Stamped, listVars, TypeOK
<1>8. ProposalInv'
  <2>1. \A m \in Node : /\ ver'[m] = ver[m] /\ ts'[m] = ts[m] /\ nextv'[m] = nextv[m]
    BY DEF listVars
  <2>2. \A m \in Node : replaces[m] # n
    BY <1>2 DEF ProposalInv
  <2>3. node[t] # n /\ node[t] # Null /\ obj[t] # Null
    BY <1>1, <1>2
  <2>4. ASSUME NEW m \in Node
        PROVE  /\ replaces'[m] # Null =>
                     /\ target'[m] # Null
                     /\ target'[replaces'[m]] = target'[m]
                     /\ ver[replaces'[m]] > 0
                     /\ Stamped(replaces'[m])
                     /\ ver[m] > 0 => ver[m] = ver[replaces'[m]] + 1
               /\ replaces'[m] = Null /\ ver[m] > 0 => ver[m] = 1 /\ ts[m] = 0
               /\ replaces'[m] = Null /\ ver[m] = 0 => target'[m] = Null
               /\ ver[m] = 0 => ~ Stamped(m) /\ (nextv[m] = Dummy \/ (replaces'[m] # Null /\ nextv[m] = replaces'[m]))
    <3>1. CASE m = n
      BY <1>1, <1>2, <1>3, <1>3a, <2>3, <3>1 DEF ProposalInv
    <3>2. CASE m # n
      <4>1. target'[m] = target[m] /\ replaces'[m] = replaces[m]
        BY <1>3, <1>3a, <3>2
      <4>2. replaces[m] # Null => target'[replaces[m]] = target[replaces[m]]
        BY <1>3, <2>2 DEF TypeOK
      <4> QED BY <4>1, <4>2 DEF ProposalInv
    <3> QED BY <3>1, <3>2
  <2> QED BY <2>1, <2>4 DEF ProposalInv, Stamped, listVars
<1>9. StampInv'
  BY <1>2, <1>3, <1>3a DEF StampInv, Stamped, listVars, cameraVars, TypeOK
<1>10. LinkInv'
  BY <1>4, <1>5, LinksStable DEF LinkInv, listVars
<1>11. ReclaimInv'
  BY DEF ReclaimInv, Stamped, cameraVars, listVars, reclaimerVars
<1>12. \A u \in Thread \ {t} : SameLocals(u) /\ SameScan(u)
  BY DEF SameLocals, SameScan, Walking, InInit, TypeOK, cameraVars, reclaimerVars
<1>13. LocalOK(t)'
  BY <1>1, <1>2, <1>3, <1>3a DEF LocalInv, LocalOK, HasNode, InInit, InCas, HasInstalled, TypeOK
<1>14. ScanOK(t)'
  <2>1. SameScan(t)
    BY DEF SameScan, Walking, InInit, TypeOK, cameraVars, reclaimerVars
  <2> QED BY <1>4, <1>5, <2>1, ScanStable DEF ScanInv
<1> QED BY <1>4, <1>5, <1>6, <1>7, <1>8, <1>9, <1>10, <1>11, <1>12, <1>13, <1>14, SharedStep

\* The three writers of nextv inside compareAndSet.  Each writes into a node
\* that is either not installed or gets a good link.
LEMMA NextvStep ==
    ASSUME IInv, NEW t \in Thread, NEW a \in Node, NEW x \in Node \cup {Null},
           nextv' = [nextv EXCEPT ![a] = x],
           ver[a] > 0 => LinkOK(a, x),
           ver[a] = 0 => replaces[a] # Null /\ x = replaces[a],
           UNCHANGED <<cameraVars, child, ts, ver, born, infoVars, reclaimerVars>>,
           TypeOK', \A u \in Thread \ {t} : SameLocals(u) /\ view'[u] = view[u],
           LocalOK(t)', SameScan(t)
    PROVE  IInv'
<1> USE NodeAssumption DEF IInv
<1>1. Evolves
  BY DEF Evolves, TypeOK, CameraTypeOK, cameraVars, infoVars, reclaimerVars
<1>2. CameraInv'
  BY DEF CameraInv, cameraVars
<1>3. HistoryInv' /\ StampInv'
  BY DEF HistoryInv, StampInv, Stamped, cameraVars, infoVars
<1>4. ProposalInv'
  <2>1. \A n \in Node : nextv'[n] = IF n = a THEN x ELSE nextv[n]
    BY DEF TypeOK
  <2> QED BY <2>1 DEF ProposalInv, Stamped, infoVars
<1>5. LinkInv'
  <2>1. ver[a] > 0 => LinkOK(a, x)'
    BY <1>1, LinkStable
  <2> QED BY <1>1, <2>1, LinkWrite
<1>6. ReclaimInv'
  BY DEF ReclaimInv, Stamped, cameraVars, reclaimerVars
<1>7. \A u \in Thread \ {t} : SameLocals(u) /\ SameScan(u)
  BY DEF SameLocals, SameScan, Walking, InInit, cameraVars, reclaimerVars
<1>8. ScanOK(t)'
  BY <1>1, ScanStable DEF ScanInv
<1> QED BY <1>1, <1>2, <1>3, <1>4, <1>5, <1>6, <1>7, <1>8, SharedStep

LEMMA SpliceWriteStep ==
    ASSUME IInv, NEW t \in Thread, SpliceWrite(t)
    PROVE  IInv'
<1> USE NodeAssumption DEF IInv, SpliceWrite, Goto
<1>1. /\ HasNode(t) /\ ~ InInit(t) /\ InCas(t) /\ ~ HasInstalled(t) /\ node[t] \in Node
      /\ ver[node[t]] > 0 /\ LinkOK(node[t], headNext[t]) /\ LocalOK(t)
  BY DEF LocalInv, LocalOK, HasNode, InInit, InCas, HasInstalled
<1>2. headNext[t] \in Node \cup {Null} /\ ver[node[t]] # 0
  BY <1>1 DEF TypeOK
<1>3. TypeOK'
  BY <1>1 DEF TypeOK, CameraTypeOK, Reclaim!TypeOK, Control, cameraVars, infoVars, reclaimerVars
<1>4. \A u \in Thread \ {t} : SameLocals(u) /\ view'[u] = view[u]
  BY DEF SameLocals, TypeOK
<1>5. LocalOK(t)'
  <2>1. /\ ~ InInit(t)' /\ HasNode(t)' /\ InCas(t)' /\ ~ HasInstalled(t)' /\ pc'[t] = "compare"
    BY DEF HasNode, InInit, InCas, HasInstalled, TypeOK
  <2> QED BY <1>1, <2>1 DEF LocalOK, Stamped, infoVars
<1>6. SameScan(t)
  BY DEF SameScan, Walking, InInit, TypeOK, cameraVars, reclaimerVars
<1> QED BY <1>1, <1>2, <1>3, <1>4, <1>5, <1>6, NextvStep

LEMMA DedupWriteStep ==
    ASSUME IInv, NEW t \in Thread, DedupWrite(t)
    PROVE  IInv'
<1> USE NodeAssumption DEF IInv, DedupWrite, Goto
<1>1. /\ ~ InInit(t) /\ InCas(t) /\ HasInstalled(t) /\ newV[t] \in Node
      /\ ver[newV[t]] > 0 /\ LinkOK(newV[t], headNext[t]) /\ LocalOK(t)
  BY DEF LocalInv, LocalOK, InInit, InCas, HasInstalled
<1>2. headNext[t] \in Node \cup {Null} /\ ver[newV[t]] # 0
  BY <1>1 DEF TypeOK
<1>3. TypeOK'
  BY <1>1 DEF TypeOK, CameraTypeOK, Reclaim!TypeOK, Control, cameraVars, infoVars, reclaimerVars
<1>4. \A u \in Thread \ {t} : SameLocals(u) /\ view'[u] = view[u]
  BY DEF SameLocals, TypeOK
<1>5. LocalOK(t)'
  <2>1. /\ ~ InInit(t)' /\ ~ HasNode(t)' /\ InCas(t)' /\ HasInstalled(t)' /\ pc'[t] = "retire"
    BY DEF HasNode, InInit, InCas, HasInstalled, TypeOK
  <2> QED BY <1>1, <2>1 DEF LocalOK, Stamped, infoVars
<1>6. SameScan(t)
  BY DEF SameScan, Walking, InInit, TypeOK, cameraVars, reclaimerVars
<1> QED BY <1>1, <1>2, <1>3, <1>4, <1>5, <1>6, NextvStep

LEMMA LinkStep ==
    ASSUME IInv, NEW t \in Thread, Link(t)
    PROVE  IInv'
<1> USE NodeAssumption DEF IInv, Link, Goto
<1>1. /\ HasNode(t) /\ ~ InInit(t) /\ InCas(t) /\ ~ HasInstalled(t) /\ LocalOK(t)
      /\ newV[t] \in Node /\ oldV[t] \in Node /\ replaces[newV[t]] = oldV[t]
  BY DEF LocalInv, LocalOK, HasNode, InInit, InCas, HasInstalled
<1>2. pc'[t] = "swap" /\ ~ InInit(t)' /\ HasNode(t)' /\ InCas(t)' /\ ~ HasInstalled(t)'
  BY DEF HasNode, InInit, InCas, HasInstalled, TypeOK
<1>3. \A u \in Thread \ {t} : SameLocals(u) /\ view'[u] = view[u]
  BY DEF SameLocals, TypeOK
<1>4. SameScan(t)
  BY DEF SameScan, Walking, InInit, TypeOK, cameraVars, reclaimerVars
<1>5. nextv'[newV[t]] # Dummy
  BY <1>1 DEF TypeOK
<1>6. LocalOK(t)'
  BY <1>1, <1>2, <1>5 DEF LocalOK, Stamped, infoVars
<1>7. TypeOK'
  BY <1>1 DEF TypeOK, CameraTypeOK, Reclaim!TypeOK, Control, cameraVars, infoVars, reclaimerVars
<1>8. CASE nextv[newV[t]] = Dummy
  <2>1. ver[newV[t]] = 0
    BY <1>1, <1>8 DEF LinkInv, TypeOK
  <2>2. nextv' = [nextv EXCEPT ![newV[t]] = oldV[t]]
    BY <1>8
  <2>3. UNCHANGED <<cameraVars, child, ts, ver, born, infoVars, reclaimerVars>>
    OBVIOUS
  <2>4. /\ ver[newV[t]] > 0 => LinkOK(newV[t], oldV[t])
        /\ replaces[newV[t]] # Null /\ oldV[t] = replaces[newV[t]]
    BY <1>1, <2>1
  <2> HIDE DEF IInv, Link
  <2> QED BY <1>1, <1>3, <1>4, <1>6, <1>7, <2>2, <2>3, <2>4, NextvStep
<1>9. CASE nextv[newV[t]] # Dummy
  <2>1. UNCHANGED <<cameraVars, listVars, infoVars, reclaimerVars>>
    BY <1>9 DEF listVars
  <2>2. OnlyLocals(t)
    BY <1>3, <2>1 DEF OnlyLocals
  <2>3. ScanOK(t)'
    <3>1. Evolves
      BY <2>1 DEF Evolves, TypeOK, CameraTypeOK, cameraVars, listVars, infoVars, reclaimerVars
    <3> QED BY <1>4, <1>7, <3>1, ScanStable DEF ScanInv
  <2> QED BY <1>6, <1>7, <2>2, <2>3, LocalStep
<1> QED BY <1>8, <1>9

\* Node.reclaim cuts the list behind a version that no scan will pass.
LEMMA ReclaimNodeStep ==
    ASSUME IInv, NEW n \in Node, ReclaimNode(n)
    PROVE  IInv'
<1> USE NodeAssumption DEF IInv, ReclaimNode, Reclaim!Reclaim
<1>1. \A m \in Node : stage'[m] = IF m = n THEN "reclaimed" ELSE stage[m]
  BY DEF TypeOK, Reclaim!TypeOK
<1>2. TypeOK'
  BY DEF TypeOK, CameraTypeOK, Reclaim!TypeOK, cameraVars, infoVars, localVars
<1>3. ver[n] > 0 /\ Stamped(n)
  BY DEF ReclaimInv
<1>4. Evolves
  <2>1. \A m \in Node : nextv[m] # Dummy => nextv'[m] # Dummy
    BY DEF TypeOK
  <2>2. \A m \in Node : stage[m] = "reclaimed" => stage'[m] = "reclaimed"
    BY <1>1
  <2> QED BY <2>1, <2>2 DEF Evolves, TypeOK, CameraTypeOK, cameraVars, infoVars
<1>5. CameraInv'
  BY DEF CameraInv, cameraVars
<1>6. HistoryInv' /\ StampInv'
  BY DEF HistoryInv, StampInv, Stamped, cameraVars, infoVars
<1>7. ProposalInv'
  <2>1. \A m \in Node : ver[m] = 0 => nextv'[m] = nextv[m]
    BY <1>3 DEF TypeOK
  <2> QED BY <2>1 DEF ProposalInv, Stamped, infoVars
<1>8. LinkInv'
  <2>1. LinkOK(n, Null)'
    BY <1>1 DEF LinkOK, cameraVars, infoVars
  <2> QED BY <1>2, <1>4, <2>1, LinkWrite
<1>9. ReclaimInv'
  BY <1>1 DEF ReclaimInv, Stamped, cameraVars
<1>10. \A u \in Thread : SameLocals(u) /\ SameScan(u)
  BY DEF SameLocals, SameScan, Walking, InInit, cameraVars, localVars
<1>11. LocalInv'
  BY <1>2, <1>4, <1>10, LocalStable DEF LocalInv
<1>12. ScanInv'
  BY <1>2, <1>4, <1>10, ScanStable DEF ScanInv
<1> QED BY <1>2, <1>5, <1>6, <1>7, <1>8, <1>9, <1>11, <1>12

\* The CAS on the child succeeds: the old head was stamped, so the stamp that
\* the new one will get cannot be smaller; and newV was never installed.
LEMMA SwapStep ==
    ASSUME IInv, NEW t \in Thread, Swap(t)
    PROVE  IInv'
<1> DEFINE n == newV[t]
           old == oldV[t]
           o == obj[t]
<1> USE NodeAssumption DEF IInv
<1>1. /\ LocalOK(t) /\ node[t] = old /\ nextv[n] # Dummy /\ n \in Node /\ old \in Node
      /\ o \in Obj /\ target[n] = o /\ replaces[n] = old /\ child[o] = old
  BY DEF Swap, LocalInv, LocalOK, InCas, HasNode, InInit, ProposalInv
<1>2. ver[old] > 0 /\ Stamped(old) /\ target[old] = o /\ ver[old] \in Nat
  BY <1>1 DEF ProposalInv, TypeOK
<1>3. ver[n] = 0
  <2>1. ver[n] > 0 => ver[n] = ver[old] + 1 /\ ver[n] <= ver[old]
    BY <1>1 DEF ProposalInv, HistoryInv
  <2> QED BY <1>1, <1>2, <2>1 DEF TypeOK
<1>4. n # old /\ nextv[n] = old /\ ~ Stamped(n)
  BY <1>1, <1>2, <1>3 DEF ProposalInv
<1>5. \A m \in Node : /\ ver'[m] = IF m = n THEN ver[old] + 1 ELSE ver[m]
                      /\ born'[m] = IF m = n THEN timestamp ELSE born[m]
  BY <1>1 DEF Swap, TypeOK
<1>6. \A p \in Obj : child'[p] = IF p = o THEN n ELSE child[p]
  BY <1>1 DEF Swap, TypeOK
<1>7. \A m \in Node : target[m] = o /\ ver[m] > 0 => ver[m] <= ver[old]
  BY <1>1 DEF HistoryInv
<1>8. UNCHANGED <<cameraVars, ts, nextv, infoVars, reclaimerVars>>
  BY DEF Swap
<1>9. TypeOK'
  BY <1>1, <1>2 DEF Swap, CallInitTS, Goto, TypeOK, CameraTypeOK, Reclaim!TypeOK, Control,
                    cameraVars, infoVars, reclaimerVars
<1>10. Evolves
  <2>1. ASSUME NEW m \in Node, ver[m] = 0, ver'[m] > 0
        PROVE  /\ born'[m] = timestamp /\ target[m] # Null
               /\ \A k \in Node : target[k] = target[m] /\ ver[k] > 0 => ver[k] < ver'[m]
    <3>1. m = n
      BY <1>5, <2>1
    <3>2. \A k \in Node : ver[k] \in Nat
      BY DEF TypeOK
    <3> QED BY <1>1, <1>2, <1>5, <1>7, <3>1, <3>2
  <2>2. \A m \in Node : ver[m] > 0 => ver'[m] = ver[m] /\ born'[m] = born[m]
    BY <1>3, <1>5
  <2> QED BY <1>8, <2>1, <2>2 DEF Evolves, TypeOK, CameraTypeOK, cameraVars, infoVars, reclaimerVars
<1>11. CameraInv'
  BY <1>8 DEF CameraInv, cameraVars
<1>12. HistoryInv'
  <2>1. \A p \in Obj : target[child'[p]] = p /\ ver'[child'[p]] > 0
    BY <1>1, <1>2, <1>5, <1>6 DEF HistoryInv, TypeOK
  <2>2. \A p \in Obj : target[Initial[p]] = p /\ ver'[Initial[p]] > 0 /\ replaces[Initial[p]] = Null
    BY <1>3, <1>5 DEF HistoryInv
  <2>3. ASSUME NEW m \in Node, ver'[m] > 0
        PROVE  /\ target[m] # Null
               /\ ver'[m] <= ver'[child'[target[m]]]
               /\ m # child'[target[m]] => Stamped(m)
    <3>1. CASE m = n
      BY <1>1, <1>2, <1>5, <1>6, <3>1
    <3>2. CASE m # n /\ target[m] = o
      <4>1. ver[m] > 0 /\ ver[m] <= ver[old] /\ ver'[m] = ver[m] /\ ver[m] \in Nat
        BY <1>5, <1>7, <2>3, <3>2 DEF TypeOK
      <4>2. m # old => Stamped(m)
        BY <1>1, <3>2, <4>1 DEF HistoryInv
      <4> QED BY <1>1, <1>2, <1>5, <1>6, <3>2, <4>1, <4>2
    <3>3. CASE m # n /\ target[m] # o
      <4>1. ver[m] > 0 /\ target[m] \in Obj
        BY <1>5, <2>3, <3>3 DEF HistoryInv, TypeOK
      <4>2. child'[target[m]] = child[target[m]] /\ child[target[m]] # n /\ child[target[m]] \in Node
        BY <1>1, <1>6, <3>3, <4>1 DEF HistoryInv, TypeOK
      <4> QED BY <1>5, <3>3, <4>1, <4>2 DEF HistoryInv
    <3> QED BY <3>1, <3>2, <3>3
  <2>4. ASSUME NEW m \in Node, NEW k \in Node, ver'[m] > 0, ver'[m] = ver'[k], target[m] = target[k]
        PROVE  m = k
    <3>1. \A j \in Node : j # n /\ target[j] = o /\ ver'[j] > 0 => ver'[j] < ver[old] + 1
      BY <1>2, <1>5, <1>7 DEF TypeOK
    <3>2. ver'[n] = ver[old] + 1
      BY <1>1, <1>5
    <3>3. CASE m = n \/ k = n
      BY <1>1, <1>2, <2>4, <3>1, <3>2, <3>3
    <3>4. CASE m # n /\ k # n
      BY <1>5, <2>4, <3>4 DEF HistoryInv
    <3> QED BY <3>3, <3>4
  <2> QED BY <1>8, <2>1, <2>2, <2>3, <2>4 DEF HistoryInv, Stamped, infoVars
<1>13. ProposalInv'
  <2>1. ASSUME NEW m \in Node, replaces[m] # Null
        PROVE  /\ ver'[replaces[m]] = ver[replaces[m]] /\ ver[replaces[m]] > 0
               /\ ver'[m] > 0 => ver'[m] = ver[replaces[m]] + 1
    <3>1. replaces[m] \in Node /\ ver[replaces[m]] > 0 /\ (ver[m] > 0 => ver[m] = ver[replaces[m]] + 1)
      BY <2>1 DEF ProposalInv, TypeOK
    <3> QED BY <1>1, <1>3, <1>5, <3>1
  <2>2. \A m \in Node : replaces[m] = Null => ver'[m] = ver[m]
    BY <1>1, <1>5
  <2>3. \A m \in Node : ver'[m] = 0 => ver[m] = 0
    BY <1>3, <1>5
  <2> QED BY <1>8, <2>1, <2>2, <2>3 DEF ProposalInv, Stamped, infoVars
<1>14. StampInv'
  <2>1. \A m \in Node : ts[m] <= timestamp /\ born'[m] <= timestamp
    <3>1. timestamp \in Nat
      BY DEF TypeOK, CameraTypeOK
    <3>2. \A m \in Node : ts[m] <= timestamp /\ born[m] <= timestamp
      BY DEF StampInv
    <3> QED BY <1>5, <3>1, <3>2  <2>2. \A m \in Node : Stamped(m) => born'[m] <= ts[m]
    BY <1>4, <1>5 DEF StampInv
  <2>3. ASSUME NEW k \in Node, NEW m \in Node, target[k] = target[m], 0 < ver'[k], ver'[k] < ver'[m]
        PROVE  ts[k] <= born'[m]
    <3>1. CASE m = n
      BY <1>5, <2>1, <3>1
    <3>2. CASE m # n
      <4>1. k # n
        <5>1. target[m] = o /\ ver'[m] > 0 => ver'[m] < ver[old] + 1
          BY <1>2, <1>5, <1>7, <3>2 DEF TypeOK
        <5>2. k = n => target[m] = o /\ ver'[k] = ver[old] + 1
          BY <1>1, <1>5, <2>3
        <5> QED BY <1>2, <1>5, <2>3, <5>1, <5>2, <3>2 DEF TypeOK
      <4> QED BY <1>5, <2>3, <3>2, <4>1 DEF StampInv
    <3> QED BY <3>1, <3>2
  <2> QED BY <1>8, <2>1, <2>2, <2>3 DEF StampInv, Stamped, infoVars, cameraVars
<1>15. LinkInv'
  <2>1. \A m \in Node \ {n} : ver'[m] > 0 => nextv'[m] # Dummy /\ LinkOK(m, nextv[m])'
    <3>1. \A m \in Node \ {n} : ver'[m] = ver[m] /\ nextv'[m] = nextv[m]
      BY <1>5, <1>8
    <3> QED BY <1>9, <1>10, <3>1, LinksStable
  <2>2. LinkOK(n, old)'
    <3>1. ver'[n] = ver[old] + 1 /\ ver'[old] = ver[old] /\ target' = target
      BY <1>1, <1>4, <1>5, <1>8 DEF infoVars
    <3>2. newV' = newV /\ oldV' = oldV
      BY DEF Swap
    <3>3. ASSUME NEW k \in Node PROVE ~ Between(k, n, old)'
      <4>1. ver'[k] \in Nat /\ ver[old] \in Nat /\ old # Null
        BY <1>1, <1>9 DEF TypeOK
      <4> QED BY <3>1, <3>2, <4>1 DEF Between
    <3> QED BY <1>1, <1>2, <3>1, <3>2, <3>3 DEF LinkOK
  <2>3. nextv'[n] = old /\ old # Dummy /\ newV' = newV /\ oldV' = oldV
    BY <1>1, <1>4, <1>8 DEF Swap
  <2> QED BY <2>1, <2>2, <2>3 DEF LinkInv
<1>16. ReclaimInv'
  <2>1. \A m \in Node : ver[m] > 0 => ver'[m] > 0
    BY <1>3, <1>5
  <2> QED BY <1>8, <2>1 DEF ReclaimInv, Stamped, cameraVars, reclaimerVars
<1>17. \A u \in Thread \ {t} : SameLocals(u) /\ SameScan(u)
  BY <1>8 DEF Swap, CallInitTS, Goto, SameLocals, SameScan, Walking, InInit, TypeOK, cameraVars, reclaimerVars
<1>18. /\ pc'[t] = "initTS" /\ ret'[t] = "dedup" /\ node'[t] = n
       /\ obj' = obj /\ oldV' = oldV /\ newV' = newV /\ headNext' = headNext /\ view' = view
  BY DEF Swap, CallInitTS, Goto, TypeOK
<1>19. LocalOK(t)'
  BY <1>1, <1>2, <1>5, <1>8, <1>18 DEF LocalOK, HasNode, InInit, InCas, HasInstalled, infoVars
<1>20. ScanOK(t)'
  <2>1. SameScan(t)
    BY <1>8, <1>18 DEF SameScan, Walking, InInit, cameraVars, reclaimerVars
  <2> QED BY <1>9, <1>10, <2>1, ScanStable DEF ScanInv
<1> QED BY <1>9, <1>10, <1>11, <1>12, <1>13, <1>14, <1>15, <1>16, <1>17, <1>19, <1>20, SharedStep
-----------------------------------------------------------------------------
(* Steps of the reclaimer's clients and of the camera.                     *)

\* Lists, proposals and stamps are as before; the camera may have advanced.
LEMMA ListsFrame ==
    ASSUME IInv, TypeOK', UNCHANGED <<listVars, infoVars>>, timestamp <= timestamp',
           \A n \in Node : stage[n] = "reclaimed" => stage'[n] = "reclaimed"
    PROVE  Evolves /\ HistoryInv' /\ ProposalInv' /\ StampInv' /\ LinkInv'
<1> USE DEF IInv
<1>1. Evolves
  BY DEF Evolves, listVars, infoVars, TypeOK
<1>2. HistoryInv' /\ ProposalInv'
  BY DEF HistoryInv, ProposalInv, Stamped, listVars, infoVars
<1>3. StampInv'
  <2>1. timestamp \in Nat /\ timestamp' \in Nat /\ ts \in [Node -> Nat \cup {TBD}] /\ born \in [Node -> Nat]
    BY DEF TypeOK, CameraTypeOK
  <2>2. \A n \in Node : ts[n] <= timestamp' /\ born[n] <= timestamp'
    BY <2>1 DEF StampInv, TBD
  <2> QED BY <2>2 DEF StampInv, Stamped, listVars, infoVars
<1>4. LinkInv'
  BY <1>1, LinksStable DEF LinkInv, listVars
<1> QED BY <1>1, <1>2, <1>3, <1>4

LEMMA RetireStep ==
    ASSUME IInv, NEW t \in Thread, Retire(t)
    PROVE  IInv'
<1> USE NodeAssumption DEF IInv, Retire, Goto
<1>1. /\ LocalOK(t) /\ newV[t] \in Node /\ ver[newV[t]] > 0 /\ Stamped(newV[t])
  BY DEF LocalInv, LocalOK, InInit, InCas, HasInstalled
<1>2. TypeOK'
  <2>1. pc' \in [Thread -> Control]
    BY DEF TypeOK, Control
  <2>2. (Reclaim!TypeOK)'
    BY <1>1 DEF TypeOK, Reclaim!TypeOK, Reclaim!Retire, reclaimerVars
  <2> QED BY <2>1, <2>2 DEF TypeOK, CameraTypeOK, cameraVars, listVars, infoVars
<1>3. \A n \in Node : stage[n] = "reclaimed" => stage'[n] = "reclaimed"
  BY DEF Reclaim!Retire, reclaimerVars, TypeOK, Reclaim!TypeOK
<1>4. Evolves /\ HistoryInv' /\ ProposalInv' /\ StampInv' /\ LinkInv'
  BY <1>2, <1>3, ListsFrame DEF cameraVars, TypeOK, CameraTypeOK
<1>5. CameraInv'
  BY DEF CameraInv, cameraVars
<1>6. ReclaimInv'
  <2>1. CASE UNCHANGED reclaimerVars
    BY <2>1 DEF ReclaimInv, Stamped, cameraVars, listVars, reclaimerVars
  <2>2. CASE Reclaim!Retire(newV[t])
    <3>1. \A n \in Node : /\ stage'[n] = IF n = newV[t] THEN "retired" ELSE stage[n]
                          /\ waiting'[n] = IF n = newV[t] THEN announced ELSE waiting[n]
      BY <2>2 DEF Reclaim!Retire, TypeOK, Reclaim!TypeOK
    <3>2. \A u \in Thread : camPc[u] # "idle" => u \in announced
      BY DEF ScanInv, ScanOK
    <3> QED BY <1>1, <3>1, <3>2 DEF ReclaimInv, Stamped, cameraVars, listVars
  <2> QED BY <2>1, <2>2
<1>7. announced' = announced
  BY DEF Reclaim!Retire, reclaimerVars
<1>8. \A u \in Thread \ {t} : SameLocals(u) /\ SameScan(u)
  BY <1>7 DEF SameLocals, SameScan, Walking, InInit, TypeOK, cameraVars
<1>9. LocalOK(t)'
  <2>1. pc'[t] = "return" /\ ~ InInit(t)' /\ ~ HasNode(t)' /\ ~ InCas(t)' /\ ~ HasInstalled(t)'
    BY DEF HasNode, InInit, InCas, HasInstalled, TypeOK
  <2> QED BY <2>1 DEF LocalOK
<1>10. ScanOK(t)'
  <2>1. SameScan(t)
    BY <1>7 DEF SameScan, Walking, InInit, TypeOK, cameraVars
  <2> QED BY <1>2, <1>4, <2>1, ScanStable DEF ScanInv
<1> QED BY <1>2, <1>4, <1>5, <1>6, <1>8, <1>9, <1>10, SharedStep

LEMMA StartScanStep ==
    ASSUME IInv, NEW t \in Thread, StartScan(t)
    PROVE  IInv'
<1> USE NodeAssumption DEF IInv, StartScan, Goto, Reclaim!Announce
<1>1. TypeOK'
  BY DEF TypeOK, CameraTypeOK, Reclaim!TypeOK, Control, cameraVars, listVars, infoVars
<1>2. Evolves /\ HistoryInv' /\ ProposalInv' /\ StampInv' /\ LinkInv'
  BY <1>1, ListsFrame DEF cameraVars, TypeOK, CameraTypeOK
<1>3. CameraInv'
  BY DEF CameraInv, cameraVars
<1>4. ReclaimInv'
  BY DEF ReclaimInv, Stamped, cameraVars, listVars
<1>5. \A u \in Thread \ {t} : SameLocals(u) /\ SameScan(u)
  BY DEF SameLocals, SameScan, Walking, InInit, TypeOK, cameraVars
<1>6. pc'[t] = "scan" /\ ~ InInit(t)' /\ ~ HasNode(t)' /\ ~ InCas(t)' /\ ~ HasInstalled(t)' /\ ~ Walking(t)'
  BY DEF HasNode, InInit, InCas, HasInstalled, Walking, TypeOK
<1>7. LocalOK(t)'
  BY <1>6 DEF LocalOK
<1>8. ScanOK(t)'
  BY <1>6 DEF ScanInv, ScanOK, NewerHidden, Stamped, cameraVars, listVars, infoVars
<1> QED BY <1>1, <1>2, <1>3, <1>4, <1>5, <1>7, <1>8, SharedStep

\* A thread announces before it reads the camera, so whatever was retired
\* without waiting for it was stamped by then.
LEMMA ScanTakesSnapshotStep ==
    ASSUME IInv, NEW t \in Thread, ScanTakesSnapshot(t)
    PROVE  IInv'
<1> USE NodeAssumption DEF IInv, ScanTakesSnapshot
<1>1. CameraTypeOK' /\ CameraInv'
  BY CameraTypeStep, CameraInvStep DEF TypeOK
<1>2. TypeOK'
  BY <1>1 DEF TypeOK, Reclaim!TypeOK, listVars, infoVars, reclaimerVars, localVars
<1>3. /\ timestamp <= timestamp'
      /\ \A u \in Thread \ {t} : camPc'[u] = camPc[u] /\ camTs'[u] = camTs[u]
  BY DEF ReadTimestamp, TakeSnapshotStep, Recheck, CasTimestamp, TypeOK, CameraTypeOK
<1>4. Evolves /\ HistoryInv' /\ ProposalInv' /\ StampInv' /\ LinkInv'
  BY <1>2, <1>3, ListsFrame DEF reclaimerVars
<1>5. camPc[t] # "taken" /\ (camTs'[t] = timestamp \/ (camPc[t] # "idle" /\ camTs'[t] = camTs[t]))
  BY DEF ReadTimestamp, TakeSnapshotStep, Recheck, CasTimestamp, TypeOK, CameraTypeOK
<1>6. ReclaimInv'
  <2>1. ASSUME NEW n \in Node, stage[n] # "live"
        PROVE  /\ ver[n] > 0 /\ Stamped(n)
               /\ stage[n] = "reclaimed" => waiting[n] = {}
               /\ \A u \in Thread : camPc'[u] # "idle" /\ ts[n] > camTs'[u] => u \in waiting[n]
    <3>1. ~ (ts[n] > timestamp)
      <4>1. ts[n] \in Int /\ timestamp \in Int
        BY DEF TypeOK, CameraTypeOK, TBD
      <4>2. ts[n] <= timestamp
        BY DEF StampInv
      <4> QED BY <4>1, <4>2
    <3> QED BY <1>3, <1>5, <2>1, <3>1 DEF ReclaimInv
  <2> QED BY <2>1 DEF ReclaimInv, Stamped, listVars, reclaimerVars
<1>7. \A u \in Thread : SameLocals(u)
  BY DEF SameLocals, localVars
<1>8. \A u \in Thread \ {t} : SameScan(u)
  BY <1>3 DEF SameScan, Walking, InInit, localVars, reclaimerVars
<1>9. LocalOK(t)'
  BY <1>2, <1>4, <1>7, LocalStable DEF LocalInv
<1>10. ScanOK(t)'
  <2>1. t \in announced /\ ~ Walking(t) /\ \A o \in Obj : view[t][o] = Unread
    BY <1>5 DEF ScanInv, ScanOK, Walking, InInit
  <2> QED BY <2>1 DEF ScanOK, Walking, InInit, localVars, reclaimerVars
<1> QED BY <1>1, <1>2, <1>4, <1>6, <1>7, <1>8, <1>9, <1>10, SharedStep

LEMMA EndScanStep ==
    ASSUME IInv, NEW t \in Thread, EndScan(t)
    PROVE  IInv'
<1> USE NodeAssumption DEF IInv, EndScan, Goto, Reclaim!Unannounce
<1>1. CameraTypeOK' /\ CameraInv'
  BY CameraTypeStep, CameraInvStep DEF TypeOK
<1>2. TypeOK'
  <2>1. pc' \in [Thread -> Control] /\ view' \in [Thread -> [Obj -> Node \cup {Null, Unread}]]
    BY DEF TypeOK, Control
  <2>2. (Reclaim!TypeOK)'
    BY DEF TypeOK, Reclaim!TypeOK
  <2> QED BY <1>1, <2>1, <2>2 DEF TypeOK, listVars, infoVars
<1>3. /\ timestamp' = timestamp /\ camPc'[t] = "idle"
      /\ \A u \in Thread \ {t} : camPc'[u] = camPc[u] /\ camTs'[u] = camTs[u]
  BY DEF ReturnSnapshot, TypeOK, CameraTypeOK
<1>4. Evolves /\ HistoryInv' /\ ProposalInv' /\ StampInv' /\ LinkInv'
  BY <1>2, <1>3, ListsFrame DEF TypeOK, CameraTypeOK
<1>5. ReclaimInv'
  <2>1. \A n \in Node : waiting'[n] = waiting[n] \ {t}
    OBVIOUS
  <2> QED BY <1>3, <2>1 DEF ReclaimInv, Stamped, listVars
<1>6. \A u \in Thread \ {t} : SameLocals(u) /\ SameScan(u)
  BY <1>3 DEF SameLocals, SameScan, Walking, InInit, TypeOK
<1>7. /\ pc'[t] = "idle" /\ ~ InInit(t)' /\ ~ HasNode(t)' /\ ~ InCas(t)' /\ ~ HasInstalled(t)'
      /\ ~ Walking(t)' /\ \A o \in Obj : view'[t][o] = Unread
  BY DEF HasNode, InInit, InCas, HasInstalled, Walking, TypeOK
<1>8. LocalOK(t)'
  BY <1>7 DEF LocalOK
<1>9. ScanOK(t)'
  BY <1>3, <1>7 DEF ScanOK
<1> QED BY <1>1, <1>2, <1>4, <1>5, <1>6, <1>8, <1>9, SharedStep
-----------------------------------------------------------------------------
LEMMA InvInit == Init => IInv
<1> USE NodeAssumption, CameraAssumption
<1> SUFFICES ASSUME Init PROVE IInv
  OBVIOUS
<1>1. \A n \in Node : n \in InitialNode => /\ target[n] \in Obj /\ Initial[target[n]] = n
  BY DEF Init, InitialNode
<1>2. \A o \in Obj : Initial[o] \in Node /\ Initial[o] \in InitialNode /\ target[Initial[o]] = o
  BY <1>1 DEF InitialNode
<1>3. \A n \in Node \ InitialNode : target[n] = Null
  BY DEF Init
<1>4. TypeOK
  <2>1. target \in [Node -> Obj \cup {Null}]
    BY <1>1 DEF Init
  <2>2. CameraTypeOK
    BY DEF Init, CameraInit, CameraTypeOK
  <2>3. Reclaim!TypeOK
    BY DEF Init, Reclaim!Init, Reclaim!TypeOK
  <2> QED BY <2>1, <2>2, <2>3 DEF Init, TypeOK, Control, TBD
<1>5. CameraInv
  BY DEF Init, CameraInit, CameraInv
<1>6. HistoryInv
  <2>1. child = Initial /\ \A n \in Node : ver[n] = IF n \in InitialNode THEN 1 ELSE 0
    BY DEF Init
  <2>2. \A n \in Node : replaces[n] = Null
    BY DEF Init
  <2>3. \A n \in Node : ver[n] > 0 => child[target[n]] = n /\ target[n] \in Obj
    BY <1>1, <2>1
  <2>4. \A n, m \in Node : ver[n] > 0 /\ ver[n] = ver[m] /\ target[n] = target[m] => n = m
    BY <2>1, <2>3
  <2> QED BY <1>2, <2>1, <2>2, <2>3, <2>4 DEF HistoryInv
<1>7. ProposalInv
  BY <1>2, <1>3 DEF Init, ProposalInv, Stamped, TBD
<1>8. StampInv
  BY <1>1, <1>2, <1>3 DEF Init, CameraInit, StampInv, Stamped, TBD
<1>9. LinkInv
  <2> SUFFICES ASSUME NEW n \in Node, ver[n] > 0 PROVE nextv[n] # Dummy /\ LinkOK(n, nextv[n])
    BY DEF LinkInv
  <2>1. n \in InitialNode /\ nextv[n] = Null
    BY DEF Init
  <2>2. \A k \in Node : ver[k] > 0 => ts[k] = 0
    BY DEF Init
  <2> QED BY <2>1, <2>2 DEF LinkOK, Between
<1>10. LocalInv
  BY DEF Init, LocalInv, LocalOK, HasNode, InInit, InCas, HasInstalled
<1>11. ScanInv
  BY DEF Init, CameraInit, ScanInv, ScanOK, Walking, InInit
<1>12. ReclaimInv
  BY DEF Init, Reclaim!Init, ReclaimInv
<1> QED BY <1>4, <1>5, <1>6, <1>7, <1>8, <1>9, <1>10, <1>11, <1>12 DEF IInv

LEMMA InvStep == IInv /\ [Next]_vars => IInv'
<1> SUFFICES ASSUME IInv, [Next]_vars PROVE IInv'
  OBVIOUS
<1>1. CASE UNCHANGED vars
  <2>1. UNCHANGED <<cameraVars, listVars, infoVars, reclaimerVars, localVars>>
    BY <1>1 DEF vars
  <2>2. TypeOK' /\ CameraInv' /\ HistoryInv' /\ ProposalInv' /\ StampInv'
    BY <2>1 DEF IInv, TypeOK, CameraTypeOK, Reclaim!TypeOK, CameraInv, HistoryInv, ProposalInv, StampInv,
                Stamped, cameraVars, listVars, infoVars, reclaimerVars, localVars
  <2>3. LinkInv' /\ ReclaimInv'
    BY <2>1, UnchangedShared DEF IInv, LinkInv, ReclaimInv, cameraVars, listVars, reclaimerVars
  <2>4. LocalInv'
    BY <2>1, UnchangedShared DEF IInv, LocalInv, LocalOK, HasNode, InInit, InCas, HasInstalled,
          PastReplaced, cameraVars, listVars, infoVars, localVars
  <2>5. ScanInv'
    BY <2>1, UnchangedShared DEF IInv, ScanInv, ScanOK, Walking, InInit,
          cameraVars, listVars, infoVars, reclaimerVars, localVars
  <2> QED BY <2>2, <2>3, <2>4, <2>5 DEF IInv
<1>2. ASSUME NEW t \in Thread, Step(t)
      PROVE  IInv'
  <2>1. CASE InitTSStep(t)
    BY <2>1, InitTSReadStep, InitTSGetStep, InitTSCasStep DEF InitTSStep
  <2>2. CASE CompareAndSetStep(t)
    BY <2>2, ReadHeadStep, SpliceReadStep, SpliceReadNextStep, SpliceWriteStep, RejectStaleStep, LinkStep,
       SwapStep, SwapFailsStep, RereadHeadStep, DedupReadStep, DedupWriteStep, RetireTestStep, RetireStep
    DEF CompareAndSetStep
  <2>3. CASE ScanStep(t)
    BY <2>3, ScanTakesSnapshotStep, WalkStep, WalkEndsStep, EndScanStep, ScanReadHeadStep DEF ScanStep
  <2>4. CASE Return(t)
    BY <2>4, ReturnStep
  <2>5. CASE StartScan(t)
    BY <2>5, StartScanStep
  <2>6. CASE \E o \in Obj : Get(t, o)
    BY <2>6, GetStep
  <2>7. CASE \E n \in Node : Propose(t, n)
    BY <2>7, ProposeStep
  <2>8. CASE HelperStep(t)
    BY <2>8, HelpStep, TestLeftStep, TakeLeftStep, TakeRightStep DEF HelperStep
  <2> QED BY <1>2, <2>1, <2>2, <2>3, <2>4, <2>5, <2>6, <2>7, <2>8 DEF Step
<1>3. CASE \E n \in Node : ReclaimNode(n)
  BY <1>3, ReclaimNodeStep
<1> QED BY <1>1, <1>2, <1>3 DEF Next

LEMMA Inductive == Spec => []IInv
  BY InvInit, InvStep, PTL DEF Spec

\* Every variable keeps its type; in particular a linked list never contains
\* the dummy that marks a node nobody linked.
THEOREM TypeCorrect == Spec => []TypeOK
<1>1. IInv => TypeOK
  BY DEF IInv
<1> QED BY <1>1, Inductive, PTL

\* A scan reads one state of all pointers: each answer is the version of its
\* pointer at the scan's timestamp, and stays so until the scan ends, for any
\* number of updaters, helpers and scans and with reclaiming going on.
THEOREM SnapshotCorrect == Spec => []SnapshotView
<1>1. IInv => SnapshotView
  <2> SUFFICES ASSUME IInv, NEW t \in Thread, NEW o \in Obj, view[t][o] # Unread
               PROVE  VersionAt(view[t][o], o, camTs[t])
    BY DEF SnapshotView
  <2> DEFINE n == view[t][o]
  <2>1. /\ camPc[t] = "taken" /\ n \in Node /\ target[n] = o /\ ver[n] > 0
        /\ Stamped(n) /\ ts[n] <= camTs[t] /\ NewerHidden(n, camTs[t])
    BY DEF IInv, ScanInv, ScanOK
  <2>2. ASSUME NEW m \in Installed(o), Stamped(m), ts[m] <= camTs[t]
        PROVE  ver[m] <= ver[n]
    <3>1. m \in Node /\ target[m] = o /\ born[m] <= ts[m]
      BY <2>2 DEF Installed, IInv, StampInv
    <3>2. /\ ts[m] \in Int /\ born[m] \in Int /\ camTs[t] \in Int
          /\ ver[m] \in Int /\ ver[n] \in Int
      BY <2>1, <3>1 DEF IInv, TypeOK, CameraTypeOK, TBD
    <3>3. ver[n] < ver[m] => born[m] > camTs[t] \/ ts[m] > camTs[t]
      BY <2>1, <3>1 DEF NewerHidden
    <3> QED BY <2>2, <3>1, <3>2, <3>3
  <2> QED BY <2>1, <2>2 DEF VersionAt, Installed
<1> QED BY <1>1, Inductive, PTL

\* Versions of a pointer are ordered by their stamps, and only the newest can
\* be without one.
THEOREM OrderCorrect == Spec => []VersionsOrdered
<1>1. IInv => VersionsOrdered
  <2> SUFFICES ASSUME IInv, NEW o \in Obj, NEW n \in Installed(o), NEW m \in Installed(o), ver[n] < ver[m]
               PROVE  Stamped(n) /\ (Stamped(m) => ts[n] <= ts[m])
    BY DEF VersionsOrdered
  <2>1. /\ n \in Node /\ m \in Node /\ target[n] = o /\ target[m] = o /\ ver[n] > 0 /\ ver[m] > 0
    BY DEF Installed
  <2>2. ver[n] \in Nat /\ ver[m] \in Nat /\ ts[n] \in Int /\ ts[m] \in Int /\ born[m] \in Int
    BY <2>1 DEF IInv, TypeOK, TBD
  <2>3. Stamped(n)
    BY <2>1, <2>2 DEF IInv, HistoryInv
  <2>4. ts[n] <= born[m] /\ (Stamped(m) => born[m] <= ts[m])
    BY <2>1 DEF IInv, StampInv
  <2> QED BY <2>2, <2>3, <2>4
<1> QED BY <1>1, Inductive, PTL

\* Every stamp was taken after its version was installed (real-time order).
THEOREM StampCorrect == Spec => []StampedAfterInstall
<1>1. IInv => StampedAfterInstall
  BY DEF IInv, StampInv, ProposalInv, StampedAfterInstall, TypeOK
<1> QED BY <1>1, Inductive, PTL

\* Splicing and reclaiming never lose a version that a scan can ask for.
THEOREM LinksCorrect == Spec => []LinksSkipOnlyDuplicates
<1>1. IInv => LinksSkipOnlyDuplicates
  BY DEF IInv, LinkInv, LinksSkipOnlyDuplicates
<1> QED BY <1>1, Inductive, PTL

\* However many helpers race to stamp a version, the first stamp is final.
THEOREM StampsFinal == Spec => StampsAreFinal
<1>1. IInv /\ [Next]_vars => [\A n \in Node : Stamped(n) => ts'[n] = ts[n]]_ts
  <2> SUFFICES ASSUME IInv, Next, ts' # ts PROVE \A n \in Node : Stamped(n) => ts'[n] = ts[n]
    BY DEF vars, listVars
  <2>1. PICK t \in Thread : InitTSCas(t)
    BY DEF Next, Step, InitTSStep, HelperStep, CompareAndSetStep, ScanStep, InitTSRead, InitTSGet, Get, Return,
           Propose, Help, TestLeft, TakeLeft, TakeRight, ReadHead, SpliceRead, SpliceReadNext, SpliceWrite,
           RejectStale, Link, Swap, SwapFails, RereadHead, DedupRead, DedupWrite, RetireTest, Retire,
           ReclaimNode, StartScan, ScanTakesSnapshot, ScanReadHead, Walk, WalkEnds, EndScan, listVars
  <2> QED BY <2>1 DEF InitTSCas, Stamped, IInv, TypeOK
<1> QED BY <1>1, Inductive, PTL DEF Spec, StampsAreFinal

\* No splice and no late helper links a version again to the one it replaced.
THEOREM LinkedOnceCorrect == Spec => LinkedOnce
<1>1. ASSUME IInv, Next, NEW n \in Node, replaces[n] # Null,
             nextv'[n] = replaces[n], nextv[n] # replaces[n]
      PROVE  nextv[n] = Dummy
  <2> USE NodeAssumption DEF IInv
  <2>0. replaces[n] \in Node /\ ver[replaces[n]] > 0 /\ (ver[n] > 0 => ver[n] = ver[replaces[n]] + 1)
    BY <1>1 DEF ProposalInv, TypeOK
  <2>1. CASE \E m \in Node : ReclaimNode(m)
    BY <1>1, <2>1 DEF ReclaimNode, TypeOK
  <2>2. CASE \E t \in Thread : SpliceWrite(t)
    <3>1. PICK t \in Thread : SpliceWrite(t)
      BY <2>2
    <3>2. n = node[t] /\ headNext[t] = replaces[n]
      BY <1>1, <3>1 DEF SpliceWrite, TypeOK
    <3>3. ver[n] > 0 /\ PastReplaced(n, headNext[t])
      BY <1>1, <3>1, <3>2 DEF SpliceWrite, LocalInv, LocalOK, HasNode
    <3> QED BY <1>1, <2>0, <3>2, <3>3 DEF PastReplaced, TypeOK
  <2>3. CASE \E t \in Thread : DedupWrite(t)
    <3>1. PICK t \in Thread : DedupWrite(t)
      BY <2>3
    <3>2. n = newV[t] /\ headNext[t] = replaces[n]
      BY <1>1, <3>1 DEF DedupWrite, TypeOK
    <3>3. ver[n] > 0 /\ PastReplaced(n, headNext[t])
      BY <1>1, <3>1, <3>2 DEF DedupWrite, LocalInv, LocalOK, HasInstalled
    <3> QED BY <1>1, <2>0, <3>2, <3>3 DEF PastReplaced, TypeOK
  <2>4. CASE \E t \in Thread : Link(t)
    BY <1>1, <2>4 DEF Link, TypeOK
  <2>5. CASE UNCHANGED nextv
    BY <1>1, <2>5
  <2> HIDE DEF IInv
  <2> QED BY <1>1, <2>1, <2>2, <2>3, <2>4, <2>5
       DEF Next, Step, InitTSStep, HelperStep, CompareAndSetStep, ScanStep, InitTSRead, InitTSGet, InitTSCas, Get,
           Return, Propose, Help, TestLeft, TakeLeft, TakeRight, ReadHead, SpliceRead, SpliceReadNext,
           RejectStale, Swap, SwapFails, RereadHead, DedupRead, RetireTest, Retire,
           StartScan, ScanTakesSnapshot, ScanReadHead, Walk, WalkEnds, EndScan, listVars
<1>2. IInv /\ [Next]_vars => [\A n \in Node : replaces[n] # Null /\ nextv'[n] = replaces[n]
                                 => nextv[n] \in {Dummy, replaces[n]}]_nextv
  BY <1>1 DEF vars, listVars
<1> QED BY <1>2, Inductive, PTL DEF Spec, LinkedOnce
=============================================================================

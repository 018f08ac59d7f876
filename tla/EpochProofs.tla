----------------------------- MODULE EpochProofs -----------------------------
(***************************************************************************)
(* Proofs about Epoch, for any number of threads and items, any threshold  *)
(* of tryAdvanceEpoch and any size of the store buffers: its invariants,   *)
(* and that it implements the Reclaimer contract.                          *)
(*                                                                         *)
(* The heart is CheckInv: a thread about to advance epoch e has passed     *)
(* only announcements of e itself; what became visible after it looked did *)
(* so in epoch e.  So a visible announcement survives at most one advance, *)
(* and an item retired under it, filed under the epoch of that moment or a *)
(* later one, is not two epochs old while the announcement stands.         *)
(***************************************************************************)
EXTENDS EpochInv, TLAPS

Stamp == Nat \cup {INACTIVE}

USE EpochAssumption

\* What a store does to the values an announcement is still to take.
LEMMA StoreVal ==
    ASSUME TypeOK, NEW t \in Thread, NEW e \in Stamp, Store(t, e)
    PROVE  /\ buffer' \in [Thread -> Seq(Stamp)]
           /\ announce' = announce
           /\ Len(buffer'[t]) = Len(buffer[t]) + 1
           /\ \A k \in 0..Len(buffer[t]) : Val(t, k)' = Val(t, k)
           /\ LastStore(t)' = e
           /\ \A u \in Thread \ {t} : buffer'[u] = buffer[u]
<1>1. buffer[t] \in Seq(Stamp)
  BY DEF TypeOK, Stamp
<1>2. buffer' = [buffer EXCEPT ![t] = Append(buffer[t], e)] /\ announce' = announce
  BY DEF Store
<1>3. buffer \in [Thread -> Seq(Stamp)]
  BY DEF TypeOK, Stamp
<1>4. buffer'[t] = Append(buffer[t], e) /\ \A u \in Thread \ {t} : buffer'[u] = buffer[u]
  BY <1>2, <1>3
<1>5. Append(buffer[t], e) \in Seq(Stamp)
  BY <1>1
<1>6. buffer' \in [Thread -> Seq(Stamp)]
  BY <1>2, <1>3, <1>5
<1>7. /\ Len(buffer'[t]) = Len(buffer[t]) + 1
      /\ \A k \in 1..Len(buffer[t]) : buffer'[t][k] = buffer[t][k]
      /\ buffer'[t][Len(buffer[t]) + 1] = e
  BY <1>1, <1>4
<1>8. Len(buffer[t]) \in Nat
  BY <1>1
<1>9. \A k \in 0..Len(buffer[t]) : Val(t, k)' = Val(t, k)
  BY <1>2, <1>7, <1>8 DEF Val
<1>10. LastStore(t)' = e
  BY <1>7, <1>8 DEF Val, LastStore
<1> QED
  BY <1>2, <1>4, <1>6, <1>7, <1>9, <1>10

\* A flush makes every later value one place earlier.
LEMMA FlushVal ==
    ASSUME TypeOK, NEW t \in Thread, Flush(t)
    PROVE  /\ buffer' \in [Thread -> Seq(Stamp)]
           /\ announce' \in [Thread -> Stamp]
           /\ Len(buffer[t]) \in Nat \ {0}
           /\ Len(buffer'[t]) = Len(buffer[t]) - 1
           /\ \A k \in 0..Len(buffer'[t]) : Val(t, k)' = Val(t, k + 1)
           /\ announce'[t] = Val(t, 1) /\ Head(buffer[t]) = Val(t, 1)
           /\ \A u \in Thread \ {t} : buffer'[u] = buffer[u] /\ announce'[u] = announce[u]
<1>1. buffer[t] \in Seq(Stamp) /\ buffer[t] # <<>>
  BY DEF TypeOK, Stamp, Flush
<1>2. /\ buffer' = [buffer EXCEPT ![t] = Tail(buffer[t])]
      /\ announce' = [announce EXCEPT ![t] = Head(buffer[t])]
  BY DEF Flush
<1>3. buffer \in [Thread -> Seq(Stamp)] /\ announce \in [Thread -> Stamp]
  BY DEF TypeOK, Stamp
<1>4. /\ Len(buffer[t]) \in Nat \ {0}
      /\ Head(buffer[t]) = buffer[t][1] /\ Head(buffer[t]) \in Stamp
      /\ Tail(buffer[t]) \in Seq(Stamp)
      /\ Len(Tail(buffer[t])) = Len(buffer[t]) - 1
      /\ \A k \in 1..(Len(buffer[t]) - 1) : Tail(buffer[t])[k] = buffer[t][k + 1]
  BY <1>1
<1>5. /\ buffer'[t] = Tail(buffer[t]) /\ announce'[t] = buffer[t][1]
      /\ \A u \in Thread \ {t} : buffer'[u] = buffer[u] /\ announce'[u] = announce[u]
  BY <1>2, <1>3, <1>4
<1>6. buffer' \in [Thread -> Seq(Stamp)] /\ announce' \in [Thread -> Stamp]
  BY <1>2, <1>3, <1>4
<1> QED
  BY <1>4, <1>5, <1>6 DEF Val
-----------------------------------------------------------------------------
(* One lemma per part of the invariant: a step of any action preserves it. *)

\* What a thread's control and locals are when tryAdvanceEpoch returns.
LEMMA ReturnTypes ==
    ASSUME TypeOK, NEW t \in Thread, TryAdvanceReturns(t)
    PROVE  /\ epochPc' \in [Thread -> {"idle", "announce", "retire", "count", "check", "announced"}]
           /\ curEpoch' \in [Thread -> Nat]
           /\ unchecked' \in [Thread -> SUBSET Thread]
           /\ item' \in [Thread -> Item \cup {NoItem}]
<1>1. ReturnTo(t) \in {"idle", "announced"}
  BY DEF ReturnTo
<1> QED
  BY <1>1 DEF TypeOK, TryAdvanceReturns

\* What a reclaim does: the item leaves one bag, where it was old enough.
LEMMA ReclaimBag ==
    ASSUME TypeOK, NEW t \in Thread, NEW i \in Item, ReclaimItem(t, i)
    PROVE  /\ i \in Reclaimable(t)
           /\ UNCHANGED <<epochPc, item, retiredAt, prevRetireEpoch>>
           /\ stage' = [stage EXCEPT ![i] = "reclaimed"]
           /\ \E b \in 0..2 :
                  /\ i \in retiredNodes[t][b]
                  /\ retiredNodes' = [retiredNodes EXCEPT ![t][b] = @ \ {i}]
<1>1. PICK e \in Expired(prevRetireEpoch[t], curEpoch[t]) :
          /\ i \in retiredNodes[t][(e + 3) % 3]
          /\ retiredNodes' = [retiredNodes EXCEPT ![t][(e + 3) % 3] = @ \ {i}]
  BY DEF ReclaimItem
<1>2. prevRetireEpoch[t] \in Nat
  BY DEF TypeOK
<1>3. (e + 3) % 3 \in 0..2
  BY <1>2 DEF Expired
<1>4. i \in Reclaimable(t)
  BY <1>1 DEF Reclaimable
<1> QED
  BY <1>1, <1>3, <1>4 DEF ReclaimItem, controlVars

LEMMA TypeStep == TypeOK /\ RetireInv /\ [Next]_epochVars => TypeOK'
<1> SUFFICES ASSUME TypeOK, RetireInv, [Next]_epochVars PROVE TypeOK'
  OBVIOUS
<1> USE DEF TypeOK, Contract!TypeOK, INACTIVE
<1> USE DEF storeVars, privateVars, controlVars, contractVars
<1>1. ASSUME NEW t \in Thread, Flush(t) PROVE TypeOK'
  <2>1. /\ buffer' \in [Thread -> Seq(Nat \cup {INACTIVE})]
        /\ announce' \in [Thread -> Nat \cup {INACTIVE}]
    BY <1>1, FlushVal DEF Stamp
  <2>2. /\ announced' \in SUBSET Thread
        /\ waiting' \in [Item -> SUBSET Thread]
        /\ stage' = stage
    BY <1>1 DEF Flush, Contract!Announce, Contract!Unannounce
  <2> QED
    BY <1>1, <2>1, <2>2 DEF Flush
<1>2. ASSUME NEW t \in Thread, Count(t) PROVE TypeOK'
  <2>1. announceCount' \in [Thread -> 0..AnnouncesBeforeCollect]
    <3>1. \/ announceCount' = [announceCount EXCEPT ![t] = 0]
          \/ /\ announceCount[t] # AnnouncesBeforeCollect
             /\ announceCount' = [announceCount EXCEPT ![t] = announceCount[t] + 1]
      BY <1>2 DEF Count
    <3>2. announceCount[t] \in 0..AnnouncesBeforeCollect /\ AnnouncesBeforeCollect \in Nat
      BY EpochAssumption
    <3>3. announceCount[t] # AnnouncesBeforeCollect
          => announceCount[t] + 1 \in 0..AnnouncesBeforeCollect
      BY <3>2
    <3>4. 0 \in 0..AnnouncesBeforeCollect
      BY <3>2
    <3> QED
      BY <3>1, <3>3, <3>4
  <2>2. CASE announceCount[t] = AnnouncesBeforeCollect
    <3>1. unchecked' = [unchecked EXCEPT ![t] = Thread] /\ Thread \in SUBSET Thread
      BY <1>2, <2>2 DEF Count
    <3>2. unchecked' \in [Thread -> SUBSET Thread]
      BY <3>1
    <3> QED
      BY <1>2, <2>1, <2>2, <3>2 DEF Count
  <2>3. CASE announceCount[t] # AnnouncesBeforeCollect
    <3>1. TryAdvanceReturns(t)
      BY <1>2, <2>3 DEF Count
    <3> QED
      BY <1>2, <2>1, <3>1, ReturnTypes DEF Count
  <2> QED
    BY <2>2, <2>3
<1>3. ASSUME NEW t \in Thread, NEW u \in Thread, Check(t, u) PROVE TypeOK'
  <2>1. CASE unchecked' = [unchecked EXCEPT ![t] = unchecked[t] \ {u}]
                /\ UNCHANGED <<epochPc, item, curEpoch>>
    <3>1. unchecked[t] \ {u} \in SUBSET Thread
      OBVIOUS
    <3>2. unchecked' \in [Thread -> SUBSET Thread]
      BY <2>1, <3>1
    <3> QED
      BY <1>3, <2>1, <3>2 DEF Check
  <2>2. CASE TryAdvanceReturns(t)
    BY <1>3, <2>2, ReturnTypes DEF Check
  <2> QED
    BY <1>3, <2>1, <2>2 DEF Check
<1>4. ASSUME NEW t \in Thread, Advance(t) PROVE TypeOK'
  <2>1. epochNum' \in Nat
    BY <1>4 DEF Advance
  <2>2. TryAdvanceReturns(t)
    BY <1>4 DEF Advance
  <2> QED
    BY <1>4, <2>1, <2>2, ReturnTypes DEF Advance
<1>5. ASSUME NEW t \in Thread, AnnounceRead(t) PROVE TypeOK'
  BY <1>5 DEF AnnounceRead
<1>6. ASSUME NEW t \in Thread, AnnounceStore(t) PROVE TypeOK'
  <2>1. buffer' \in [Thread -> Seq(Nat \cup {INACTIVE})] /\ announce' = announce
    BY <1>6, StoreVal DEF AnnounceStore, Stamp
  <2> QED
    BY <1>6, <2>1 DEF AnnounceStore
<1>7. ASSUME NEW t \in Thread, UnannounceStore(t) PROVE TypeOK'
  <2>1. buffer' \in [Thread -> Seq(Nat \cup {INACTIVE})] /\ announce' = announce
    BY <1>7, StoreVal DEF UnannounceStore, Stamp
  <2> QED
    BY <1>7, <2>1 DEF UnannounceStore
<1>8. ASSUME NEW t \in Thread, NEW i \in Item, RetireRead(t, i) PROVE TypeOK'
  BY <1>8 DEF RetireRead, Contract!Retire
<1>9. ASSUME NEW t \in Thread, NEW i \in Item, ReclaimItem(t, i) PROVE TypeOK'
  <2>1. PICK b \in 0..2 : retiredNodes' = [retiredNodes EXCEPT ![t][b] = @ \ {i}]
    BY <1>9, ReclaimBag
  <2>2. stage' = [stage EXCEPT ![i] = "reclaimed"]
        /\ UNCHANGED <<epochNum, announce, buffer, prevRetireEpoch, announceCount, epochPc, curEpoch,
                       unchecked, item, announced, waiting, retiredAt, seenAt>>
    BY <1>9 DEF ReclaimItem
  <2> QED
    BY <2>1, <2>2
<1>10. ASSUME NEW t \in Thread, AddToBag(t) PROVE TypeOK'
  <2>1. curEpoch[t] % 3 \in 0..2 /\ item[t] \in Item
    BY <1>10 DEF AddToBag, RetireInv
  <2>2. retiredNodes' \in [Thread -> [0..2 -> SUBSET Item]]
    BY <1>10, <2>1 DEF AddToBag
  <2> QED
    BY <1>10, <2>2 DEF AddToBag
<1>11. ASSUME UNCHANGED epochVars PROVE TypeOK'
  BY <1>11 DEF epochVars
<1> QED
  BY <1>1, <1>2, <1>3, <1>4, <1>5, <1>6, <1>7, <1>8, <1>9, <1>10, <1>11
     DEF Next, TryAdvance

\* tryAdvanceEpoch neither opens nor closes a section when it returns.
LEMMA ReturnKeepsSections ==
    ASSUME TypeOK, NEW t \in Thread, epochPc[t] \in {"count", "check"}, TryAdvanceReturns(t)
    PROVE  \A u \in Thread : InSection(u)' <=> InSection(u)
<1>1. CASE item[t] = NoItem
  BY <1>1 DEF TypeOK, TryAdvanceReturns, ReturnTo, InSection
<1>2. CASE item[t] # NoItem
  BY <1>2 DEF TypeOK, TryAdvanceReturns, ReturnTo, InSection
<1> QED
  BY <1>1, <1>2

LEMMA BufferStep == TypeOK /\ RetireInv /\ BufferInv /\ [Next]_epochVars => BufferInv'
<1> SUFFICES ASSUME TypeOK, RetireInv, BufferInv, [Next]_epochVars PROVE BufferInv'
  OBVIOUS
<1> USE DEF storeVars, privateVars, controlVars, contractVars
\* A step that touches no buffer and keeps every thread in or out of its section.
<1>0. ASSUME UNCHANGED storeVars, \A u \in Thread : InSection(u)' <=> InSection(u)
      PROVE  BufferInv'
  BY <1>0 DEF BufferInv, LastStore, Val
<1>1. ASSUME NEW t \in Thread, Flush(t) PROVE BufferInv'
  <2> SUFFICES ASSUME NEW u \in Thread
               PROVE  /\ LastStore(u)' = INACTIVE <=> ~ InSection(u)'
                      /\ \A k \in 1..Len(buffer'[u]) :
                            Val(u, k)' = INACTIVE <=> Val(u, k - 1)' # INACTIVE
    BY DEF BufferInv
  <2>1. InSection(u)' <=> InSection(u)
    BY <1>1 DEF Flush, InSection
  <2>2. CASE u = t
    <3>1. /\ Len(buffer[t]) \in Nat \ {0} /\ Len(buffer'[t]) = Len(buffer[t]) - 1
          /\ \A k \in 0..Len(buffer'[t]) : Val(t, k)' = Val(t, k + 1)
      BY <1>1, FlushVal
    <3>2. LastStore(t)' = LastStore(t)
      <4>1. \A k \in 0..Len(buffer'[t]) : k = Len(buffer'[t]) => Val(t, k)' = Val(t, k + 1)
        BY <3>1
      <4>2. Len(buffer'[t]) \in 0..Len(buffer'[t]) /\ Len(buffer'[t]) + 1 = Len(buffer[t])
        BY <3>1
      <4>3. PICK k \in 0..Len(buffer'[t]) : k = Len(buffer'[t])
        BY <4>2
      <4>4. Val(t, k)' = LastStore(t)
        BY <4>1, <4>2, <4>3 DEF LastStore
      <4>5. LastStore(t)' = Val(t, k)'
        BY <4>3 DEF LastStore, Val
      <4> QED
        BY <4>4, <4>5
    <3>3. ASSUME NEW k \in 1..Len(buffer'[t])
          PROVE  Val(t, k)' = INACTIVE <=> Val(t, k - 1)' # INACTIVE
      <4>1. Val(t, k)' = Val(t, k + 1)
        BY <3>1, <3>3
      <4>2. PICK j \in 0..Len(buffer'[t]) : j = k - 1
        BY <3>1, <3>3
      <4>3. Val(t, j)' = Val(t, k)
        BY <3>1, <4>2
      <4>4. Val(t, k - 1)' = Val(t, j)'
        BY <4>2 DEF Val
      <4>5. k + 1 \in 1..Len(buffer[t])
        BY <3>1, <3>3
      <4>6. Val(t, k + 1) = INACTIVE <=> Val(t, k) # INACTIVE
        BY <4>5 DEF BufferInv
      <4> QED
        BY <4>1, <4>3, <4>4, <4>6
    <3> QED
      BY <2>1, <2>2, <3>2, <3>3 DEF BufferInv
  <2>3. CASE u # t
    <3>1. buffer'[u] = buffer[u] /\ announce'[u] = announce[u]
      BY <1>1, <2>3, FlushVal
    <3> QED
      BY <2>1, <3>1 DEF BufferInv, LastStore, Val
  <2> QED
    BY <2>2, <2>3
\* A store that opens or closes the section of its thread.
<1>2. ASSUME NEW t \in Thread, NEW e \in Stamp, Store(t, e),
             \A u \in Thread \ {t} : InSection(u)' <=> InSection(u),
             InSection(t)' <=> ~ InSection(t),
             e = INACTIVE <=> ~ InSection(t)'
      PROVE  BufferInv'
  <2>1. /\ Len(buffer'[t]) = Len(buffer[t]) + 1 /\ announce' = announce
        /\ \A k \in 0..Len(buffer[t]) : Val(t, k)' = Val(t, k)
        /\ LastStore(t)' = e
        /\ \A u \in Thread \ {t} : buffer'[u] = buffer[u]
    BY <1>2, StoreVal
  <2>2. Len(buffer[t]) \in Nat
    BY DEF TypeOK
  <2>3. ASSUME NEW k \in 1..Len(buffer'[t])
        PROVE  Val(t, k)' = INACTIVE <=> Val(t, k - 1)' # INACTIVE
    <3>1. PICK j \in 0..Len(buffer[t]) : j = k - 1
      BY <2>1, <2>2, <2>3
    <3>2. Val(t, k - 1)' = Val(t, j)
      <4>1. Val(t, k - 1)' = Val(t, j)'
        BY <3>1 DEF Val
      <4> QED
        BY <2>1, <4>1
    <3>3. CASE k = Len(buffer[t]) + 1
      <4>1. Val(t, k)' = LastStore(t)'
        BY <2>1, <3>3 DEF LastStore, Val
      <4>2. Val(t, j) = LastStore(t)
        BY <2>2, <3>1, <3>3 DEF LastStore
      <4> QED
        BY <1>2, <2>1, <3>2, <4>1, <4>2 DEF BufferInv
    <3>4. CASE k \in 1..Len(buffer[t])
      <4>1. Val(t, k)' = Val(t, k)
        BY <2>1, <2>2, <3>4
      <4>2. Val(t, k) = INACTIVE <=> Val(t, k - 1) # INACTIVE
        BY <3>4 DEF BufferInv
      <4> QED
        BY <3>1, <3>2, <4>1, <4>2
    <3> QED
      BY <2>1, <2>2, <2>3, <3>3, <3>4
  <2>4. ASSUME NEW u \in Thread \ {t}
        PROVE  /\ LastStore(u)' = LastStore(u) /\ (InSection(u)' <=> InSection(u))
               /\ buffer'[u] = buffer[u] /\ announce'[u] = announce[u]
    BY <1>2, <2>1, <2>4 DEF LastStore, Val
  <2>5. ASSUME NEW u \in Thread \ {t}
        PROVE  \A k \in 1..Len(buffer'[u]) : Val(u, k)' = INACTIVE <=> Val(u, k - 1)' # INACTIVE
    BY <2>4, <2>5 DEF BufferInv, Val
  <2> QED
    BY <1>2, <2>1, <2>3, <2>4, <2>5 DEF BufferInv
<1>3. ASSUME NEW t \in Thread, Count(t) \/ Advance(t) \/ (\E u \in Thread : Check(t, u))
      PROVE  BufferInv'
  <2>1. UNCHANGED storeVars /\ epochPc[t] \in {"count", "check"}
    BY <1>3 DEF Count, Advance, Check
  <2>2. CASE TryAdvanceReturns(t)
    BY <2>1, <2>2, <1>0, ReturnKeepsSections
  <2>3. CASE ~ TryAdvanceReturns(t)
    <3>1. \A u \in Thread : InSection(u)' <=> InSection(u)
      BY <1>3, <2>3 DEF Count, Advance, Check, InSection, TypeOK
    <3> QED
      BY <1>0, <2>1, <3>1
  <2> QED
    BY <2>2, <2>3
<1>4. ASSUME NEW t \in Thread, AnnounceRead(t) PROVE BufferInv'
  BY <1>0, <1>4 DEF AnnounceRead, InSection, TypeOK
<1>5. ASSUME NEW t \in Thread, AnnounceStore(t) PROVE BufferInv'
  <2>1. Store(t, curEpoch[t]) /\ curEpoch[t] \in Stamp /\ curEpoch[t] # INACTIVE
    BY <1>5 DEF AnnounceStore, TypeOK, Stamp, INACTIVE
  <2>2. \A u \in Thread \ {t} : InSection(u)' <=> InSection(u)
    BY <1>5 DEF AnnounceStore, InSection, TypeOK
  <2>3. ~ InSection(t) /\ InSection(t)'
    BY <1>5 DEF AnnounceStore, InSection, TypeOK, RetireInv
  <2> QED
    BY <1>2, <2>1, <2>2, <2>3
<1>6. ASSUME NEW t \in Thread, UnannounceStore(t) PROVE BufferInv'
  <2>1. Store(t, INACTIVE) /\ INACTIVE \in Stamp
    BY <1>6 DEF UnannounceStore, Stamp
  <2>2. \A u \in Thread \ {t} : InSection(u)' <=> InSection(u)
    BY <1>6 DEF UnannounceStore, InSection, TypeOK
  <2>3. InSection(t) /\ ~ InSection(t)'
    BY <1>6 DEF UnannounceStore, InSection, TypeOK
  <2> QED
    BY <1>2, <2>1, <2>2, <2>3
<1>7. ASSUME NEW t \in Thread, NEW i \in Item, RetireRead(t, i) PROVE BufferInv'
  BY <1>0, <1>7 DEF RetireRead, InSection, TypeOK
<1>8. ASSUME NEW t \in Thread, NEW i \in Item, ReclaimItem(t, i) PROVE BufferInv'
  BY <1>0, <1>8 DEF ReclaimItem, InSection, TypeOK
<1>9. ASSUME NEW t \in Thread, AddToBag(t) PROVE BufferInv'
  <2>1. item[t] # NoItem
    BY <1>9, EpochAssumption DEF AddToBag, RetireInv
  <2> QED
    BY <1>0, <1>9, <2>1 DEF AddToBag, InSection, TypeOK
<1>10. ASSUME UNCHANGED epochVars PROVE BufferInv'
  BY <1>0, <1>10 DEF epochVars, InSection
<1> QED
  BY <1>1, <1>3, <1>4, <1>5, <1>6, <1>7, <1>8, <1>9, <1>10 DEF Next, TryAdvance
-----------------------------------------------------------------------------
\* tryAdvanceEpoch changes the epoch only in Advance, by one.
LEMMA AdvanceBy ==
    ASSUME TypeOK, EpochBounds, CheckInv, NEW t \in Thread, Advance(t)
    PROVE  \/ epochNum' = epochNum
           \/ /\ epochNum' = epochNum + 1
              /\ \A u \in announced : seenAt[u] = epochNum
<1>1. CASE epochNum = curEpoch[t]
  <2>1. \A u \in announced : seenAt[u] = epochNum
    BY <1>1 DEF Advance, CheckInv
  <2> QED
    BY <1>1, <2>1 DEF Advance
<1>2. CASE epochNum # curEpoch[t]
  BY <1>2 DEF Advance
<1> QED
  BY <1>1, <1>2

LEMMA BoundsStep ==
    TypeOK /\ EpochBounds /\ CheckInv /\ [Next]_epochVars => EpochBounds'
<1> SUFFICES ASSUME TypeOK, EpochBounds, CheckInv, [Next]_epochVars PROVE EpochBounds'
  OBVIOUS
<1> USE DEF storeVars, privateVars, controlVars, contractVars
\* The epoch and the announcements stay; the locals are right.
<1>0. ASSUME UNCHANGED <<epochNum, announced, seenAt, storeVars>>,
             \A u \in Thread : /\ curEpoch'[u] <= epochNum
                               /\ prevRetireEpoch'[u] <= epochNum
                               /\ epochPc'[u] = "retire" => prevRetireEpoch'[u] <= curEpoch'[u]
      PROVE  EpochBounds'
  BY <1>0 DEF EpochBounds, Val
<1>1. ASSUME NEW t \in Thread, Flush(t) PROVE EpochBounds'
  <2> SUFFICES ASSUME NEW u \in Thread
      PROVE  /\ curEpoch'[u] <= epochNum' /\ prevRetireEpoch'[u] <= epochNum'
             /\ epochPc'[u] = "retire" => prevRetireEpoch'[u] <= curEpoch'[u]
             /\ \A k \in 0..Len(buffer'[u]) : Val(u, k)' <= epochNum'
             /\ u \in announced' <=> announce'[u] # INACTIVE
             /\ u \in announced' => /\ announce'[u] <= seenAt'[u]
                                    /\ seenAt'[u] <= epochNum'
                                    /\ epochNum' <= seenAt'[u] + 1
    BY DEF EpochBounds
  <2>1. UNCHANGED <<epochNum, curEpoch, prevRetireEpoch, epochPc>>
        /\ seenAt' = [seenAt EXCEPT ![t] = epochNum]
    BY <1>1 DEF Flush
  <2>2. /\ curEpoch[u] <= epochNum /\ prevRetireEpoch[u] <= epochNum
        /\ epochPc[u] = "retire" => prevRetireEpoch[u] <= curEpoch[u]
        /\ u \in announced <=> announce[u] # INACTIVE
        /\ u \in announced => /\ announce[u] <= seenAt[u]
                              /\ seenAt[u] <= epochNum
                              /\ epochNum <= seenAt[u] + 1
    BY DEF EpochBounds
  <2>3. CASE u = t
    <3>1. /\ Len(buffer[t]) \in Nat \ {0} /\ Len(buffer'[t]) = Len(buffer[t]) - 1
          /\ \A k \in 0..Len(buffer'[t]) : Val(t, k)' = Val(t, k + 1)
          /\ announce'[t] = Val(t, 1) /\ Head(buffer[t]) = Val(t, 1)
      BY <1>1, FlushVal
    <3>2. \A k \in 0..Len(buffer[t]) : Val(t, k) <= epochNum
      BY DEF EpochBounds
    <3>3. \A k \in 0..Len(buffer'[t]) : Val(t, k)' <= epochNum
      BY <3>1, <3>2
    <3>4. announce'[t] <= epochNum
      BY <3>1, <3>2
    <3>5. seenAt'[t] = epochNum /\ epochNum \in Nat
      BY <2>1 DEF TypeOK
    <3>6. t \in announced' <=> announce'[t] # INACTIVE
      BY <1>1, <3>1 DEF Flush, Contract!Announce, Contract!Unannounce
    <3> QED
      BY <2>1, <2>2, <2>3, <3>3, <3>4, <3>5, <3>6
  <2>4. CASE u # t
    <3>1. buffer'[u] = buffer[u] /\ announce'[u] = announce[u]
      BY <1>1, <2>4, FlushVal
    <3>2. seenAt'[u] = seenAt[u]
      BY <2>1, <2>4 DEF TypeOK
    <3>3. u \in announced' <=> u \in announced
      BY <1>1, <2>4 DEF Flush, Contract!Announce, Contract!Unannounce
    <3>4. \A k \in 0..Len(buffer'[u]) : Val(u, k)' <= epochNum
      BY <3>1 DEF EpochBounds, Val
    <3> QED
      BY <2>1, <2>2, <3>1, <3>2, <3>3, <3>4
  <2> QED
    BY <2>3, <2>4
<1>2. ASSUME NEW t \in Thread, Count(t) \/ (\E u \in Thread : Check(t, u)) PROVE EpochBounds'
  <2>1. UNCHANGED <<epochNum, announced, seenAt, storeVars, prevRetireEpoch>>
    BY <1>2 DEF Count, Check
  <2>2. \A u \in Thread : /\ curEpoch'[u] \in {curEpoch[u], 0}
                          /\ epochPc'[u] = "retire" => epochPc[u] = "retire" /\ curEpoch'[u] = curEpoch[u]
    BY <1>2 DEF Count, Check, TryAdvanceReturns, ReturnTo, TypeOK
  <2>3. \A u \in Thread : /\ curEpoch[u] <= epochNum /\ prevRetireEpoch[u] <= epochNum
                          /\ epochPc[u] = "retire" => prevRetireEpoch[u] <= curEpoch[u]
    BY DEF EpochBounds
  <2>4. 0 <= epochNum
    BY DEF TypeOK
  <2>5. \A u \in Thread : curEpoch'[u] <= epochNum
    BY <2>2, <2>3, <2>4
  <2> QED
    BY <1>0, <2>1, <2>2, <2>3, <2>5
<1>3. ASSUME NEW t \in Thread, Advance(t) PROVE EpochBounds'
  <2>1. UNCHANGED <<announced, seenAt, storeVars, prevRetireEpoch>>
    BY <1>3 DEF Advance
  <2>2. \A u \in Thread : /\ curEpoch'[u] \in {curEpoch[u], 0}
                          /\ epochPc'[u] = "retire" => epochPc[u] = "retire" /\ curEpoch'[u] = curEpoch[u]
    BY <1>3 DEF Advance, TryAdvanceReturns, ReturnTo, TypeOK
  <2>3. epochNum \in Nat /\ \A u \in announced : u \in Thread
    BY DEF TypeOK, Contract!TypeOK
  <2>4. epochNum' \in {epochNum, epochNum + 1} /\ \A u \in announced : epochNum' <= seenAt[u] + 1
    BY <1>3, <2>3, AdvanceBy DEF EpochBounds
  <2>5. ASSUME NEW u \in Thread
        PROVE  /\ curEpoch'[u] <= epochNum' /\ prevRetireEpoch'[u] <= epochNum'
               /\ epochPc'[u] = "retire" => prevRetireEpoch'[u] <= curEpoch'[u]
    BY <2>1, <2>2, <2>3, <2>4, <2>5 DEF EpochBounds, TypeOK
  <2>6. ASSUME NEW u \in Thread
        PROVE  /\ u \in announced <=> announce[u] # INACTIVE
               /\ u \in announced => /\ announce[u] <= seenAt[u]
                                     /\ seenAt[u] <= epochNum'
                                     /\ epochNum' <= seenAt[u] + 1
    BY <2>3, <2>4, <2>6 DEF EpochBounds, TypeOK
  <2>7. ASSUME NEW u \in Thread, NEW k \in 0..Len(buffer[u]) PROVE Val(u, k) <= epochNum'
    <3>1. Val(u, k) <= epochNum
      BY <2>7 DEF EpochBounds
    <3>2. announce[u] \in Int /\ buffer[u] \in Seq(Int)
      BY DEF TypeOK, INACTIVE
    <3>3. Val(u, k) \in Int
      BY <2>7, <3>2 DEF Val
    <3> QED
      BY <2>3, <2>4, <3>1, <3>3
  <2> QED
    BY <2>1, <2>5, <2>6, <2>7 DEF EpochBounds, Val
<1>4. ASSUME NEW t \in Thread, NEW e \in Stamp, Store(t, e), e <= epochNum,
             UNCHANGED <<epochNum, announced, seenAt, curEpoch, prevRetireEpoch>>,
             \A u \in Thread : epochPc'[u] = "retire" => epochPc[u] = "retire"
      PROVE  EpochBounds'
  <2>1. /\ Len(buffer'[t]) = Len(buffer[t]) + 1 /\ announce' = announce
        /\ \A k \in 0..Len(buffer[t]) : Val(t, k)' = Val(t, k)
        /\ LastStore(t)' = e
        /\ \A u \in Thread \ {t} : buffer'[u] = buffer[u]
    BY <1>4, StoreVal
  <2>2. Len(buffer[t]) \in Nat
    BY DEF TypeOK
  <2>3. ASSUME NEW k \in 0..Len(buffer'[t]) PROVE Val(t, k)' <= epochNum
    <3>1. CASE k \in 0..Len(buffer[t])
      BY <2>1, <3>1 DEF EpochBounds
    <3>2. CASE k = Len(buffer'[t])
      BY <1>4, <2>1, <3>2 DEF LastStore, Val
    <3> QED
      BY <2>1, <2>2, <2>3, <3>1, <3>2
  <2>4. ASSUME NEW u \in Thread \ {t}, NEW k \in 0..Len(buffer'[u]) PROVE Val(u, k)' <= epochNum
    BY <2>1, <2>4 DEF EpochBounds, Val
  <2>5. \A u \in Thread : \A k \in 0..Len(buffer'[u]) : Val(u, k)' <= epochNum
    BY <2>3, <2>4
  <2> QED
    BY <1>4, <2>1, <2>5 DEF EpochBounds
<1>5. ASSUME NEW t \in Thread, AnnounceRead(t) PROVE EpochBounds'
  BY <1>0, <1>5 DEF AnnounceRead, EpochBounds, TypeOK
<1>6. ASSUME NEW t \in Thread, AnnounceStore(t) PROVE EpochBounds'
  <2>1. Store(t, curEpoch[t]) /\ curEpoch[t] \in Stamp /\ curEpoch[t] <= epochNum
    BY <1>6 DEF AnnounceStore, TypeOK, Stamp, EpochBounds
  <2> QED
    BY <1>4, <1>6, <2>1 DEF AnnounceStore, TypeOK
<1>7. ASSUME NEW t \in Thread, UnannounceStore(t) PROVE EpochBounds'
  <2>1. Store(t, INACTIVE) /\ INACTIVE \in Stamp /\ INACTIVE <= epochNum
    BY <1>7 DEF UnannounceStore, TypeOK, Stamp, INACTIVE
  <2> QED
    BY <1>4, <1>7, <2>1 DEF UnannounceStore, TypeOK
<1>8. ASSUME NEW t \in Thread, NEW i \in Item, RetireRead(t, i) PROVE EpochBounds'
  BY <1>0, <1>8 DEF RetireRead, Contract!Retire, EpochBounds, TypeOK
<1>9. ASSUME NEW t \in Thread, NEW i \in Item, ReclaimItem(t, i) PROVE EpochBounds'
  BY <1>0, <1>9 DEF ReclaimItem, EpochBounds
<1>10. ASSUME NEW t \in Thread, AddToBag(t) PROVE EpochBounds'
  BY <1>0, <1>10 DEF AddToBag, EpochBounds, TypeOK
<1>11. ASSUME UNCHANGED epochVars PROVE EpochBounds'
  BY <1>0, <1>11 DEF epochVars, EpochBounds
<1> QED
  BY <1>1, <1>2, <1>3, <1>5, <1>6, <1>7, <1>8, <1>9, <1>10, <1>11 DEF Next, TryAdvance

LEMMA CheckStep ==
    TypeOK /\ EpochBounds /\ CheckInv /\ [Next]_epochVars => CheckInv'
<1> SUFFICES ASSUME TypeOK, EpochBounds, CheckInv, [Next]_epochVars,
                    NEW u \in Thread, epochPc'[u] = "check", curEpoch'[u] = epochNum',
                    NEW x \in announced'
             PROVE  x \in unchecked'[u] \/ (x = u /\ buffer'[u] # <<>>) \/ seenAt'[x] = epochNum'
  BY DEF CheckInv
<1> USE DEF storeVars, privateVars, controlVars, contractVars
\* Nothing relevant to u and x changes.
<1>0. ASSUME UNCHANGED <<epochNum, announced, seenAt>>,
             epochPc[u] = "check", curEpoch[u] = epochNum,
             unchecked'[u] = unchecked[u], buffer'[u] = buffer[u]
      PROVE  x \in unchecked'[u] \/ (x = u /\ buffer'[u] # <<>>) \/ seenAt'[x] = epochNum'
  BY <1>0 DEF CheckInv
<1>1. ASSUME NEW t \in Thread, Flush(t)
      PROVE  x \in unchecked'[u] \/ (x = u /\ buffer'[u] # <<>>) \/ seenAt'[x] = epochNum'
  <2>1. /\ UNCHANGED <<epochNum, epochPc, curEpoch, unchecked>>
        /\ seenAt' = [seenAt EXCEPT ![t] = epochNum]
    BY <1>1 DEF Flush
  <2>2. x \in Thread /\ (x = t \/ x \in announced)
    BY <1>1 DEF Flush, Contract!Announce, Contract!Unannounce, TypeOK, Contract!TypeOK
  <2>3. CASE x = t
    BY <2>1, <2>3 DEF TypeOK
  <2>4. CASE x # t
    <3>1. x \in unchecked[u] \/ (x = u /\ buffer[u] # <<>>) \/ seenAt[x] = epochNum
      BY <2>1, <2>2, <2>4 DEF CheckInv
    <3>2. buffer'[x] = buffer[x] /\ seenAt'[x] = seenAt[x]
      BY <1>1, <2>1, <2>2, <2>4, FlushVal DEF TypeOK
    <3> QED
      BY <2>1, <3>1, <3>2
  <2> QED
    BY <2>3, <2>4
<1>2. ASSUME NEW t \in Thread, Count(t)
      PROVE  x \in unchecked'[u] \/ (x = u /\ buffer'[u] # <<>>) \/ seenAt'[x] = epochNum'
  <2>1. UNCHANGED <<epochNum, announced, seenAt, storeVars>> /\ x \in Thread
    BY <1>2 DEF Count, TypeOK, Contract!TypeOK
  <2>2. CASE u = t
    <3>1. ~ TryAdvanceReturns(t)
      BY <2>2 DEF TryAdvanceReturns, ReturnTo, TypeOK
    <3> QED
      BY <1>2, <2>1, <2>2, <3>1 DEF Count, TypeOK
  <2>3. CASE u # t
    <3>1. epochPc'[u] = epochPc[u] /\ curEpoch'[u] = curEpoch[u] /\ unchecked'[u] = unchecked[u]
      BY <1>2, <2>3 DEF Count, TryAdvanceReturns, TypeOK
    <3> QED
      BY <1>0, <2>1, <3>1
  <2> QED
    BY <2>2, <2>3
<1>3. ASSUME NEW t \in Thread, NEW y \in Thread, Check(t, y)
      PROVE  x \in unchecked'[u] \/ (x = u /\ buffer'[u] # <<>>) \/ seenAt'[x] = epochNum'
  <2>1. UNCHANGED <<epochNum, announced, seenAt, storeVars>> /\ x \in announced
    BY <1>3 DEF Check
  <2>2. CASE u = t
    <3>1. ~ TryAdvanceReturns(t)
      BY <2>2 DEF TryAdvanceReturns, ReturnTo, TypeOK
    <3>2. /\ epochPc[t] = "check" /\ UNCHANGED <<epochPc, curEpoch>>
          /\ NotBehind(Load(t, y), curEpoch[t])
          /\ unchecked' = [unchecked EXCEPT ![t] = unchecked[t] \ {y}]
      BY <1>3, <3>1 DEF Check
    <3>3. curEpoch[t] = epochNum /\ unchecked'[t] = unchecked[t] \ {y}
      BY <2>1, <2>2, <3>2 DEF TypeOK
    <3>4. x \in unchecked[t] \/ (x = t /\ buffer[t] # <<>>) \/ seenAt[x] = epochNum
      BY <2>1, <3>2, <3>3 DEF CheckInv
    <3>5. CASE x # y
      BY <2>1, <2>2, <3>3, <3>4, <3>5
    <3>6. CASE x = y /\ ~ (x = t /\ buffer[t] # <<>>)
      <4>1. Load(t, y) = announce[y] /\ announce[y] # INACTIVE
        BY <2>1, <3>6 DEF Load, EpochBounds
      <4>2. announce[y] = epochNum
        BY <3>2, <3>3, <4>1 DEF NotBehind
      <4>3. announce[y] <= seenAt[y] /\ seenAt[y] <= epochNum
        BY <2>1, <3>6 DEF EpochBounds
      <4>4. seenAt[y] \in Nat /\ epochNum \in Nat
        BY DEF TypeOK
      <4> QED
        BY <2>1, <3>6, <4>2, <4>3, <4>4
    <3>7. CASE x = t /\ buffer[t] # <<>>
      BY <2>1, <2>2, <3>7
    <3> QED
      BY <3>5, <3>6, <3>7
  <2>3. CASE u # t
    <3>1. epochPc'[u] = epochPc[u] /\ curEpoch'[u] = curEpoch[u] /\ unchecked'[u] = unchecked[u]
      BY <1>3, <2>3 DEF Check, TryAdvanceReturns, TypeOK
    <3> QED
      BY <1>0, <2>1, <3>1
  <2> QED
    BY <2>2, <2>3
<1>4. ASSUME NEW t \in Thread, Advance(t)
      PROVE  x \in unchecked'[u] \/ (x = u /\ buffer'[u] # <<>>) \/ seenAt'[x] = epochNum'
  <2>1. UNCHANGED <<announced, seenAt, storeVars>>
    BY <1>4 DEF Advance
  <2>2. u # t
    BY <1>4 DEF Advance, TryAdvanceReturns, ReturnTo, TypeOK
  <2>3. epochPc'[u] = epochPc[u] /\ curEpoch'[u] = curEpoch[u] /\ unchecked'[u] = unchecked[u]
    BY <1>4, <2>2 DEF Advance, TryAdvanceReturns, TypeOK
  <2>4. curEpoch[u] <= epochNum /\ curEpoch[u] \in Nat /\ epochNum \in Nat
    BY DEF EpochBounds, TypeOK
  <2>5. epochNum' = epochNum
    BY <1>4, <2>3, <2>4 DEF Advance
  <2> QED
    BY <1>0, <2>1, <2>3, <2>5
<1>5. ASSUME NEW t \in Thread, AnnounceStore(t) \/ UnannounceStore(t)
      PROVE  x \in unchecked'[u] \/ (x = u /\ buffer'[u] # <<>>) \/ seenAt'[x] = epochNum'
  <2>1. UNCHANGED <<epochNum, announced, seenAt, curEpoch, unchecked>>
    BY <1>5 DEF AnnounceStore, UnannounceStore
  <2>2. u # t
    BY <1>5 DEF AnnounceStore, UnannounceStore, TypeOK
  <2>3. epochPc'[u] = epochPc[u]
    BY <1>5, <2>2 DEF AnnounceStore, UnannounceStore, TypeOK
  <2>4. buffer'[u] = buffer[u]
    BY <1>5, <2>2 DEF AnnounceStore, UnannounceStore, Store, TypeOK
  <2> QED
    BY <1>0, <2>1, <2>3, <2>4
<1>6. ASSUME NEW t \in Thread, AnnounceRead(t) \/ AddToBag(t) \/ (\E i \in Item : RetireRead(t, i))
      PROVE  x \in unchecked'[u] \/ (x = u /\ buffer'[u] # <<>>) \/ seenAt'[x] = epochNum'
  <2>1. UNCHANGED <<epochNum, announced, seenAt, storeVars, unchecked>>
    BY <1>6 DEF AnnounceRead, AddToBag, RetireRead, Contract!Retire
  <2>2. u # t
    BY <1>6 DEF AnnounceRead, AddToBag, RetireRead, TypeOK
  <2>3. epochPc'[u] = epochPc[u] /\ curEpoch'[u] = curEpoch[u]
    BY <1>6, <2>2 DEF AnnounceRead, AddToBag, RetireRead, TypeOK
  <2> QED
    BY <1>0, <2>1, <2>3
<1>7. ASSUME NEW t \in Thread, NEW i \in Item, ReclaimItem(t, i)
      PROVE  x \in unchecked'[u] \/ (x = u /\ buffer'[u] # <<>>) \/ seenAt'[x] = epochNum'
  BY <1>0, <1>7 DEF ReclaimItem
<1>8. ASSUME UNCHANGED epochVars
      PROVE  x \in unchecked'[u] \/ (x = u /\ buffer'[u] # <<>>) \/ seenAt'[x] = epochNum'
  BY <1>0, <1>8 DEF epochVars
<1> QED
  BY <1>1, <1>2, <1>3, <1>4, <1>5, <1>6, <1>7, <1>8 DEF Next, TryAdvance
-----------------------------------------------------------------------------
\* An item that somebody holds has been retired, so it is not retired again.
LEMMA HeldIsRetired ==
    ASSUME RetiredHeldOnce, NEW t \in Thread, NEW i \in Item,
           (epochPc[t] = "retire" /\ item[t] = i) \/ (\E r \in 0..2 : i \in retiredNodes[t][r])
    PROVE  stage[i] = "retired"
<1>1. \E p \in Place : Holds(t, p, i)
  BY DEF Holds, Place, InHand
<1> QED
  BY <1>1 DEF RetiredHeldOnce

LEMMA RetireStep ==
    TypeOK /\ RetireInv /\ RetiredHeldOnce /\ [Next]_epochVars => RetireInv'
<1> SUFFICES ASSUME TypeOK, RetireInv, RetiredHeldOnce, [Next]_epochVars, NEW u \in Thread
    PROVE  /\ epochPc'[u] \in {"idle", "announce", "announced"} => item'[u] = NoItem
           /\ epochPc'[u] = "retire" => item'[u] \in Item /\ retiredAt'[item'[u]] = curEpoch'[u]
  BY DEF RetireInv
<1> DEFINE Goal == /\ epochPc'[u] \in {"idle", "announce", "announced"} => item'[u] = NoItem
                   /\ epochPc'[u] = "retire" => item'[u] \in Item /\ retiredAt'[item'[u]] = curEpoch'[u]
<1> USE DEF storeVars, privateVars, controlVars, contractVars
<1>0. ASSUME epochPc'[u] = epochPc[u], item'[u] = item[u], curEpoch'[u] = curEpoch[u],
             retiredAt' = retiredAt
      PROVE  Goal
  BY <1>0 DEF RetireInv
<1>1. ASSUME NEW t \in Thread, Flush(t) PROVE Goal
  BY <1>0, <1>1 DEF Flush
<1>2. ASSUME NEW t \in Thread, Count(t) \/ Advance(t) \/ (\E y \in Thread : Check(t, y)) PROVE Goal
  <2>1. retiredAt' = retiredAt /\ epochPc[t] \in {"count", "check"}
    BY <1>2 DEF Count, Advance, Check
  <2>2. CASE u # t
    BY <1>0, <1>2, <2>1, <2>2 DEF Count, Advance, Check, TryAdvanceReturns, TypeOK
  <2>3. CASE u = t /\ TryAdvanceReturns(t)
    BY <2>3 DEF TryAdvanceReturns, ReturnTo, TypeOK
  <2>4. CASE u = t /\ ~ TryAdvanceReturns(t)
    BY <1>2, <2>1, <2>4 DEF Count, Advance, Check, TypeOK
  <2> QED
    BY <2>2, <2>3, <2>4
<1>3. ASSUME NEW t \in Thread, AnnounceRead(t) PROVE Goal
  BY <1>3 DEF AnnounceRead, RetireInv, TypeOK
<1>4. ASSUME NEW t \in Thread, AnnounceStore(t) PROVE Goal
  BY <1>4 DEF AnnounceStore, RetireInv, TypeOK
<1>5. ASSUME NEW t \in Thread, UnannounceStore(t) PROVE Goal
  BY <1>5 DEF UnannounceStore, RetireInv, TypeOK
<1>6. ASSUME NEW t \in Thread, NEW i \in Item, RetireRead(t, i) PROVE Goal
  <2>1. CASE u = t
    BY <1>6, <2>1 DEF RetireRead, TypeOK
  <2>2. CASE u # t
    <3>1. epochPc'[u] = epochPc[u] /\ item'[u] = item[u] /\ curEpoch'[u] = curEpoch[u]
      BY <1>6, <2>2 DEF RetireRead, TypeOK
    <3>2. stage[i] = "live"
      BY <1>6 DEF RetireRead, Contract!Retire
    <3>3. epochPc[u] = "retire" => item[u] # i
      BY <3>2, HeldIsRetired
    <3>4. retiredAt' = [retiredAt EXCEPT ![i] = epochNum]
      BY <1>6 DEF RetireRead
    <3> QED
      BY <3>1, <3>3, <3>4 DEF RetireInv, TypeOK
  <2> QED
    BY <2>1, <2>2
<1>7. ASSUME NEW t \in Thread, NEW i \in Item, ReclaimItem(t, i) PROVE Goal
  BY <1>0, <1>7 DEF ReclaimItem
<1>8. ASSUME NEW t \in Thread, AddToBag(t) PROVE Goal
  BY <1>8 DEF AddToBag, RetireInv, TypeOK
<1>9. ASSUME UNCHANGED epochVars PROVE Goal
  BY <1>0, <1>9 DEF epochVars
<1> QED
  BY <1>1, <1>2, <1>3, <1>4, <1>5, <1>6, <1>7, <1>8, <1>9 DEF Next, TryAdvance

LEMMA WaitingStep ==
    TypeOK /\ EpochBounds /\ WaitingInv /\ [Next]_epochVars => WaitingInv'
<1> SUFFICES ASSUME TypeOK, EpochBounds, WaitingInv, [Next]_epochVars,
                    NEW i \in Item, NEW x \in waiting'[i]
             PROVE  x \in announced' /\ seenAt'[x] <= retiredAt'[i]
  BY DEF WaitingInv
<1> USE DEF storeVars, privateVars, controlVars, contractVars
<1>0. ASSUME UNCHANGED <<announced, waiting, seenAt, retiredAt>>
      PROVE  x \in announced' /\ seenAt'[x] <= retiredAt'[i]
  BY <1>0 DEF WaitingInv
<1>1. ASSUME NEW t \in Thread, Flush(t)
      PROVE  x \in announced' /\ seenAt'[x] <= retiredAt'[i]
  <2>1. seenAt' = [seenAt EXCEPT ![t] = epochNum] /\ retiredAt' = retiredAt
    BY <1>1 DEF Flush
  <2>2. \/ t \notin announced /\ announced' = announced \cup {t} /\ waiting' = waiting
        \/ announced' = announced \ {t} /\ waiting' = [j \in Item |-> waiting[j] \ {t}]
    BY <1>1 DEF Flush, Contract!Announce, Contract!Unannounce
  <2>3. x \in waiting[i] /\ x \in announced /\ seenAt[x] <= retiredAt[i]
    BY <2>2 DEF WaitingInv
  <2>4. x # t
    BY <2>2, <2>3
  <2>5. x \in announced'
    BY <2>2, <2>3, <2>4
  <2> QED
    BY <2>1, <2>3, <2>4, <2>5 DEF TypeOK, Contract!TypeOK
<1>2. ASSUME NEW t \in Thread, NEW j \in Item, RetireRead(t, j)
      PROVE  x \in announced' /\ seenAt'[x] <= retiredAt'[i]
  <2>1. /\ waiting' = [waiting EXCEPT ![j] = announced]
        /\ retiredAt' = [retiredAt EXCEPT ![j] = epochNum]
        /\ UNCHANGED <<announced, seenAt>>
    BY <1>2 DEF RetireRead, Contract!Retire
  <2>2. CASE i = j
    <3>1. x \in announced /\ x \in Thread /\ retiredAt'[i] = epochNum
      BY <2>1, <2>2 DEF TypeOK, Contract!TypeOK
    <3> QED
      BY <2>1, <3>1 DEF EpochBounds
  <2>3. CASE i # j
    BY <2>1, <2>3 DEF WaitingInv, TypeOK, Contract!TypeOK
  <2> QED
    BY <2>2, <2>3
<1>3. ASSUME NEW t \in Thread, Count(t) \/ Advance(t) \/ (\E y \in Thread : Check(t, y))
      PROVE  x \in announced' /\ seenAt'[x] <= retiredAt'[i]
  BY <1>0, <1>3 DEF Count, Advance, Check
<1>4. ASSUME NEW t \in Thread,
             AnnounceRead(t) \/ AnnounceStore(t) \/ UnannounceStore(t) \/ AddToBag(t)
      PROVE  x \in announced' /\ seenAt'[x] <= retiredAt'[i]
  BY <1>0, <1>4 DEF AnnounceRead, AnnounceStore, UnannounceStore, AddToBag
<1>5. ASSUME NEW t \in Thread, NEW j \in Item, ReclaimItem(t, j)
      PROVE  x \in announced' /\ seenAt'[x] <= retiredAt'[i]
  BY <1>0, <1>5 DEF ReclaimItem
<1>6. ASSUME UNCHANGED epochVars PROVE x \in announced' /\ seenAt'[x] <= retiredAt'[i]
  BY <1>0, <1>6 DEF epochVars
<1> QED
  BY <1>1, <1>2, <1>3, <1>4, <1>5, <1>6 DEF Next, TryAdvance
-----------------------------------------------------------------------------
\* What a bag holds is as old as its index among the expired epochs says.
LEMMA ReclaimableAge ==
    ASSUME TypeOK, BagsByEpoch, NEW t \in Thread, NEW i \in Item
    PROVE  i \in Reclaimable(t)
           <=> /\ \E r \in 0..2 : i \in retiredNodes[t][r]
               /\ retiredAt[i] <= curEpoch[t] - 2
<1> DEFINE p == prevRetireEpoch[t]
<1> DEFINE c == curEpoch[t]
<1>1. p \in Nat /\ c \in Nat /\ retiredAt[i] \in Nat
  BY DEF TypeOK
<1>2. \A r \in 0..2 : i \in retiredNodes[t][r] => retiredAt[i] % 3 = r /\ retiredAt[i] \in {p - 1, p}
  BY DEF BagsByEpoch
<1>3. ASSUME i \in Reclaimable(t)
      PROVE  (\E r \in 0..2 : i \in retiredNodes[t][r]) /\ retiredAt[i] <= c - 2
  <2>1. PICK e \in {p - 1, p} : e <= c - 2 /\ i \in retiredNodes[t][(e + 3) % 3]
    BY <1>3 DEF Reclaimable, Expired
  <2>2. (e + 3) % 3 \in 0..2
    BY <1>1
  <2>3. retiredAt[i] % 3 = (e + 3) % 3 /\ retiredAt[i] \in {p - 1, p}
    BY <1>2, <2>1, <2>2
  <2>4. retiredAt[i] = e
    BY <1>1, <2>3
  <2> QED
    BY <2>1, <2>2, <2>4
<1>4. ASSUME NEW r \in 0..2, i \in retiredNodes[t][r], retiredAt[i] <= c - 2
      PROVE  i \in Reclaimable(t)
  <2>1. retiredAt[i] % 3 = r /\ retiredAt[i] \in {p - 1, p}
    BY <1>2, <1>4
  <2>2. (retiredAt[i] + 3) % 3 = r
    BY <1>1, <2>1
  <2>3. retiredAt[i] \in Expired(p, c)
    BY <1>4, <2>1 DEF Expired
  <2> QED
    BY <1>4, <2>2, <2>3 DEF Reclaimable
<1> QED
  BY <1>3, <1>4

LEMMA BagsStep ==
    TypeOK /\ EpochBounds /\ RetireInv /\ RetiredHeldOnce /\ BagsByEpoch /\ [Next]_epochVars
    => BagsByEpoch'
<1> SUFFICES ASSUME TypeOK, EpochBounds, RetireInv, RetiredHeldOnce, BagsByEpoch,
                    [Next]_epochVars,
                    NEW u \in Thread, NEW r \in 0..2, NEW j \in retiredNodes'[u][r]
             PROVE  /\ retiredAt'[j] % 3 = r
                    /\ retiredAt'[j] \in {prevRetireEpoch'[u] - 1, prevRetireEpoch'[u]}
  BY DEF BagsByEpoch
<1> DEFINE Goal == /\ retiredAt'[j] % 3 = r
                   /\ retiredAt'[j] \in {prevRetireEpoch'[u] - 1, prevRetireEpoch'[u]}
<1> USE DEF storeVars, privateVars, controlVars, contractVars
<1>0. ASSUME UNCHANGED <<retiredNodes, retiredAt, prevRetireEpoch>> PROVE Goal
  BY <1>0 DEF BagsByEpoch
<1>1. ASSUME NEW t \in Thread, NEW i \in Item, RetireRead(t, i) PROVE Goal
  <2>1. UNCHANGED <<retiredNodes, prevRetireEpoch>> /\ stage[i] = "live"
        /\ retiredAt' = [retiredAt EXCEPT ![i] = epochNum]
    BY <1>1 DEF RetireRead, Contract!Retire
  <2>2. j \in retiredNodes[u][r] /\ j \in Item
    BY <2>1 DEF TypeOK
  <2>3. j # i
    BY <2>1, <2>2, HeldIsRetired
  <2> QED
    BY <2>1, <2>2, <2>3 DEF BagsByEpoch, TypeOK
<1>2. ASSUME NEW t \in Thread, NEW i \in Item, ReclaimItem(t, i) PROVE Goal
  <2>1. /\ UNCHANGED <<retiredAt, prevRetireEpoch>>
        /\ \E b \in 0..2 : retiredNodes' = [retiredNodes EXCEPT ![t][b] = @ \ {i}]
    BY <1>2, ReclaimBag
  <2>2. j \in retiredNodes[u][r]
    BY <2>1 DEF TypeOK
  <2> QED
    BY <2>1, <2>2 DEF BagsByEpoch
<1>3. ASSUME NEW t \in Thread, AddToBag(t) PROVE Goal
  <2> DEFINE c == curEpoch[t]
  <2>1. /\ epochPc[t] = "retire" /\ Reclaimable(t) = {} /\ retiredAt' = retiredAt
        /\ prevRetireEpoch' = [prevRetireEpoch EXCEPT ![t] = c]
        /\ retiredNodes' = [retiredNodes EXCEPT ![t][c % 3] = @ \cup {item[t]}]
    BY <1>3 DEF AddToBag
  <2>2. CASE u # t
    BY <2>1, <2>2 DEF BagsByEpoch, TypeOK
  <2>3. CASE u = t
    <3>1. prevRetireEpoch'[t] = c /\ c \in Nat /\ prevRetireEpoch[t] \in Nat
          /\ prevRetireEpoch[t] <= c
      BY <2>1 DEF TypeOK, EpochBounds
    <3>2. j \in retiredNodes[t][r] \/ (j = item[t] /\ r = c % 3)
      BY <2>1, <2>3 DEF TypeOK
    <3>3. CASE j = item[t] /\ r = c % 3
      BY <2>1, <2>3, <3>1, <3>3 DEF RetireInv
    <3>4. CASE j \in retiredNodes[t][r]
      <4>1. j \in Item
        BY <3>4 DEF TypeOK
      <4>2. /\ retiredAt[j] % 3 = r /\ retiredAt[j] \in Nat
            /\ retiredAt[j] \in {prevRetireEpoch[t] - 1, prevRetireEpoch[t]}
        BY <3>4, <4>1 DEF BagsByEpoch, TypeOK
      <4>3. ~ (retiredAt[j] <= c - 2)
        BY <2>1, <3>4, <4>1, ReclaimableAge
      <4> QED
        BY <2>1, <2>3, <3>1, <4>2, <4>3
    <3> QED
      BY <3>2, <3>3, <3>4
  <2> QED
    BY <2>2, <2>3
<1>4. ASSUME NEW t \in Thread, Flush(t) \/ TryAdvance(t) \/ AnnounceRead(t)
                               \/ AnnounceStore(t) \/ UnannounceStore(t)
      PROVE  Goal
  BY <1>0, <1>4
     DEF Flush, TryAdvance, Count, Check, Advance, AnnounceRead, AnnounceStore, UnannounceStore
<1>5. ASSUME UNCHANGED epochVars PROVE Goal
  BY <1>0, <1>5 DEF epochVars
<1> QED
  BY <1>1, <1>2, <1>3, <1>4, <1>5 DEF Next

LEMMA HeldStep ==
    TypeOK /\ RetireInv /\ BagsByEpoch /\ RetiredHeldOnce /\ [Next]_epochVars
    => RetiredHeldOnce'
<1> SUFFICES ASSUME TypeOK, RetireInv, BagsByEpoch, RetiredHeldOnce, [Next]_epochVars, NEW j \in Item
             PROVE  /\ stage'[j] = "retired" <=> \E x \in Thread, p \in Place : Holds(x, p, j)'
                    /\ \A x, y \in Thread, p, q \in Place :
                           Holds(x, p, j)' /\ Holds(y, q, j)' => x = y /\ p = q
  BY DEF RetiredHeldOnce
<1> DEFINE Goal == /\ stage'[j] = "retired" <=> \E x \in Thread, p \in Place : Holds(x, p, j)'
                   /\ \A x, y \in Thread, p, q \in Place :
                          Holds(x, p, j)' /\ Holds(y, q, j)' => x = y /\ p = q
<1> USE DEF storeVars, privateVars, controlVars, contractVars
\* The item's stage and its places stay as they are.
<1>a. ASSUME stage'[j] = stage[j],
             \A x \in Thread, p \in Place : Holds(x, p, j)' <=> Holds(x, p, j)
      PROVE  Goal
  BY <1>a DEF RetiredHeldOnce
\* The items in the hands of running retires and the bags stay as they are.
<1>0. ASSUME stage' = stage, retiredNodes' = retiredNodes,
             \A x \in Thread : (epochPc'[x] = "retire" /\ item'[x] = j)
                               <=> (epochPc[x] = "retire" /\ item[x] = j)
      PROVE  Goal
  <2>1. \A x \in Thread, p \in Place : Holds(x, p, j)' <=> Holds(x, p, j)
    BY <1>0 DEF Holds
  <2> QED
    BY <1>0, <1>a, <2>1
<1>1. ASSUME NEW t \in Thread, Flush(t) PROVE Goal
  BY <1>0, <1>1 DEF Flush, Contract!Announce, Contract!Unannounce
<1>2. ASSUME NEW t \in Thread, Count(t) \/ Advance(t) \/ (\E y \in Thread : Check(t, y)) PROVE Goal
  <2>1. stage' = stage /\ retiredNodes' = retiredNodes /\ epochPc[t] \in {"count", "check"}
    BY <1>2 DEF Count, Advance, Check
  <2>2. epochPc'[t] # "retire"
    BY <1>2, <2>1 DEF Count, Advance, Check, TryAdvanceReturns, ReturnTo, TypeOK
  <2>3. \A x \in Thread \ {t} : epochPc'[x] = epochPc[x] /\ item'[x] = item[x]
    BY <1>2 DEF Count, Advance, Check, TryAdvanceReturns, TypeOK
  <2> QED
    BY <1>0, <2>1, <2>2, <2>3
<1>3. ASSUME NEW t \in Thread, AnnounceRead(t) \/ AnnounceStore(t) \/ UnannounceStore(t) PROVE Goal
  <2>1. /\ stage' = stage /\ retiredNodes' = retiredNodes /\ item' = item
        /\ epochPc[t] # "retire" /\ epochPc'[t] # "retire"
        /\ \A x \in Thread \ {t} : epochPc'[x] = epochPc[x]
    BY <1>3 DEF AnnounceRead, AnnounceStore, UnannounceStore, TypeOK
  <2> QED
    BY <1>0, <2>1
<1>4. ASSUME NEW t \in Thread, NEW i \in Item, RetireRead(t, i) PROVE Goal
  <2>1. /\ epochPc[t] = "idle" /\ epochPc' = [epochPc EXCEPT ![t] = "retire"]
        /\ item' = [item EXCEPT ![t] = i] /\ retiredNodes' = retiredNodes
        /\ stage[i] = "live" /\ stage' = [stage EXCEPT ![i] = "retired"]
    BY <1>4 DEF RetireRead, Contract!Retire
  <2>2. \A x \in Thread, p \in Place : ~ Holds(x, p, i)
    BY <2>1 DEF RetiredHeldOnce
  <2>3. CASE j = i
    <3>1. \A x \in Thread, p \in Place : Holds(x, p, i)' <=> (x = t /\ p = InHand)
      BY <2>1, <2>2 DEF Holds, TypeOK, Place, InHand
    <3>2. stage'[i] = "retired"
      BY <2>1 DEF TypeOK, Contract!TypeOK
    <3> QED
      BY <2>3, <3>1, <3>2 DEF Place, InHand
  <2>4. CASE j # i
    <3>1. \A x \in Thread, p \in Place : Holds(x, p, j)' <=> Holds(x, p, j)
      BY <2>1, <2>4 DEF Holds, TypeOK
    <3>2. stage'[j] = stage[j]
      BY <2>1, <2>4 DEF TypeOK, Contract!TypeOK
    <3> QED
      BY <1>a, <3>1, <3>2
  <2> QED
    BY <2>3, <2>4
<1>5. ASSUME NEW t \in Thread, NEW i \in Item, ReclaimItem(t, i) PROVE Goal
  <2>1. PICK b \in 0..2 :
          /\ i \in retiredNodes[t][b]
          /\ retiredNodes' = [retiredNodes EXCEPT ![t][b] = @ \ {i}]
    BY <1>5, ReclaimBag
  <2>2. /\ UNCHANGED <<epochPc, item>>
        /\ stage' = [stage EXCEPT ![i] = "reclaimed"]
    BY <1>5, ReclaimBag
  <2>3. \A x \in Thread, p \in Place :
            Holds(x, p, j)' <=> Holds(x, p, j) /\ ~ (x = t /\ p = b /\ j = i)
    BY <2>1, <2>2 DEF Holds, TypeOK, InHand
  <2>4. CASE j = i
    <3>1. b \in Place /\ Holds(t, b, i)
      BY <2>1 DEF Holds, Place, InHand
    <3>2. \A x \in Thread, p \in Place : Holds(x, p, i) => x = t /\ p = b
      BY <3>1 DEF RetiredHeldOnce
    <3>3. stage'[i] # "retired"
      BY <2>2 DEF TypeOK, Contract!TypeOK
    <3> QED
      BY <2>3, <2>4, <3>2, <3>3
  <2>5. CASE j # i
    <3>1. stage'[j] = stage[j]
      BY <2>2, <2>5 DEF TypeOK, Contract!TypeOK
    <3> QED
      BY <1>a, <2>3, <2>5, <3>1
  <2> QED
    BY <2>4, <2>5
\* The item moves from the hands of the retire into the bag of its epoch.
<1>6. ASSUME NEW t \in Thread, AddToBag(t) PROVE Goal
  <2> DEFINE c == curEpoch[t] % 3
  <2>1. /\ epochPc[t] = "retire" /\ epochPc' = [epochPc EXCEPT ![t] = "count"]
        /\ stage' = stage /\ item' = item
        /\ retiredNodes' = [retiredNodes EXCEPT ![t][c] = @ \cup {item[t]}]
        /\ c \in 0..2
    BY <1>6 DEF AddToBag, TypeOK
  <2>2. \A x \in Thread, r \in 0..2 :
            j \in retiredNodes'[x][r]
            <=> j \in retiredNodes[x][r] \/ (x = t /\ r = c /\ j = item[t])
    BY <2>1 DEF TypeOK
  <2>3. CASE j # item[t]
    <3>1. \A x \in Thread, p \in Place : Holds(x, p, j)' <=> Holds(x, p, j)
      BY <2>1, <2>2, <2>3 DEF Holds, TypeOK
    <3> QED
      BY <1>a, <2>1, <3>1
  <2>4. CASE j = item[t]
    <3>1. InHand \in Place /\ Holds(t, InHand, j)
      BY <2>1, <2>4 DEF Holds, Place, InHand
    <3>2. \A x \in Thread, p \in Place : Holds(x, p, j) => x = t /\ p = InHand
      BY <3>1 DEF RetiredHeldOnce
    <3>3. ASSUME NEW x \in Thread, NEW p \in Place
          PROVE  Holds(x, p, j)' <=> x = t /\ p = c
      <4>1. CASE p = InHand
        <5>1. ~ Holds(x, p, j)'
          BY <2>1, <3>2, <4>1 DEF Holds, TypeOK, InHand
        <5> QED
          BY <2>1, <4>1, <5>1 DEF InHand
      <4>2. CASE p \in 0..2
        <5>1. j \notin retiredNodes[x][p]
          BY <3>2, <4>2 DEF Holds, InHand
        <5> QED
          BY <2>2, <2>4, <4>2, <5>1 DEF Holds, InHand
      <4> QED
        BY <4>1, <4>2 DEF Place, InHand
    <3>4. c \in Place /\ stage[j] = "retired"
      BY <2>1, <3>1 DEF RetiredHeldOnce, Place, InHand
    <3> QED
      BY <2>1, <3>3, <3>4
  <2> QED
    BY <2>3, <2>4
<1>7. ASSUME UNCHANGED epochVars PROVE Goal
  BY <1>0, <1>7 DEF epochVars
<1> QED
  BY <1>1, <1>2, <1>3, <1>4, <1>5, <1>6, <1>7 DEF Next, TryAdvance
-----------------------------------------------------------------------------
LEMMA InvInit == Init => IInv
<1> SUFFICES ASSUME Init PROVE IInv
  OBVIOUS
<1> USE DEF Init, Contract!Init, INACTIVE
<1>1. TypeOK
  <2>1. <<>> \in Seq(Nat \cup {INACTIVE})
    OBVIOUS
  <2>2. AnnouncesBeforeCollect \in Nat
    BY EpochAssumption
  <2> QED
    BY <2>1, <2>2 DEF TypeOK, Contract!TypeOK
<1>2. \A t \in Thread : Len(buffer[t]) = 0 /\ ~ InSection(t)
  BY DEF InSection
<1>3. BufferInv
  <2> SUFFICES ASSUME NEW t \in Thread
               PROVE  /\ LastStore(t) = INACTIVE
                      /\ \A k \in 1..Len(buffer[t]) : FALSE
    BY <1>2 DEF BufferInv
  <2>1. LastStore(t) = announce[t]
    BY <1>2 DEF LastStore, Val
  <2>2. \A k \in 1..0 : FALSE
    OBVIOUS
  <2> QED
    BY <1>2, <2>1, <2>2
<1>4. EpochBounds
  <2> SUFFICES ASSUME NEW t \in Thread
               PROVE  /\ \A k \in 0..Len(buffer[t]) : Val(t, k) <= epochNum
                      /\ t \notin announced /\ announce[t] = INACTIVE
                      /\ curEpoch[t] <= epochNum /\ prevRetireEpoch[t] <= epochNum
                      /\ epochPc[t] # "retire"
    BY DEF EpochBounds
  <2>1. Val(t, 0) <= epochNum
    BY DEF Val
  <2>2. \A k \in 0..0 : k = 0
    OBVIOUS
  <2> QED
    BY <1>2, <2>1, <2>2
<1>5. CheckInv /\ RetireInv /\ WaitingInv /\ BagsByEpoch
  BY DEF CheckInv, RetireInv, WaitingInv, BagsByEpoch
<1>6. RetiredHeldOnce
  BY DEF RetiredHeldOnce, Holds
<1> QED
  BY <1>1, <1>3, <1>4, <1>5, <1>6 DEF IInv

LEMMA InvStep == IInv /\ [Next]_epochVars => IInv'
BY TypeStep, BufferStep, BoundsStep, CheckStep, RetireStep, WaitingStep, BagsStep, HeldStep
   DEF IInv

\* IInv holds in every reachable state.
LEMMA Inductive == Spec => []IInv
BY InvInit, InvStep, PTL DEF Spec

\* Types, for any number of threads and items and any buffer size.
THEOREM EpochTypeCorrect == Spec => []TypeOK
<1>1. IInv => TypeOK
  BY DEF IInv
<1> QED
  BY <1>1, Inductive, PTL

\* A visible announcement lets the epoch advance at most once.
THEOREM EpochHeldBackCorrect == Spec => []EpochHeldBack
<1>1. IInv => EpochHeldBack
  BY DEF IInv, EpochBounds, EpochHeldBack, TypeOK, Contract!TypeOK
<1> QED
  BY <1>1, Inductive, PTL

\* Three bags per thread suffice: no bag mixes epochs.
THEOREM BagsCorrect == Spec => []BagsByEpoch
<1>1. IInv => BagsByEpoch
  BY DEF IInv
<1> QED
  BY <1>1, Inductive, PTL

\* Retired items are neither lost nor held twice.
THEOREM RetiredCorrect == Spec => []RetiredHeldOnce
<1>1. IInv => RetiredHeldOnce
  BY DEF IInv
<1> QED
  BY <1>1, Inductive, PTL
-----------------------------------------------------------------------------
\* The item a step reclaims waits for nobody: whoever was announced when it
\* was retired would have held the epoch back.
LEMMA ReclaimedWaitsForNone ==
    ASSUME IInv, NEW t \in Thread, NEW i \in Item, ReclaimItem(t, i)
    PROVE  Contract!Reclaim(i)
<1> USE DEF IInv
<1>1. /\ i \in Reclaimable(t) /\ UNCHANGED <<announced, waiting>>
      /\ stage' = [stage EXCEPT ![i] = "reclaimed"]
  BY ReclaimBag DEF ReclaimItem
<1>2. (\E r \in 0..2 : i \in retiredNodes[t][r]) /\ retiredAt[i] <= curEpoch[t] - 2
  BY <1>1, ReclaimableAge
<1>3. stage[i] = "retired"
  BY <1>2, HeldIsRetired
<1>4. curEpoch[t] <= epochNum
  BY DEF EpochBounds
<1>5. ASSUME NEW x \in waiting[i] PROVE FALSE
  <2>1. x \in announced /\ seenAt[x] <= retiredAt[i] /\ x \in Thread
    BY <1>5 DEF WaitingInv, TypeOK, Contract!TypeOK
  <2>2. epochNum <= seenAt[x] + 1
    BY <2>1 DEF EpochBounds
  <2> QED
    BY <1>2, <1>4, <2>1, <2>2 DEF TypeOK
<1> QED
  BY <1>1, <1>3, <1>5 DEF Contract!Reclaim

LEMMA ContractStep == IInv /\ [Next]_epochVars => [Contract!Next]_(Contract!reclaimerVars)
<1> SUFFICES ASSUME IInv, [Next]_epochVars PROVE [Contract!Next]_(Contract!reclaimerVars)
  OBVIOUS
<1> USE DEF contractVars, Contract!reclaimerVars
<1>1. ASSUME NEW t \in Thread, Flush(t) PROVE Contract!Next
  BY <1>1 DEF Flush, Contract!Next
<1>2. ASSUME NEW t \in Thread, NEW i \in Item, RetireRead(t, i) PROVE Contract!Next
  BY <1>2 DEF RetireRead, Contract!Next
<1>3. ASSUME NEW t \in Thread, NEW i \in Item, ReclaimItem(t, i) PROVE Contract!Next
  BY <1>3, ReclaimedWaitsForNone DEF Contract!Next
<1>4. ASSUME NEW t \in Thread, TryAdvance(t) \/ AnnounceRead(t) \/ AnnounceStore(t)
                               \/ UnannounceStore(t) \/ AddToBag(t)
      PROVE  UNCHANGED Contract!reclaimerVars
  BY <1>4 DEF TryAdvance, Count, Check, Advance, AnnounceRead, AnnounceStore, UnannounceStore, AddToBag
<1>5. ASSUME UNCHANGED epochVars PROVE UNCHANGED Contract!reclaimerVars
  BY <1>5 DEF epochVars
<1> QED
  BY <1>1, <1>2, <1>3, <1>4, <1>5 DEF Next

\* Epoch keeps the reclaimer's promise, for any number of threads and items:
\* every step of it is a step the contract allows.
THEOREM ReclaimerImplemented == Spec => ImplementsReclaimer
<1>1. Init => Contract!Init
  BY DEF Init
<1> QED
  BY <1>1, Inductive, ContractStep, PTL DEF Spec, ImplementsReclaimer, Contract!Spec
=============================================================================

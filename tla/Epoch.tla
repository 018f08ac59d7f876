-------------------------------- MODULE Epoch --------------------------------
(***************************************************************************)
(* The epoch-based reclaimer of the Java structures, main.support.Epoch.   *)
(*                                                                         *)
(* A scanning thread announces the epoch it read.  A thread that retires a *)
(* node files it under the epoch it read, in one of three bags of its own. *)
(* Every so often a thread that announces or retires looks at all          *)
(* announcements and, if none is of an older epoch, tries to advance the   *)
(* epoch.  A retiring thread reclaims its bags that are two epochs old.    *)
(*                                                                         *)
(* `announce` is an array of plain ints that all threads read and write    *)
(* without synchronization, a data race.  Its stores are modelled as the   *)
(* hardware performs them: a store waits in its thread's store buffer,     *)
(* where only that thread sees it, until it is flushed; a CAS is carried   *)
(* out with the buffer empty.  The other fields a thread writes plainly    *)
(* (prevRetireEpoch, announceCount and its bags) are its own.              *)
(***************************************************************************)
EXTENDS Integers, Sequences

CONSTANTS Thread,
          Item,                    \* the nodes that can be retired
          AnnouncesBeforeCollect,  \* 512 in the code
          BufferSize,              \* announcements a store buffer can hold
          MaxEpoch,                \* bound: no announce begins at this epoch
          NoItem

INACTIVE == -2

ASSUME EpochAssumption == /\ AnnouncesBeforeCollect \in Nat
                          /\ BufferSize \in Nat \ {0}
                          /\ MaxEpoch \in Nat
                          /\ NoItem \notin Item

VARIABLES
    epochNum,
    announce,          \* the announcements that are visible to all
    buffer,            \* per thread, its stores to announce not flushed yet
    prevRetireEpoch,
    announceCount,
    retiredNodes,      \* per thread, three bags
    epochPc, curEpoch, \* control, and the local read of epochNum
    unchecked,         \* tryAdvanceEpoch: the entries its loop has yet to read
    item,              \* retire's argument
    announced, waiting, stage,   \* history: the state of the Reclaimer contract
    retiredAt,         \* history: the epoch an item was retired in
    seenAt             \* history: the epoch when an announcement became visible

privateVars == <<prevRetireEpoch, retiredNodes>>
storeVars == <<announce, buffer>>
controlVars == <<epochPc, curEpoch, unchecked, announceCount>>
contractVars == <<announced, waiting, stage>>
epochVars == <<epochNum, storeVars, privateVars, controlVars, item,
               contractVars, retiredAt, seenAt>>

Contract == INSTANCE Reclaimer

TypeOK ==
    /\ epochNum \in Nat
    /\ announce \in [Thread -> Nat \cup {INACTIVE}]
    /\ buffer \in [Thread -> Seq(Nat \cup {INACTIVE})]
    /\ prevRetireEpoch \in [Thread -> Nat]
    /\ announceCount \in [Thread -> 0..AnnouncesBeforeCollect]
    /\ retiredNodes \in [Thread -> [0..2 -> SUBSET Item]]
    /\ epochPc \in [Thread -> {"idle", "announce", "retire", "count", "check", "announced"}]
    /\ curEpoch \in [Thread -> Nat]
    /\ unchecked \in [Thread -> SUBSET Thread]
    /\ item \in [Thread -> Item \cup {NoItem}]
    /\ Contract!TypeOK
    /\ retiredAt \in [Item -> Nat]
    /\ seenAt \in [Thread -> Nat]

Init ==
    /\ epochNum = 0
    /\ announce = [t \in Thread |-> INACTIVE]
    /\ buffer = [t \in Thread |-> <<>>]
    /\ prevRetireEpoch = [t \in Thread |-> 0]
    /\ announceCount = [t \in Thread |-> 0]
    /\ retiredNodes = [t \in Thread |-> [r \in 0..2 |-> {}]]
    /\ epochPc = [t \in Thread |-> "idle"]
    /\ curEpoch = [t \in Thread |-> 0]
    /\ unchecked = [t \in Thread |-> {}]
    /\ item = [t \in Thread |-> NoItem]
    /\ Contract!Init
    /\ retiredAt = [i \in Item |-> 0]
    /\ seenAt = [t \in Thread |-> 0]
-----------------------------------------------------------------------------
(* The store buffer.                                                       *)

Store(t, e) == /\ Len(buffer[t]) < BufferSize
               /\ buffer' = [buffer EXCEPT ![t] = Append(@, e)]
               /\ UNCHANGED announce

\* A thread sees its own stores first.
Load(t, u) == IF u = t /\ buffer[t] # <<>> THEN buffer[t][Len(buffer[t])] ELSE announce[u]

\* The oldest store of a buffer becomes visible.  In terms of the contract,
\* this is when the thread announces or unannounces.
Flush(t) ==
    /\ buffer[t] # <<>>
    /\ announce' = [announce EXCEPT ![t] = Head(buffer[t])]
    /\ buffer' = [buffer EXCEPT ![t] = Tail(@)]
    /\ \/ Head(buffer[t]) # INACTIVE /\ Contract!Announce(t)
       \/ Head(buffer[t]) = INACTIVE /\ Contract!Unannounce(t)
    /\ seenAt' = [seenAt EXCEPT ![t] = epochNum]
    /\ UNCHANGED <<epochNum, privateVars, controlVars, item, retiredAt>>
-----------------------------------------------------------------------------
(* tryAdvanceEpoch(curEpoch): called last by announce and by retire.       *)

\* The caller's own return: from announce into the scan, from retire to idle.
ReturnTo(t) == IF item[t] = NoItem THEN "announced" ELSE "idle"

TryAdvanceReturns(t) ==
    /\ epochPc' = [epochPc EXCEPT ![t] = ReturnTo(t)]
    /\ item' = [item EXCEPT ![t] = NoItem]
    /\ curEpoch' = [curEpoch EXCEPT ![t] = 0]
    /\ unchecked' = [unchecked EXCEPT ![t] = {}]

\* Fault: the count is compared after it has been incremented past the limit.
CountPastLimit(t) ==
    /\ epochPc[t] = "count"
    /\ announceCount' = [announceCount EXCEPT ![t] = @ + 1]
    /\ TryAdvanceReturns(t)
    /\ UNCHANGED <<epochNum, storeVars, privateVars, contractVars, retiredAt, seenAt>>

\* if (annCount == ANNOUNCES_BEFORE_COLLECT) ... else announceCount++
Count(t) ==
    /\ epochPc[t] = "count"
    /\ \/ /\ announceCount[t] = AnnouncesBeforeCollect
          /\ announceCount' = [announceCount EXCEPT ![t] = 0]
          /\ epochPc' = [epochPc EXCEPT ![t] = "check"]
          /\ unchecked' = [unchecked EXCEPT ![t] = Thread]
          /\ UNCHANGED <<item, curEpoch>>
       \/ /\ announceCount[t] # AnnouncesBeforeCollect
          /\ announceCount' = [announceCount EXCEPT ![t] = @ + 1]
          /\ TryAdvanceReturns(t)
    /\ UNCHANGED <<epochNum, storeVars, privateVars, contractVars, retiredAt, seenAt>>

\* Fault: the announcements are not looked at.
AnyAnnouncement(ann, e) == TRUE

\* Fault: announcements of the epoch before are taken for current ones.
CurrentOrPrevious(ann, e) == ann \in {INACTIVE, e, e - 1}

\* ann != INACTIVE && ann != curEpoch makes tryAdvanceEpoch give up
NotBehind(ann, e) == ann \in {INACTIVE, e}

\* One iteration of the loop over announce; the order is left open.
Check(t, u) ==
    /\ epochPc[t] = "check" /\ u \in unchecked[t]
    /\ \/ /\ NotBehind(Load(t, u), curEpoch[t])
          /\ unchecked' = [unchecked EXCEPT ![t] = @ \ {u}]
          /\ UNCHANGED <<epochPc, item, curEpoch>>
       \/ /\ ~ NotBehind(Load(t, u), curEpoch[t])
          /\ TryAdvanceReturns(t)
    /\ UNCHANGED <<epochNum, storeVars, privateVars, announceCount, contractVars, retiredAt, seenAt>>

\* Fault: the epoch is written without a comparison.
AdvanceWrites(t) ==
    /\ epochPc[t] = "check" /\ unchecked[t] = {} /\ buffer[t] = <<>>
    /\ epochNum' = curEpoch[t] + 1
    /\ TryAdvanceReturns(t)
    /\ UNCHANGED <<storeVars, privateVars, announceCount, contractVars, retiredAt, seenAt>>

\* epochUpdater.compareAndSet(this, curEpoch, curEpoch+1)
Advance(t) ==
    /\ epochPc[t] = "check" /\ unchecked[t] = {} /\ buffer[t] = <<>>
    /\ epochNum' = IF epochNum = curEpoch[t] THEN epochNum + 1 ELSE epochNum
    /\ TryAdvanceReturns(t)
    /\ UNCHANGED <<storeVars, privateVars, announceCount, contractVars, retiredAt, seenAt>>
-----------------------------------------------------------------------------
(* announce() and unannounce().                                            *)

\* int curEpoch = epochNum
AnnounceRead(t) ==
    /\ epochPc[t] = "idle" /\ epochNum < MaxEpoch
    /\ epochPc' = [epochPc EXCEPT ![t] = "announce"]
    /\ curEpoch' = [curEpoch EXCEPT ![t] = epochNum]
    /\ UNCHANGED <<epochNum, storeVars, privateVars, unchecked, announceCount, item,
                   contractVars, retiredAt, seenAt>>

\* announce[idx] = curEpoch
AnnounceStore(t) ==
    /\ epochPc[t] = "announce"
    /\ Store(t, curEpoch[t])
    /\ epochPc' = [epochPc EXCEPT ![t] = "count"]
    /\ UNCHANGED <<epochNum, privateVars, curEpoch, unchecked, announceCount, item,
                   contractVars, retiredAt, seenAt>>

\* announce[idx] = INACTIVE
UnannounceStore(t) ==
    /\ epochPc[t] = "announced"
    /\ Store(t, INACTIVE)
    /\ epochPc' = [epochPc EXCEPT ![t] = "idle"]
    /\ UNCHANGED <<epochNum, privateVars, curEpoch, unchecked, announceCount, item,
                   contractVars, retiredAt, seenAt>>
-----------------------------------------------------------------------------
(* retire(node).                                                           *)

\* int curEpoch = epochNum
RetireRead(t, i) ==
    /\ epochPc[t] = "idle"
    /\ epochPc' = [epochPc EXCEPT ![t] = "retire"]
    /\ curEpoch' = [curEpoch EXCEPT ![t] = epochNum]
    /\ item' = [item EXCEPT ![t] = i]
    /\ Contract!Retire(i)
    /\ retiredAt' = [retiredAt EXCEPT ![i] = epochNum]
    /\ UNCHANGED <<epochNum, storeVars, privateVars, unchecked, announceCount, seenAt>>

\* Fault: bags are reclaimed one epoch too soon.
ExpiredTooSoon(prev, cur) == {i \in {prev - 1, prev} : i <= cur - 1}

\* Fault: only the older of the two bags is looked at.
ExpiredOlderOnly(prev, cur) == {i \in {prev - 1} : i <= cur - 2}

\* for (i = prevEpoch-1; i <= curEpoch-2 && i <= prevEpoch; i++)
Expired(prev, cur) == {i \in {prev - 1, prev} : i <= cur - 2}

\* The items of t's bags that are old enough, by the thread's own reading.
Reclaimable(t) ==
    UNION {retiredNodes[t][(i + 3) % 3] : i \in Expired(prevRetireEpoch[t], curEpoch[t])}

\* retiredNodes[rindex][idx].get(j).reclaim(), an item of the bag `rindex`;
\* after its last item the bag is empty, as clear() leaves it.
ReclaimItem(t, i) ==
    /\ epochPc[t] = "retire"
    /\ \E e \in Expired(prevRetireEpoch[t], curEpoch[t]) :
           LET rindex == (e + 3) % 3
           IN  /\ i \in retiredNodes[t][rindex]
               /\ retiredNodes' = [retiredNodes EXCEPT ![t][rindex] = @ \ {i}]
    /\ stage' = [stage EXCEPT ![i] = "reclaimed"]
    /\ UNCHANGED <<epochNum, storeVars, prevRetireEpoch, controlVars, item,
                   announced, waiting, retiredAt, seenAt>>

\* Fault: the bag is always created anew.
AddToNewBag(t) ==
    /\ epochPc[t] = "retire" /\ Reclaimable(t) = {}
    /\ prevRetireEpoch' = [prevRetireEpoch EXCEPT ![t] = curEpoch[t]]
    /\ retiredNodes' = [retiredNodes EXCEPT ![t][curEpoch[t] % 3] = {item[t]}]
    /\ epochPc' = [epochPc EXCEPT ![t] = "count"]
    /\ UNCHANGED <<epochNum, storeVars, curEpoch, unchecked, announceCount, item,
                   contractVars, retiredAt, seenAt>>

\* retiredNodes[curEpoch%3][idx].add(node)
AddToBag(t) ==
    /\ epochPc[t] = "retire" /\ Reclaimable(t) = {}
    /\ prevRetireEpoch' = [prevRetireEpoch EXCEPT ![t] = curEpoch[t]]
    /\ retiredNodes' = [retiredNodes EXCEPT ![t][curEpoch[t] % 3] = @ \cup {item[t]}]
    /\ epochPc' = [epochPc EXCEPT ![t] = "count"]
    /\ UNCHANGED <<epochNum, storeVars, curEpoch, unchecked, announceCount, item,
                   contractVars, retiredAt, seenAt>>
-----------------------------------------------------------------------------
TryAdvance(t) == Count(t) \/ Advance(t) \/ \E u \in Thread : Check(t, u)

Next == \E t \in Thread :
    \/ Flush(t) \/ TryAdvance(t)
    \/ AnnounceRead(t) \/ AnnounceStore(t) \/ UnannounceStore(t)
    \/ AddToBag(t)
    \/ \E i \in Item : RetireRead(t, i) \/ ReclaimItem(t, i)

Spec == Init /\ [][Next]_epochVars
-----------------------------------------------------------------------------
\* Once an announcement is visible the epoch advances at most once until it
\* is withdrawn, although a thread that looked before may still advance it.
EpochHeldBack == \A t \in announced : epochNum <= seenAt[t] + 1

\* Where a thread holds an item: in one of its bags, or in the hands of its
\* running retire.
InHand == 3
Place == 0..InHand

Holds(t, p, i) == \/ p \in 0..2 /\ i \in retiredNodes[t][p]
                  \/ p = InHand /\ epochPc[t] = "retire" /\ item[t] = i

\* A retired item is in exactly one place, one bag of one thread or the hands
\* of the thread retiring it, until it is reclaimed: none is lost, and none is
\* filed twice, by two threads or in two bags, and reclaimed twice.
RetiredHeldOnce ==
    \A i \in Item :
        /\ stage[i] = "retired" <=> \E t \in Thread, p \in Place : Holds(t, p, i)
        /\ \A t, u \in Thread, p, q \in Place :
               Holds(t, p, i) /\ Holds(u, q, i) => t = u /\ p = q

\* Three bags are enough: two epochs never share one, and what a thread has
\* not reclaimed after a retire is of the two epochs up to its last retire.
BagsByEpoch ==
    \A t \in Thread : \A r \in 0..2 : \A i \in retiredNodes[t][r] :
        /\ retiredAt[i] % 3 = r
        /\ retiredAt[i] \in {prevRetireEpoch[t] - 1, prevRetireEpoch[t]}

\* The epochs keep the reclaimer's promise: an item is reclaimed only when
\* every thread whose announcement was visible when it was retired is done.
ImplementsReclaimer == Contract!Spec
=============================================================================

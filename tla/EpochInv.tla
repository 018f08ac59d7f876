------------------------------ MODULE EpochInv ------------------------------
(***************************************************************************)
(* The inductive invariant of Epoch, in named parts.  TLC checks it on the *)
(* instances of MCEpoch; EpochProofs proves it.                            *)
(***************************************************************************)
EXTENDS Epoch

\* The k-th value announce[t] is still to take, the visible one first.
Val(t, k) == IF k = 0 THEN announce[t] ELSE buffer[t][k]

LastStore(t) == Val(t, Len(buffer[t]))

InSection(t) == \/ epochPc[t] = "announced"
                \/ epochPc[t] \in {"count", "check"} /\ item[t] = NoItem

\* A thread announces and withdraws in turn, also in its buffer, so that a
\* flush always is one or the other in terms of the contract.
BufferInv ==
    \A t \in Thread :
        /\ LastStore(t) = INACTIVE <=> ~ InSection(t)
        /\ \A k \in 1..Len(buffer[t]) :
              Val(t, k) = INACTIVE <=> Val(t, k - 1) # INACTIVE

\* What a thread read or announced is not ahead of the epoch; a visible
\* announcement holds the epoch back.
EpochBounds ==
    \A t \in Thread :
        /\ curEpoch[t] <= epochNum
        /\ prevRetireEpoch[t] <= epochNum
        /\ epochPc[t] = "retire" => prevRetireEpoch[t] <= curEpoch[t]
        /\ \A k \in 0..Len(buffer[t]) : Val(t, k) <= epochNum
        /\ t \in announced <=> announce[t] # INACTIVE
        /\ t \in announced => /\ announce[t] <= seenAt[t]
                              /\ seenAt[t] <= epochNum
                              /\ epochNum <= seenAt[t] + 1

\* A thread that may still advance the current epoch has passed only threads
\* that are not in an older one, those that announced behind its back included.
CheckInv ==
    \A u \in Thread : epochPc[u] = "check" /\ curEpoch[u] = epochNum =>
        \A t \in announced :
            t \in unchecked[u] \/ (t = u /\ buffer[u] # <<>>) \/ seenAt[t] = epochNum

\* The item of a running retire was retired in the epoch the thread read;
\* outside retire a thread has none.
RetireInv ==
    \A t \in Thread :
        /\ epochPc[t] \in {"idle", "announce", "announced"} => item[t] = NoItem
        /\ epochPc[t] = "retire" => /\ item[t] \in Item
                                    /\ retiredAt[item[t]] = curEpoch[t]

\* An item waits only for announcements that were visible at its retirement.
WaitingInv ==
    \A i \in Item : \A t \in waiting[i] : t \in announced /\ seenAt[t] <= retiredAt[i]

IInv == TypeOK /\ BufferInv /\ EpochBounds /\ CheckInv /\ RetireInv /\ WaitingInv
        /\ BagsByEpoch /\ RetiredHeldOnce
=============================================================================

----------------------------- MODULE OrderedMap -----------------------------
(***************************************************************************)
(* What the batched trees promise a single caller: a map from keys to      *)
(* values with get, putIfAbsent, remove and range queries in key order.    *)
(***************************************************************************)
EXTENDS Integers, SequencesExt

CONSTANTS Key, Value, NoValue

VARIABLES content,   \* [Key -> Value \cup {NoValue}]
          last       \* the last call: operation, arguments and answer

Init == content = [k \in Key |-> NoValue] /\ last = <<>>

Get(k) == last' = <<"get", k, content[k]>> /\ UNCHANGED content

PutIfAbsent(k, v) ==
    /\ last' = <<"putIfAbsent", k, v, content[k]>>
    /\ content' = [content EXCEPT ![k] = IF @ = NoValue THEN v ELSE @]

RemoveKey(k) ==
    /\ last' = <<"remove", k, content[k]>>
    /\ content' = [content EXCEPT ![k] = NoValue]

InRange(a, b) == {k \in Key : a <= k /\ k <= b /\ content[k] # NoValue}

\* the values in [a, b], by increasing key
RangeScan(a, b) ==
    /\ LET keys == SetToSortSeq(InRange(a, b), LAMBDA j, k : j < k) IN
       last' = <<"rangeScan", a, b, [i \in 1..Len(keys) |-> content[keys[i]]]>>
    /\ UNCHANGED content

Next == \E k \in Key :
    \/ Get(k) \/ RemoveKey(k)
    \/ \E v \in Value : PutIfAbsent(k, v)
    \/ \E b \in Key : k <= b /\ RangeScan(k, b)

Spec == Init /\ [][Next]_<<content, last>>
=============================================================================

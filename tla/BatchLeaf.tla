------------------------------ MODULE BatchLeaf ------------------------------
(***************************************************************************)
(* LeafNode of VcasBatchBSTMapGC: an immutable array of keys in increasing *)
(* order and, in parallel, the array of their values.  An update builds a  *)
(* new leaf, two when it splits a full one.                                *)
(*                                                                         *)
(* A leaf is a sequence of entries <<key, value>>; At(l, i) is index i of  *)
(* the Java arrays, which start at 0.                                      *)
(***************************************************************************)
EXTENDS Integers, Sequences

CONSTANTS NoValue    \* Java's null as a value

Size(l) == Len(l)
At(l, i) == l[i + 1]
KeyAt(l, i) == At(l, i)[1]

\* System.arraycopy(keys, from, ..., n): n entries from index `from` on.  A
\* length below zero or past the end is outside the function's domain, where
\* the array copy throws.
Copy(l, from, n) == [k \in 0..Size(l) - from |-> SubSeq(l, from + 1, from + k)][n]
-----------------------------------------------------------------------------
\* getValue: the binary search of containsKey, with the value at the index
GetValue(l, key) ==
    LET search[a \in 0..Size(l), b \in -1..Size(l) - 1] ==
          LET i == (a + b) \div 2 IN
          IF a > b THEN NoValue
          ELSE IF key = KeyAt(l, i) THEN At(l, i)[2]
          ELSE IF key < KeyAt(l, i) THEN search[a, i - 1] ELSE search[i + 1, b]
    IN search[0, Size(l) - 1]

\* Fault: one past an index whose key is found.
LowerBoundPast(l, key) ==
    LET search[a \in 0..Size(l), b \in 0..Size(l)] ==
          LET i == (a + b) \div 2 IN
          IF a >= b THEN a
          ELSE IF key < KeyAt(l, i) THEN search[a, i] ELSE search[i + 1, b]
    IN search[0, Size(l)]

\* the index of the first key at or above key
LowerBound(l, key) ==
    LET search[a \in 0..Size(l), b \in 0..Size(l)] ==
          LET i == (a + b) \div 2 IN
          IF a >= b THEN a
          ELSE IF key = KeyAt(l, i) THEN i
          ELSE IF key < KeyAt(l, i) THEN search[a, i] ELSE search[i + 1, b]
    IN search[0, Size(l)]

\* the index of the last key at or below key, -1 if there is none
UpperBound(l, key) ==
    LET search[a \in -1..Size(l) - 1, b \in -1..Size(l) - 1] ==
          LET i == (a + b + 1) \div 2 IN
          IF a >= b THEN a
          ELSE IF key = KeyAt(l, i) THEN i
          ELSE IF key < KeyAt(l, i) THEN search[a, i - 1] ELSE search[i, b]
    IN search[-1, Size(l) - 1]

\* The search of put, remove and the splits from index a to b: the index of
\* the first key above key.
InsertionPoint(l, key, from, to) ==
    LET search[a \in 0..Size(l), b \in -1..Size(l) - 1] ==
          LET i == (a + b) \div 2 IN
          IF a > b THEN a
          ELSE IF key < KeyAt(l, i) THEN search[a, i - 1] ELSE search[i + 1, b]
    IN search[from, to]
-----------------------------------------------------------------------------
\* The values gatherKeys pushes.  leftOpen and rightOpen say that the leaf may
\* hold keys below a, or above b.
GatherKeys(l, a, b, leftOpen, rightOpen) ==
    IF a = b THEN SelectSeq(<<GetValue(l, a)>>, LAMBDA v : v # NoValue)
    ELSE LET start == IF leftOpen THEN LowerBound(l, a) ELSE 0
             end == IF rightOpen THEN UpperBound(l, b) ELSE Size(l) - 1
         IN [i \in 1..(IF end < start THEN 0 ELSE end - start + 1) |-> At(l, start + i - 1)[2]]

Put(l, key, value) ==
    LET a == InsertionPoint(l, key, 0, Size(l) - 1)
    IN Copy(l, 0, a) \o <<<<key, value>>>> \o Copy(l, a, Size(l) - a)

Remove(l, key) ==
    LET b == InsertionPoint(l, key, 0, Size(l) - 1) - 1
    IN Copy(l, 0, b) \o Copy(l, b + 1, Size(l) - b - 1)

ShouldBePutLeft(l, key) == key < KeyAt(l, Size(l) \div 2)

SplitLeftAndPut(l, key, value) ==
    LET newSize == Size(l) \div 2 + 1
        a == InsertionPoint(l, key, 0, newSize - 1)
    IN Copy(l, 0, a) \o <<<<key, value>>>> \o Copy(l, a, newSize - 1 - a)

SplitRightAndPut(l, key, value) ==
    LET newStart == (Size(l) + 1) \div 2
        a == InsertionPoint(l, key, Size(l) \div 2, Size(l) - 1)
    IN Copy(l, newStart, a - newStart) \o <<<<key, value>>>> \o Copy(l, a, Size(l) - a)

\* Fault: the left half of an odd leaf is rounded down.
SplitLeftDown(l) == Copy(l, 0, Size(l) \div 2)

SplitLeft(l) == Copy(l, 0, (Size(l) + 1) \div 2)

SplitRight(l) ==
    LET newSize == (Size(l) + 1) \div 2 IN Copy(l, Size(l) - newSize, newSize)
=============================================================================

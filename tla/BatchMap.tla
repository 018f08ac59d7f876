------------------------------ MODULE BatchMap ------------------------------
(***************************************************************************)
(* The batched tree of VcasBatchBSTMapGC under one caller at a time: what  *)
(* its operations do to the shape of the tree when nobody interferes.      *)
(*                                                                         *)
(* Keys are in the leaves, in arrays of up to BATCHING_DEGREE.  An insert  *)
(* replaces a leaf by a larger one or, when it is full, by an internal     *)
(* node over its halves; a remove replaces the parent by a copy over the   *)
(* smaller leaf or, when the leaf would be empty, by a copy of the sibling.*)
(* The root and its left child have no key, and every key is to the left   *)
(* of both, so that every leaf with a key has a parent and a grandparent.  *)
(***************************************************************************)
EXTENDS BatchLeaf

CONSTANTS Key, Value,
          BATCHING_DEGREE,
          NoKey            \* the key of a sentinel, null

ASSUME BatchAssumption == /\ Key \subseteq Int
                          /\ BATCHING_DEGREE \in Nat \ {0}
                          /\ NoValue \notin Value
                          /\ NoKey \notin Int

VARIABLES root,
          last    \* history: the last call, its operation, arguments and answer

Leaf(l) == [entries |-> l]
Internal(key, left, right) == [key |-> key, left |-> left, right |-> right]
IsLeaf(n) == "entries" \in DOMAIN n

Init == /\ root = Internal(NoKey, Internal(NoKey, Leaf(<<>>), Leaf(<<>>)), Leaf(<<>>))
        /\ last = <<>>
-----------------------------------------------------------------------------
(* Searching.                                                              *)

\* p.key == null || key.compareTo(p.key) < 0
GoesLeft(p, key) == p.key = NoKey \/ key < p.key

Child(p, key) == IF GoesLeft(p, key) THEN p.left ELSE p.right

WithChild(p, key, n) ==
    IF GoesLeft(p, key) THEN [p EXCEPT !.left = n] ELSE [p EXCEPT !.right = n]

RECURSIVE Search(_, _)
Search(n, key) == IF IsLeaf(n) THEN n.entries ELSE Search(Child(n, key), key)

Lookup(key) == GetValue(Search(root, key), key)
-----------------------------------------------------------------------------
(* putIfAbsent.                                                            *)

\* Fault: the new internal node is given the last key of its left leaf.
LeftmostSplitKey(newLeft, newRight) == KeyAt(newLeft, Size(newLeft) - 1)

\* newRight.keys[0]
SplitKey(newLeft, newRight) == KeyAt(newRight, 0)

\* Fault: a leaf is split when it already has one key too many.
GrownPastDegree(l, key, value) == Leaf(Put(l, key, value))

\* What takes the place of leaf l when key is put.
Grown(l, key, value) ==
    IF Size(l) # BATCHING_DEGREE THEN Leaf(Put(l, key, value))
    ELSE LET toLeft == ShouldBePutLeft(l, key)
             newLeft == IF toLeft THEN SplitLeftAndPut(l, key, value) ELSE SplitLeft(l)
             newRight == IF toLeft THEN SplitRight(l) ELSE SplitRightAndPut(l, key, value)
         IN Internal(SplitKey(newLeft, newRight), Leaf(newLeft), Leaf(newRight))

RECURSIVE Insert(_, _, _)
Insert(n, key, value) ==
    IF IsLeaf(n) THEN Grown(n.entries, key, value)
    ELSE WithChild(n, key, Insert(Child(n, key), key, value))
-----------------------------------------------------------------------------
(* remove.                                                                 *)

\* Fault: a leaf that becomes empty stays in the tree.
LeafShrunk(p, l, key, top) == WithChild(p, key, Leaf(Remove(l, key)))

\* What takes the place of p, the parent of leaf l, when key is removed; top
\* is l == root.left.left, the only leaf that may be empty.
Shrunk(p, l, key, top) ==
    IF Size(l) > 1 \/ top THEN WithChild(p, key, Leaf(Remove(l, key)))
    ELSE IF GoesLeft(p, key) THEN p.right ELSE p.left

RECURSIVE Delete(_, _, _)
Delete(gp, key, top) ==
    LET p == Child(gp, key)
        n == Child(p, key)
    IN WithChild(gp, key, IF IsLeaf(n) THEN Shrunk(p, n.entries, key, top)
                          ELSE Delete(p, key, FALSE))
-----------------------------------------------------------------------------
(* rangeScan, with every pointer read as of the scan's timestamp.          *)

RECURSIVE ScanHelper(_, _, _, _, _)
ScanHelper(n, a, b, leftOpen, rightOpen) ==
    IF IsLeaf(n) THEN GatherKeys(n.entries, a, b, leftOpen, rightOpen)
    ELSE CASE ~ leftOpen /\ ~ rightOpen ->
                ScanHelper(n.left, a, b, FALSE, FALSE) \o ScanHelper(n.right, a, b, FALSE, FALSE)
           [] (leftOpen \/ rightOpen) /\ n.key # NoKey /\ a >= n.key ->
                ScanHelper(n.right, a, b, leftOpen, rightOpen)
           [] (leftOpen \/ rightOpen) /\ (n.key = NoKey \/ b < n.key) ->
                ScanHelper(n.left, a, b, leftOpen, rightOpen)
           [] OTHER ->
                ScanHelper(n.left, a, b, leftOpen, FALSE) \o ScanHelper(n.right, a, b, FALSE, rightOpen)
-----------------------------------------------------------------------------
Get(key) == last' = <<"get", key, Lookup(key)>> /\ UNCHANGED root

PutIfAbsent(key, value) ==
    /\ last' = <<"putIfAbsent", key, value, Lookup(key)>>
    /\ root' = IF Lookup(key) = NoValue THEN Insert(root, key, value) ELSE root

RemoveKey(key) ==
    /\ last' = <<"remove", key, Lookup(key)>>
    /\ root' = IF Lookup(key) = NoValue THEN root ELSE Delete(root, key, TRUE)

RangeScan(a, b) ==
    /\ a <= b
    /\ last' = <<"rangeScan", a, b, ScanHelper(root, a, b, TRUE, TRUE)>>
    /\ UNCHANGED root

Next == \E k \in Key :
    \/ Get(k) \/ RemoveKey(k)
    \/ \E v \in Value : PutIfAbsent(k, v)
    \/ \E b \in Key : RangeScan(k, b)

Spec == Init /\ [][Next]_<<root, last>>
-----------------------------------------------------------------------------
Leaves == LET RECURSIVE Under(_)
              Under(n) == IF IsLeaf(n) THEN {n.entries} ELSE Under(n.left) \cup Under(n.right)
          IN Under(root)

TypeOK == \A l \in Leaves : Size(l) <= BATCHING_DEGREE /\ l \in Seq(Key \X Value)

\* The tree is a search tree for keys in lo..hi with sorted leaves, none of
\* them empty.
RECURSIVE SearchTree(_, _, _)
SearchTree(n, lo, hi) ==
    IF IsLeaf(n)
    THEN LET l == n.entries IN
         /\ l # <<>>
         /\ \A i \in 1..Len(l) : lo <= l[i][1] /\ l[i][1] <= hi
         /\ \A i \in 1..Len(l) - 1 : l[i][1] < l[i + 1][1]
    ELSE /\ n.key # NoKey
         /\ SearchTree(n.left, lo, n.key - 1)
         /\ SearchTree(n.right, n.key, hi)

\* Below the sentinels is a search tree without empty leaves, whatever was
\* inserted and removed before: the code relies on it when it routes by
\* newRight.keys[0] and when it drops a leaf with its parent.
WellFormed ==
    /\ root.key = NoKey /\ root.right = Leaf(<<>>)
    /\ root.left.key = NoKey /\ root.left.right = Leaf(<<>>)
    /\ \/ root.left.left = Leaf(<<>>)
       \/ \E lo, hi \in Key : SearchTree(root.left.left, lo, hi)

\* The entries in the leaves, as a function from keys.
Content ==
    [k \in Key |-> LET values == {v \in Value : \E l \in Leaves : \E i \in 1..Len(l) : l[i] = <<k, v>>}
                   IN IF values = {} THEN NoValue ELSE CHOOSE v \in values : TRUE]

Map == INSTANCE OrderedMap WITH content <- Content

\* Every operation of the tree, range scans with their pruning included,
\* changes and answers what the same operation of a map would.
ImplementsMap == Map!Spec
=============================================================================

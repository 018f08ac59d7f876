--------------------------- MODULE MCVersionedCas ---------------------------
(***************************************************************************)
(* TLC instances of VersionedCas.  i1 and i2 are the first versions of the *)
(* pointers o1 and o2, the left and the right one of one node, or o1 is    *)
(* the only pointer, that of the root.  n1, n2, n3 can be installed on     *)
(* either.  Versions that are not initial are interchangeable, and so are  *)
(* threads of a kind.                                                      *)
(***************************************************************************)
EXTENDS VersionedCasInv, TLC

CONSTANTS o1, o2, i1, i2, n1, n2, n3, u1, u2, s1, s2

TwoObjects == {o1, o2}
TwoInitial == (o1 :> i1) @@ (o2 :> i2)
TwoLeft == [o \in TwoObjects |-> o1]
TwoRight == [o \in TwoObjects |-> o2]
TwoNodes == {i1, i2, n1, n2}

OneObject == {o1}
OneInitial == (o1 :> i1)
RootLeft == (o1 :> o1)
RootRight == (o1 :> Null)
ShortChain == {i1, n1, n2}
LongChain == {i1, n1, n2, n3}

ShortSymmetry == Permutations({n1, n2}) \cup Permutations({u1, u2})
LongSymmetry == Permutations({n1, n2, n3}) \cup Permutations({u1, u2})
ScannerSymmetry == Permutations({n1, n2}) \cup Permutations({s1, s2})
=============================================================================

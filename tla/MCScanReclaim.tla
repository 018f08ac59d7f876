---------------------------- MODULE MCScanReclaim ----------------------------
(***************************************************************************)
(* TLC instances of ScanReclaim on one pointer.  Three replacements are    *)
(* the fewest after which a thread reclaims a version it had retired.      *)
(***************************************************************************)
EXTENDS ScanReclaim, TLC

CONSTANTS o1, i1, n1, n2, n3, u1, s1

OneObject == {o1}
OneInitial == (o1 :> i1)
RootLeft == (o1 :> o1)
RootRight == (o1 :> Null)
Versions == {i1, n1, n2, n3}

VersionSymmetry == Permutations({n1, n2, n3})
=============================================================================

------------------------------ MODULE MCCamera ------------------------------
(***************************************************************************)
(* TLC instance of CameraHistory.  MaxBackoff = 4 makes both clamps and    *)
(* the halving and doubling in between happen.                             *)
(***************************************************************************)
EXTENDS CameraHistory, TLC

CONSTANTS t1, t2, t3
MCThread == {t1, t2, t3}
=============================================================================

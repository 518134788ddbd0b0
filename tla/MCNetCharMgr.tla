---------------------------- MODULE MCNetCharMgr -----------------------------
(* Instances of NetCharMgr for TLC.                                          *)
EXTENDS NetCharMgr, TLC

CONSTANTS f1, f2, x, y, w1

\* A UE moves: both flows change; or one of them.
Versions == {f1 :> x @@ f2 :> x, f1 :> y @@ f2 :> x}
=============================================================================

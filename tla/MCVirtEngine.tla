---------------------------- MODULE MCVirtEngine ----------------------------
(* Two sandboxes, two scenarios for VirtEngine.                              *)
EXTENDS VirtEngine, TLC

CONSTANTS b1, b2, s1, s2, ctrl, c1, c2, u1

TheProcs == [s \in Scenarios |-> IF s = s1 THEN {c1, c2} ELSE {u1}]

\* No sandbox is named after another one, a dash and more.
NoCovers == {}
=============================================================================

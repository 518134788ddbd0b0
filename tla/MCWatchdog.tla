----------------------------- MODULE MCWatchdog -----------------------------
(* Watchdog in units of half a second.                                       *)
EXTENDS Watchdog
=============================================================================

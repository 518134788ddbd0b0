---------------------------- MODULE MCReplayMgr -----------------------------
(* Replay files for ReplayMgr.                                               *)
EXTENDS ReplayMgr, TLC

CONSTANTS r1, r2, r3

E(t) == [time |-> t, init |-> FALSE]
I    == [time |-> 0, init |-> TRUE]

\* A recorded file starts with Init; an uploaded one need not, may have two
\* events in the same millisecond, and may end with Init.
TheFiles == "long" :> <<I, E(1), E(2), E(4)>> @@ "tied" :> <<E(1), E(1)>>
              @@ "ended" :> <<E(0), [time |-> 3, init |-> TRUE]>>
=============================================================================

---------------------------- MODULE MCMeepModel ----------------------------
(* Small documents for MeepModel.                                         *)
EXTENDS MeepModel, TLC

CONSTANTS poa1, poa2, ue1, ue2, fog1, fog2, p1, p2, iperf, v0, v1

TwoPoas == <<poa1, poa2>>

\* One UE and a fog node at each point of access; ue2 is added by events.
TwoFogs   == (poa1 :> <<fog1, ue1>>) @@ (poa2 :> <<fog2>>)

\* Three applications on the first fog node, one of a mobility group; none on
\* the second.
OnFog1 == <<[pl |-> fog1, procs |-> <<p1, p2, iperf>>]>>
=============================================================================

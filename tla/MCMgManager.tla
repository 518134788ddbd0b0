---------------------------- MODULE MCMgManager ----------------------------
(* A small scenario for MgManager: one mobility group of two instances, and  *)
(* a UE that moves between two points of access and sees one or both.  A     *)
(* third application is no service of the scenario.                          *)
EXTENDS MgManager

CONSTANTS g1, a1, a2, stranger, ue1, client, poa1, poa2, t1

\* The client of the service runs on the UE.
ThePhyOf == [e \in Elems |-> ue1]

\* a1 is closest to poa1, a2 to poa2.
TheHops ==
  [l \in Locs |-> [a \in Apps |-> IF (a = a1) = (l = poa1) THEN 2 ELSE 4]]

\* The other trigger, and one and an algorithm that the code has not.
TheSettings == {[trigger |-> "NET-LOC-CHANGE", lb |-> "LATENCY"],
                [trigger |-> "GPS-PROXIMITY", lb |-> "HOP-COUNT"]}

\* Where the UE is and what it sees; and a scenario without services.
Place(net, range, instances) ==
  [name |-> "s", elems |-> Elems, svcs |-> [g \in Groups |-> instances],
   net |-> [p \in PLs |-> net], range |-> [p \in PLs |-> range]]
Moves == {Place(poa1, {}, {a1, a2}), Place(poa1, Locs, {a1, a2}), Place(poa2, Locs, {a1, a2}),
          Place(poa2, {}, {})}
=============================================================================

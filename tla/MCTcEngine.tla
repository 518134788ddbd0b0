----------------------------- MODULE MCTcEngine -----------------------------
(* Small scenarios for TcEngine.                                             *)
EXTENDS TcEngine

CONSTANTS p1, p2, p3, v1

Doc(name, pods, svcs) == [name |-> name, pods |-> pods, svcs |-> svcs]

\* A scenario that loses two UEs, with their processes, and another scenario
\* with a service.
Shrinking == {Doc("s", {p1, p2, p3}, {}), Doc("s", {p1}, {}), Doc("t", {p1}, {v1})}
=============================================================================

------------------------------ MODULE MonClient -------------------------------
(******************************************************************************)
(* The JavaScript client of the monitoring engine.                            *)
(******************************************************************************)
EXTENDS WireTypes, TLC

Base == "/mon-engine/v1"

PodStatus ==
    Words({"podType", "sandbox", "name", "namespace", "meepApp", "meepOrigin", "meepScenario",
          "phase", "podInitialized", "podReady", "podScheduled", "podUnschedulable",
          "podConditionError", "containerStatusesMsg", "nbOkContainers", "nbTotalContainers",
          "nbPodRestart", "logicalState", "startTime"})
PodsStatus == Many("podStatus", "PodStatus")

getStates ==
    Op("GET", "/states", {}, Nothing, Of("PodsStatus"))

Models ==
    [PodStatus |-> PodStatus, PodsStatus |-> PodsStatus]
Operations ==
    [getStates |-> getStates]
==============================================================================

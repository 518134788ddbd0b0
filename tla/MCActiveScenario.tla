--------------------------- MODULE MCActiveScenario ---------------------------
(* Instances of ActiveScenario for TLC: model values and symmetry.           *)
EXTENDS ActiveScenario, TLC

CONSTANTS t1, t2, s1, s2, a, b, c0, c1

\* The stored scenarios are interchangeable: no definition names one.
Symmetry == Permutations({a, b})
===============================================================================

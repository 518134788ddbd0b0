---------------------------- MODULE ScenarioTree ----------------------------
(***************************************************************************)
(* What the Model of meep-model promises its users: a scenario is a tree   *)
(* in which every element has one place, and each request that succeeds    *)
(* changes the one element it names and publishes the whole result.  The   *)
(* promise holds for a request that finds the Model's pointers intact;     *)
(* nothing is promised of one that does not.                               *)
(***************************************************************************)
CONSTANTS Elems,     \* physical locations and processes
          Places,    \* where an element may be: network and physical locations
          NoPlace,   \* the element is not in the scenario
          Values     \* network characteristics

VARIABLES doc,       \* the place and the characteristics of each element
          published, \* the document other services see
          intact     \* pointers lead to the elements they were made for

vars == <<doc, published, intact>>

Document == [at : [Elems -> Places \cup {NoPlace}], netChar : [Elems -> Values]]

Init == /\ doc \in Document
        /\ published = doc
        /\ intact = TRUE

(***************************************************************************)
(* The requests, each a relation between the documents before and after.   *)
(***************************************************************************)
Move(old, new, e, p) == /\ old.at[e] # NoPlace
                        /\ new = [old EXCEPT !.at[e] = p]

Tune(old, new, e, v) == /\ old.at[e] # NoPlace
                        /\ new = [old EXCEPT !.netChar[e] = v]

Add(old, new, e, p, v) == /\ old.at[e] = NoPlace
                          /\ new = [old EXCEPT !.at[e] = p, !.netChar[e] = v]

\* An element leaves only when nothing is left in it.
Remove(old, new, e, v) == /\ old.at[e] # NoPlace
                          /\ \A x \in Elems : old.at[x] # e
                          /\ new = [old EXCEPT !.at[e] = NoPlace, !.netChar[e] = v]

MoveSome(old, new) == \E e \in Elems, p \in Places : Move(old, new, e, p)

Request(old, new) ==
  \/ MoveSome(old, new)
  \/ \E e \in Elems, v \in Values : Tune(old, new, e, v) \/ Remove(old, new, e, v)
  \/ \E e \in Elems, p \in Places, v \in Values : Add(old, new, e, p, v)

\* A request through stale pointers has any result.  What results is published,
\* and moving an application may leave stale pointers behind, nothing else does.
Next ==
  \E old \in {doc}, new \in {doc'} :
    /\ IF intact THEN Request(old, new) ELSE new \in Document
    /\ published' = new
    /\ intact' \in BOOLEAN
    /\ intact /\ ~intact' => MoveSome(old, new)

Spec == Init /\ [][Next]_vars
=============================================================================

----------------------------- MODULE MeepModel ------------------------------
(***************************************************************************)
(* The Model object of meep-model as the code keeps it: a document made of *)
(* nested Go slices, and a node map with pointers into the arrays behind   *)
(* the slices.  A slice of processes is a reference to an array and a      *)
(* length; moving an element appends a copy to one slice and removes it    *)
(* from another by overwriting it with the last entry and truncating.  The *)
(* pointers of the node map are right only until the next change of the    *)
(* slices, unless parseNodes builds the map anew.                          *)
(*                                                                         *)
(* The scenario is active throughout (ActiveScenario has the rest of the   *)
(* life cycle): every success ends in refresh, which publishes.  Methods   *)
(* run under Model.lock, each one a single step; one that fails before it  *)
(* changed anything is no step.  Deployment, domains, zones and network    *)
(* locations have fixed pointers and are left out, but for the network     *)
(* locations as places.                                                    *)
(***************************************************************************)
EXTENDS Naturals, Sequences, FiniteSets

CONSTANTS
  NetLocs,    \* the network locations, in document order: a sequence
  UEs, Fogs,  \* physical locations, by type ("FOG" and "EDGE" alike)
  Procs,      \* processes
  MgProcs,    \* those of a mobility group (ServiceConfig.MeSvcName)
  Layout,     \* the stored document: network location -> its locations
  Hosted,     \* ... and the processes: a sequence of [pl, procs] records
  Capacity,   \* of a slice that was unmarshalled and is not empty
  Values, Value0,  \* network characteristics, and those of the document
  Named,      \* the elements that mobility events name
  MaxArrays,  \* bound: arrays allocated
  MaxLocs,    \* bound: physical locations of one network location
  NoProc, NoPlace

NLs   == {NetLocs[k] : k \in 1 .. Len(NetLocs)}
PLs   == UEs \cup Fogs
Elems == PLs \cup Procs

ASSUME ModelAssumption ==
  /\ NetLocs \in Seq(NLs) /\ Layout \in [NLs -> Seq(PLs)] /\ Capacity \in Nat
  /\ Hosted \in Seq([pl : PLs, procs : Seq(Procs)])
  /\ \A k \in 1 .. Len(Hosted) : Len(Hosted[k].procs) \in 1 .. Capacity
  /\ Value0 \in Values /\ NoProc \notin Procs /\ NoPlace \notin NLs \cup PLs

VARIABLES
  scenario,   \* network location -> its slice of physical locations
  arrays,     \* the arrays behind the slices of processes
  nodeMap,    \* name -> [object, parent, context]: two pointers, one name
  published   \* the document under the active key

vars == <<scenario, arrays, nodeMap, published>>
-----------------------------------------------------------------------------
(* Memory.  A physical location holds its slice of processes: array (0:    *)
(* nil) and len.  A pointer to a physical location is its network location *)
(* and index, a pointer to a process its array and index.                  *)

Proc(p) == [name |-> p, netChar |-> Value0]

\* n entries that were allocated and never written.
Free(n) == [k \in 1 .. n |-> Proc(NoProc)]

Deref(ptr)     == scenario[ptr[1]][ptr[2]]
DerefProc(ptr) == arrays[ptr[1]][ptr[2]]

\* What the slices show of memory: the document that json.Marshal writes.
Document(scn, arr) ==
  [n \in NLs |-> [i \in 1 .. Len(scn[n]) |->
     [name |-> scn[n][i].name, netChar |-> scn[n][i].netChar,
      procs |-> IF scn[n][i].array = 0 THEN <<>>
                ELSE SubSeq(arr[scn[n][i].array], 1, scn[n][i].len)]]]

\* The elements of a document: <<n, i, 0>> is a physical location, <<n, i, j>>
\* its j-th process.
Slots(doc) ==
  UNION {UNION {{<<n, i, j>> : j \in 0 .. Len(doc[n][i].procs)} :
                  i \in 1 .. Len(doc[n])} : n \in NLs}

Entry(doc, s) == IF s[3] = 0 THEN doc[s[1]][s[2]] ELSE doc[s[1]][s[2]].procs[s[3]]

EntriesOf(doc, e) == {s \in Slots(doc) : Entry(doc, s).name = e}

\* The order of the walk through the document.
Before(x, y) ==
  LET rank(n) == CHOOSE k \in 1 .. Len(NetLocs) : NetLocs[k] = n
  IN  \/ rank(x[1]) < rank(y[1])
      \/ x[1] = y[1] /\ x[2] < y[2]
      \/ x[1] = y[1] /\ x[2] = y[2] /\ x[3] < y[3]

\* The pointers and the context of the element in a slot.
Node(scn, s) ==
  IF s[3] = 0
  THEN [object |-> <<s[1], s[2]>>, parent |-> s[1], context |-> s[1]]
  ELSE [object  |-> <<scn[s[1]][s[2]].array, s[3]>>,
        parent  |-> <<s[1], s[2]>>,
        context |-> scn[s[1]][s[2]].name]

\* parseNodes: of two entries with one name the later stays in the map.
ParseNodes(scn, arr) ==
  LET doc == Document(scn, arr)
      Last(slots) == CHOOSE s \in slots : \A x \in slots : x = s \/ Before(x, s)
  IN  [e \in {Entry(doc, s).name : s \in Slots(doc)} |-> Node(scn, Last(EntriesOf(doc, e)))]

\* Mutant of SwapRemove: truncate without the overwrite.
Truncate(s, k) == SubSeq(s, 1, Len(s) - 1)

\* Overwrite entry k with the last one, then truncate.
SwapRemove(s, k) == SubSeq([s EXCEPT ![k] = s[Len(s)]], 1, Len(s) - 1)

\* The index a removal loop stops at: the first match, and the zero value of
\* idx, the first entry, when nothing matches.
Index(matches) ==
  IF matches = {} THEN 1 ELSE CHOOSE k \in matches : \A j \in matches : k <= j

\* SetScenario: unmarshal the stored document.
Unmarshalled ==
  LET host(p)  == {k \in 1 .. Len(Hosted) : Hosted[k].pl = p}
      array(p) == IF host(p) = {} THEN 0 ELSE CHOOSE k \in host(p) : TRUE
      PL(p) == [name |-> p, netChar |-> Value0, array |-> array(p),
                len |-> IF host(p) = {} THEN 0 ELSE Len(Hosted[array(p)].procs)]
  IN  [scenario |-> [n \in NLs |-> [i \in 1 .. Len(Layout[n]) |-> PL(Layout[n][i])]],
       arrays   |-> [k \in 1 .. Len(Hosted) |->
                       [j \in 1 .. Len(Hosted[k].procs) |-> Proc(Hosted[k].procs[j])]
                         \o Free(Capacity - Len(Hosted[k].procs))]]

Init ==
  /\ scenario = Unmarshalled.scenario /\ arrays = Unmarshalled.arrays
  /\ nodeMap = ParseNodes(scenario, arrays)
  /\ published = Document(scenario, arrays)
-----------------------------------------------------------------------------
(* The operations.                                                         *)

Refresh    == published' = Document(scenario', arrays')
ReparseAll == nodeMap' = ParseNodes(scenario', arrays')

\* Mutant of MovePL: only the node's own parent is brought up to date.
MovePLNoReparse(e, dest) ==
  /\ e \in DOMAIN nodeMap \cap PLs \cap Named /\ dest \in NLs
  /\ LET old == nodeMap[e].parent
         grown == [scenario EXCEPT ![dest] = Append(@, Deref(nodeMap[e].object))]
         matches == {k \in DOMAIN grown[old] : grown[old][k].name \in UEs /\ grown[old][k].name = e}
     IN  /\ old # dest
         /\ scenario' = [grown EXCEPT ![old] = SwapRemove(@, Index(matches))]
         /\ Len(scenario'[dest]) <= MaxLocs
  /\ UNCHANGED arrays
  /\ nodeMap' = [nodeMap EXCEPT ![e].parent = dest]
  /\ Refresh

\* MoveNode of anything but an edge application.  The loop that looks for the
\* element to remove wants the type UE.
MovePL(e, dest) ==
  /\ e \in DOMAIN nodeMap \cap PLs \cap Named /\ dest \in NLs
  /\ LET old == nodeMap[e].parent
         grown == [scenario EXCEPT ![dest] = Append(@, Deref(nodeMap[e].object))]
         matches == {k \in DOMAIN grown[old] : grown[old][k].name \in UEs /\ grown[old][k].name = e}
     IN  /\ old # dest
         /\ scenario' = [grown EXCEPT ![old] = SwapRemove(@, Index(matches))]
         /\ Len(scenario'[dest]) <= MaxLocs
  /\ UNCHANGED arrays
  /\ ReparseAll /\ Refresh

\* append(newPL.Processes, *proc), then the swap-remove in the old slice, each
\* in place where the capacity allows.
Appended(ptr, item) ==
  LET slice == Deref(ptr)
      old == IF slice.array = 0 THEN <<>> ELSE arrays[slice.array]
  IN  IF slice.len < Len(old)
      THEN [arrays   |-> [arrays EXCEPT ![slice.array][slice.len + 1] = item],
            scenario |-> [scenario EXCEPT ![ptr[1]][ptr[2]].len = @ + 1]]
      ELSE [arrays   |-> Append(arrays, Append(old, item)
                                  \o Free(IF Len(old) = 0 THEN 0 ELSE Len(old) - 1)),
            scenario |-> [scenario EXCEPT ![ptr[1]][ptr[2]].len = @ + 1,
                                          ![ptr[1]][ptr[2]].array = Len(arrays) + 1]]

\* MoveNode of an edge application.  The node keeps its object pointer and its
\* context; the map is not built anew.
MoveProc(e, dest) ==
  /\ e \in DOMAIN nodeMap \cap Procs \cap Named /\ dest \in DOMAIN nodeMap \cap Fogs
  /\ LET proc == DerefProc(nodeMap[e].object)
         old == nodeMap[e].parent
         new == nodeMap[dest].object
         grown == Appended(new, proc)
         slice == grown.scenario[old[1]][old[2]]
         entries == SubSeq(grown.arrays[slice.array], 1, slice.len)
         matches == {k \in DOMAIN entries : entries[k].name = e}
     IN  /\ proc.name \notin MgProcs
         /\ old # new
         /\ arrays' = [grown.arrays EXCEPT ![slice.array][Index(matches)] = entries[slice.len]]
         /\ scenario' = [grown.scenario EXCEPT ![old[1]][old[2]].len = @ - 1]
         /\ nodeMap' = [nodeMap EXCEPT ![e].parent = new]
         /\ Len(arrays') <= MaxArrays
  /\ Refresh

UpdateNetChar(e, v) ==
  /\ e \in DOMAIN nodeMap
  /\ LET ptr == nodeMap[e].object
     IN  \/ /\ e \in PLs
            /\ scenario' = [scenario EXCEPT ![ptr[1]][ptr[2]].netChar = v]
            /\ UNCHANGED arrays
         \/ /\ e \in Procs
            /\ arrays' = [arrays EXCEPT ![ptr[1]][ptr[2]].netChar = v]
            /\ UNCHANGED scenario
  /\ UNCHANGED nodeMap
  /\ Refresh

AddScenarioNode(u, nl, v) ==
  /\ u \in UEs \ DOMAIN nodeMap
  /\ Len(scenario[nl]) < MaxLocs
  /\ scenario' = [scenario EXCEPT ![nl] =
                    Append(@, [name |-> u, netChar |-> v, array |-> 0, len |-> 0])]
  /\ UNCHANGED arrays
  /\ ReparseAll /\ Refresh

RemoveScenarioNode(u) ==
  /\ u \in UEs \cap DOMAIN nodeMap
  /\ Deref(nodeMap[u].object).len = 0
  /\ LET nl == nodeMap[u].parent
         matches == {k \in DOMAIN scenario[nl] : scenario[nl][k].name = u}
     IN  scenario' = [scenario EXCEPT ![nl] = SwapRemove(@, Index(matches))]
  /\ UNCHANGED arrays
  /\ ReparseAll /\ Refresh

Next ==
  \/ \E e \in Elems, d \in NLs : MovePL(e, d)
  \/ \E e \in Elems, d \in Fogs : MoveProc(e, d)
  \/ \E e \in Elems, v \in Values : UpdateNetChar(e, v)
  \/ \E u \in UEs, n \in NLs, v \in Values : AddScenarioNode(u, n, v)
  \/ \E u \in UEs : RemoveScenarioNode(u)

Spec == Init /\ [][Next]_vars
-----------------------------------------------------------------------------
(* Properties.                                                             *)

\* The node map is what parseNodes would make of the document now: GetNode,
\* GetNodeParent and GetNodeContext answer for the element that was asked.
NodeMapFresh == nodeMap = ParseNodes(scenario, arrays)

\* Only the move of an edge application leaves stale pointers: every other
\* change of the slices parses the nodes again, or needs not to.
StaleAfterEdgeMove ==
  [][NodeMapFresh /\ ~NodeMapFresh' => \E p \in Procs, d \in Fogs : MoveProc(p, d)]_vars

\* The abstract view of a document: one place and one value per element.
View(doc) ==
  LET where   == [e \in Elems |-> EntriesOf(doc, e)]
      once(e) == \E s \in where[e] : where[e] = {s}
      slot(e) == CHOOSE s \in where[e] : TRUE
      place(s) == IF s[3] = 0 THEN s[1] ELSE doc[s[1]][s[2]].name
  IN  [at      |-> [e \in Elems |-> IF once(e) THEN place(slot(e)) ELSE NoPlace],
       netChar |-> [e \in Elems |-> IF once(e) THEN Entry(doc, slot(e)).netChar ELSE Value0]]

Tree == INSTANCE ScenarioTree WITH
          Places <- NLs \cup PLs,
          doc <- View(Document(scenario, arrays)),
          published <- View(published),
          intact <- NodeMapFresh

\* A request that finds the pointers intact does to the document what it says
\* and nothing else, the result is what is published, and pointers go stale
\* only when something moves.
RefinesTree == Tree!Spec
=============================================================================

-------------------------- MODULE MeepModelProofs ---------------------------
(***************************************************************************)
(* Proofs about the Model object: for any stored document, any capacities  *)
(* and any number of locations and processes.                              *)
(*                                                                         *)
(* Assumed are NamesApart, which the document must satisfy (no code checks *)
(* a stored one), and NoFogMoves, without which the statements are false.  *)
(* A process may be in the document more than once: the moves of edge      *)
(* applications with stale pointers make such documents.                   *)
(*                                                                         *)
(* The argument.  Memory: slices do not overlap, so that a write through   *)
(* one shows in no other.  Nodes: pointers lead somewhere, and Room counts *)
(* the processes parented at a location, so that the swap-remove of a move *)
(* finds an entry even where it removes a wrong one.  For the refinement,  *)
(* the document is read as a set of rows per process: a transfer between   *)
(* two lists shifts the rows one to one, so an element that was there once *)
(* still is, and the view changes for the element that moved alone.        *)
(***************************************************************************)
EXTENDS MeepModel, SequenceTheorems, WellFoundedInduction, TLAPS

\* What the variables hold: cells of the arrays, physical locations, nodes.
Item     == [name : Procs \cup {NoProc}, netChar : Values]
PhyLoc   == [name : PLs, netChar : Values, array : Nat, len : Nat]
NodeType == [object  : (NLs \cup Nat) \X Nat,
             parent  : NLs \cup (NLs \X Nat),
             context : NLs \cup PLs]

\* Documents.
Visible  == [name : Procs, netChar : Values]
Shown    == [name : PLs, netChar : Values, procs : Seq(Visible)]
DocType  == [NLs -> Seq(Shown)]

\* A slice shows processes, and no more than its array has.
Fits(loc, arr) ==
  /\ loc.array \in 0 .. Len(arr)
  /\ loc.array = 0 => loc.len = 0
  /\ loc.array # 0 => loc.len <= Len(arr[loc.array])
  /\ \A j \in 1 .. loc.len : arr[loc.array][j].name \in Procs

\* Every location has a slice that fits.
Slices(scn, arr) == \A n \in NLs : \A i \in 1 .. Len(scn[n]) : Fits(scn[n][i], arr)

\* No two locations have a name or an array in common.
Apart(scn) ==
  \A n, m \in NLs : \A i \in 1 .. Len(scn[n]), k \in 1 .. Len(scn[m]) :
    \/ scn[n][i].name = scn[m][k].name
    \/ scn[n][i].array = scn[m][k].array /\ scn[n][i].array # 0
    => n = m /\ i = k

\* Memory that is right: slices that fit, no array behind two of them.
Memory(scn, arr) ==
  /\ scn \in [NLs -> Seq(PhyLoc)] /\ arr \in Seq(Seq(Item))
  /\ Slices(scn, arr) /\ Apart(scn)

\* What one location shows.
Showing(loc, arr) ==
  [name |-> loc.name, netChar |-> loc.netChar,
   procs |-> IF loc.array = 0 THEN <<>> ELSE SubSeq(arr[loc.array], 1, loc.len)]

\* A location shows its name and its characteristics.
LEMMA ShowingIs ==
  ASSUME NEW loc, NEW arr
  PROVE  Showing(loc, arr).name = loc.name /\ Showing(loc, arr).netChar = loc.netChar
  BY DEF Showing

\* What a location shows is of the document's type: the processes of its slice.
LEMMA ShowingType ==
  ASSUME NEW scn, NEW arr, Memory(scn, arr), NEW n \in NLs, NEW i \in 1 .. Len(scn[n])
  PROVE  LET loc == scn[n][i] IN
         /\ loc \in PhyLoc /\ Showing(loc, arr) \in Shown
         /\ Len(Showing(loc, arr).procs) = loc.len
         /\ \A j \in 1 .. loc.len : Showing(loc, arr).procs[j] = arr[loc.array][j]
<1> DEFINE loc == scn[n][i]
<1>1. loc \in PhyLoc /\ arr \in Seq(Seq(Item))
  BY DEF Memory
<1>2. /\ loc.array \in 0 .. Len(arr)
      /\ loc.array = 0 => loc.len = 0
      /\ loc.array # 0 => loc.len <= Len(arr[loc.array])
      /\ \A j \in 1 .. loc.len : arr[loc.array][j].name \in Procs
  BY DEF Memory, Slices, Fits
<1> HIDE DEF loc
<1>3. loc.len \in Nat /\ loc.name \in PLs /\ loc.netChar \in Values /\ loc.array \in Nat
  BY <1>1 DEF PhyLoc
<1>4. CASE loc.array = 0
  <2>1. Showing(loc, arr) = [name |-> loc.name, netChar |-> loc.netChar, procs |-> <<>>]
    BY <1>4 DEF Showing
  <2>2. <<>> \in Seq(Visible)
    OBVIOUS
  <2> QED BY <1>1, <1>2, <1>3, <1>4, <2>1, <2>2 DEF Shown, loc
<1>5. CASE loc.array # 0
  <2> DEFINE a == arr[loc.array]
             s == SubSeq(a, 1, loc.len)
  <2>1. a \in Seq(Item)
    BY <1>1, <1>2, <1>3, <1>5
  <2>2. \A j \in 1 .. loc.len : a[j] \in Visible
    <3> TAKE j \in 1 .. loc.len
    <3>1. a[j].name \in Procs /\ j \in 1 .. Len(a)
      BY <1>2, <1>3, <1>5
    <3>2. a[j] \in Item
      BY <2>1, <3>1, ElementOfSeq
    <3> HIDE DEF a
    <3> QED BY <3>1, <3>2 DEF Item, Visible
  <2> HIDE DEF a
  <2>3. s \in Seq(Visible) /\ Len(s) = loc.len /\ \A j \in 1 .. loc.len : s[j] = a[j]
    <3>1. /\ s \in Seq(Visible) /\ Len(s) = IF 1 <= loc.len THEN loc.len - 1 + 1 ELSE 0
          /\ \A j \in 1 .. loc.len - 1 + 1 : s[j] = a[1 + j - 1]
      BY <2>2, <1>3, SubSeqProperties
    <3> QED BY <3>1, <1>3
  <2> HIDE DEF s
  <2>4. Showing(loc, arr) = [name |-> loc.name, netChar |-> loc.netChar, procs |-> s]
    BY <1>5 DEF Showing, s, a
  <2> QED BY <1>1, <1>3, <2>3, <2>4 DEF Shown, loc, a
<1> QED BY <1>4, <1>5

\* A document shows each location at its place.
LEMMA DocumentShows ==
  ASSUME NEW scn, NEW arr, Memory(scn, arr)
  PROVE  LET doc == Document(scn, arr) IN
         /\ doc \in DocType
         /\ \A n \in NLs : /\ Len(doc[n]) = Len(scn[n]) /\ Len(scn[n]) \in Nat
                           /\ \A i \in 1 .. Len(scn[n]) : doc[n][i] = Showing(scn[n][i], arr)
<1> DEFINE doc == Document(scn, arr)
           Row(n) == [i \in 1 .. Len(scn[n]) |-> Showing(scn[n][i], arr)]
<1>1. doc = [n \in NLs |-> Row(n)]
  BY DEF Document, Showing
<1>2. ASSUME NEW n \in NLs
      PROVE  Row(n) \in Seq(Shown) /\ Len(Row(n)) = Len(scn[n]) /\ Len(scn[n]) \in Nat
  <2>1. Len(scn[n]) \in Nat
    BY DEF Memory
  <2>2. \A i \in 1 .. Len(scn[n]) : Showing(scn[n][i], arr) \in Shown
    BY ShowingType
  <2> QED BY <2>1, <2>2
<1>3. \A n \in NLs : doc[n] = Row(n)
  BY <1>1
<1>4. doc \in DocType
  BY <1>1, <1>2 DEF DocType
<1>5. \A n \in NLs : \A i \in 1 .. Len(scn[n]) : Row(n)[i] = Showing(scn[n][i], arr)
  OBVIOUS
<1> HIDE DEF doc, Row
<1> QED BY <1>2, <1>3, <1>4, <1>5 DEF doc

-----------------------------------------------------------------------------
(* The elements of a document.                                             *)

\* A slot is that of a location or of one of its processes, ...
LEMMA SlotOf ==
  ASSUME NEW doc, NEW s \in Slots(doc)
  PROVE  /\ s = <<s[1], s[2], s[3]>> /\ s[1] \in NLs /\ s[2] \in 1 .. Len(doc[s[1]])
         /\ s[3] \in 0 .. Len(doc[s[1]][s[2]].procs)
<1> DEFINE Row(n, i) == {<<n, i, j>> : j \in 0 .. Len(doc[n][i].procs)}
           Rows(n) == UNION {Row(n, i) : i \in 1 .. Len(doc[n])}
<1>1. s \in UNION {Rows(n) : n \in NLs}
  BY DEF Slots
<1>2. PICK n \in NLs : s \in Rows(n)
  <2> HIDE DEF Rows
  <2> QED BY <1>1
<1>3. PICK i \in 1 .. Len(doc[n]) : s \in Row(n, i)
  <2> HIDE DEF Row
  <2> QED BY <1>2
<1> QED BY <1>3

\* ... and each of these has one.
LEMMA SlotIs ==
  ASSUME NEW doc, NEW n \in NLs, NEW i \in 1 .. Len(doc[n]), NEW j \in 0 .. Len(doc[n][i].procs)
  PROVE  <<n, i, j>> \in Slots(doc)
  BY DEF Slots

\* A location and its processes, in a document.
LEMMA EntryIs ==
  ASSUME NEW doc \in DocType, NEW n \in NLs, NEW i \in 1 .. Len(doc[n])
  PROVE  /\ doc[n][i] \in Shown /\ Entry(doc, <<n, i, 0>>) = doc[n][i]
         /\ <<n, i, 0>> \in Slots(doc)
         /\ Len(doc[n][i].procs) \in Nat
         /\ \A j \in 1 .. Len(doc[n][i].procs) :
              /\ <<n, i, j>> \in Slots(doc)
              /\ doc[n][i].procs[j] \in Visible
              /\ Entry(doc, <<n, i, j>>) = doc[n][i].procs[j]
<1>1. doc[n] \in Seq(Shown)
  BY DEF DocType
<1>2. doc[n][i] \in Shown
  BY <1>1, ElementOfSeq
<1>3. doc[n][i].procs \in Seq(Visible)
  BY <1>2 DEF Shown
<1>4. Len(doc[n][i].procs) \in Nat /\ 0 \in 0 .. Len(doc[n][i].procs)
  BY <1>3
<1>5. <<n, i, 0>> \in Slots(doc) /\ Entry(doc, <<n, i, 0>>) = doc[n][i]
  BY <1>4, SlotIs DEF Entry
<1>6. ASSUME NEW j \in 1 .. Len(doc[n][i].procs)
      PROVE  /\ <<n, i, j>> \in Slots(doc)
             /\ doc[n][i].procs[j] \in Visible
             /\ Entry(doc, <<n, i, j>>) = doc[n][i].procs[j]
  <2>1. doc[n][i].procs[j] \in Visible
    BY <1>3, ElementOfSeq
  <2>2. j \in 0 .. Len(doc[n][i].procs) /\ j # 0
    BY <1>4
  <2>3. <<n, i, j>> \in Slots(doc)
    BY <2>2, SlotIs
  <2>4. Entry(doc, <<n, i, j>>) = doc[n][i].procs[j]
    BY <2>2 DEF Entry
  <2> QED BY <2>1, <2>3, <2>4
<1> QED BY <1>2, <1>4, <1>5, <1>6

\* A set of numbers that is not empty has a least member, ...
LEMMA LeastNumber ==
  ASSUME NEW T \in SUBSET Nat, T # {}
  PROVE  \E m \in T : \A k \in T : m <= k
<1>1. PICK m \in T : \A k \in T : ~ (<<k, m>> \in OpToRel(<, Nat))
  BY NatLessThanWellFounded, WFMin, Zenon
<1>2. ASSUME NEW k \in T PROVE m <= k
  <2>1. CASE k < m
    <3>1. <<k, m>> \in OpToRel(<, Nat)
      BY <2>1 DEF OpToRel
    <3> QED BY <1>1, <3>1
  <2> QED BY <2>1
<1> QED BY <1>2

\* ... and a greatest, if it is bounded.
LEMMA GreatestNumber ==
  ASSUME NEW b \in Nat, NEW T \in SUBSET (0 .. b), T # {}
  PROVE  \E m \in T : \A k \in T : k <= m
<1> DEFINE U == {b - k : k \in T}
<1>1. U \in SUBSET Nat /\ U # {}
  <2>1. \A k \in T : k \in Nat /\ b - k \in Nat
    OBVIOUS
  <2> QED BY <2>1
<1>2. PICK u \in U : \A k \in U : u <= k
  <2> HIDE DEF U
  <2> QED BY <1>1, LeastNumber
<1>3. PICK m \in T : u = b - m
  BY <1>2
<1>4. ASSUME NEW k \in T PROVE k <= m
  <2>1. b - k \in U
    OBVIOUS
  <2>2. b - m <= b - k
    <3> HIDE DEF U
    <3> QED BY <1>2, <1>3, <2>1
  <2>3. k \in Int /\ m \in Int
    BY <1>3
  <2> QED BY <2>2, <2>3
<1> QED BY <1>3, <1>4

\* The place of a network location in the walk through the document.
Rank(n)  == CHOOSE k \in 1 .. Len(NetLocs) : NetLocs[k] = n

\* It is found.
LEMMA RankIs ==
  ASSUME NEW n \in NLs
  PROVE  Rank(n) \in 1 .. Len(NetLocs) /\ NetLocs[Rank(n)] = n /\ Len(NetLocs) \in Nat
<1>1. \E k \in 1 .. Len(NetLocs) : NetLocs[k] = n
  BY DEF NLs
<1>2. Rank(n) \in 1 .. Len(NetLocs) /\ NetLocs[Rank(n)] = n
  BY <1>1, Zenon DEF Rank
<1>3. Len(NetLocs) \in Nat
  BY ModelAssumption DEF ModelAssumption
<1> QED BY <1>2, <1>3

\* Some element of a document is the last one of a set.
LEMMA SomeIsLast ==
  ASSUME NEW doc \in DocType, NEW T \in SUBSET Slots(doc), T # {}
  PROVE  \E s \in T : \A x \in T : x = s \/ Before(x, s)
<1> DEFINE A == {Rank(s[1]) : s \in T}
<1>1. \A s \in T : /\ s = <<s[1], s[2], s[3]>> /\ s[1] \in NLs /\ s[2] \in 1 .. Len(doc[s[1]])
                  /\ s[3] \in 0 .. Len(doc[s[1]][s[2]].procs)
  BY SlotOf
<1>2. PICK a \in A : \A k \in A : k <= a
  <2>1. A \in SUBSET (0 .. Len(NetLocs)) /\ A # {} /\ Len(NetLocs) \in Nat
    <3>1. \A s \in T : Rank(s[1]) \in 0 .. Len(NetLocs)
      BY <1>1, RankIs
    <3>2. Len(NetLocs) \in Nat
      BY ModelAssumption DEF ModelAssumption
    <3> QED BY <3>1, <3>2
  <2> HIDE DEF A
  <2> QED BY <2>1, GreatestNumber
<1>3. PICK s1 \in T : Rank(s1[1]) = a
  BY <1>2
<1> DEFINE n == s1[1]
           B == {s[2] : s \in {t \in T : t[1] = n}}
<1>4. n \in NLs /\ Len(doc[n]) \in Nat
  <2>1. n \in NLs
    BY <1>1
  <2> HIDE DEF n
  <2> QED BY <2>1 DEF DocType
<1>5. PICK b \in B : \A k \in B : k <= b
  <2>1. B \in SUBSET (0 .. Len(doc[n])) /\ B # {}
    BY <1>1, <1>4
  <2> HIDE DEF B
  <2> QED BY <1>4, <2>1, GreatestNumber
<1>6. PICK s2 \in T : s2[1] = n /\ s2[2] = b
  BY <1>5
<1> DEFINE C == {s[3] : s \in {t \in T : t[1] = n /\ t[2] = b}}
<1>7. b \in 1 .. Len(doc[n]) /\ Len(doc[n][b].procs) \in Nat
  <2>1. b \in 1 .. Len(doc[n])
    BY <1>1, <1>6
  <2> HIDE DEF n
  <2> QED BY <1>4, <2>1, EntryIs
<1>8. PICK c \in C : \A k \in C : k <= c
  <2>1. C \in SUBSET (0 .. Len(doc[n][b].procs)) /\ C # {}
    BY <1>1, <1>6
  <2> HIDE DEF C
  <2> QED BY <1>7, <2>1, GreatestNumber
<1>9. PICK s \in T : s[1] = n /\ s[2] = b /\ s[3] = c
  BY <1>8
<1>10. ASSUME NEW x \in T PROVE x = s \/ Before(x, s)
  <2>1. x = <<x[1], x[2], x[3]>> /\ s = <<n, b, c>> /\ x[1] \in NLs
    BY <1>1, <1>9
  <2>2. Rank(x[1]) <= Rank(n)
    BY <1>2, <1>3
  <2>3. Rank(x[1]) \in Nat /\ Rank(n) \in Nat /\ NetLocs[Rank(x[1])] = x[1] /\ NetLocs[Rank(n)] = n
    BY <1>4, <2>1, RankIs
  <2>4. x[1] = n => x[2] <= b
    BY <1>5
  <2>5. x[1] = n /\ x[2] = b => x[3] <= c
    BY <1>8
  <2>6. x[2] \in Int /\ b \in Int /\ x[3] \in Int /\ c \in Int
    <3>1. x[2] \in Int /\ s[2] \in Int
      BY <1>1
    <3>2. x[3] \in Int /\ s[3] \in Int
      BY <1>1
    <3> QED BY <3>1, <3>2, <1>9
  <2>7. \/ Rank(x[1]) < Rank(n)
        \/ x[1] = n /\ x[2] < b
        \/ x[1] = n /\ x[2] = b /\ x[3] < c
        \/ x[1] = n /\ x[2] = b /\ x[3] = c
    <3> HIDE DEF n, A, B, C
    <3> QED BY <2>2, <2>3, <2>4, <2>5, <2>6
  <2>8. CASE x[1] = n /\ x[2] = b /\ x[3] = c
    BY <2>1, <2>8
  <2>9. CASE Rank(x[1]) < Rank(n) \/ (x[1] = n /\ x[2] < b) \/ (x[1] = n /\ x[2] = b /\ x[3] < c)
    <3>1. Rank(x[1]) < Rank(s[1]) \/ (x[1] = s[1] /\ x[2] < s[2]) \/ (x[1] = s[1] /\ x[2] = s[2] /\ x[3] < s[3])
      BY <2>9, <1>9
    <3> QED BY <3>1 DEF Before, Rank
  <2> QED BY <2>7, <2>8, <2>9
<1> QED BY <1>10

-----------------------------------------------------------------------------
(* The view of a document.                                                 *)

\* No physical location has an entry twice.
Distinct(doc) ==
  \A n, m \in NLs : \A i \in 1 .. Len(doc[n]), k \in 1 .. Len(doc[m]) :
    doc[n][i].name = doc[m][k].name => n = m /\ i = k

\* Where the entry in a slot is: a network location, or a physical one.
Placed(doc, s) == IF s[3] = 0 THEN s[1] ELSE doc[s[1]][s[2]].name

\* What the view has of an element that is there once, and of any other.
LEMMA ViewIs ==
  ASSUME NEW doc, NEW x \in Elems
  PROVE  /\ \A s : EntriesOf(doc, x) = {s} =>
              View(doc).at[x] = Placed(doc, s) /\ View(doc).netChar[x] = Entry(doc, s).netChar
         /\ (\A s : EntriesOf(doc, x) # {s}) =>
              View(doc).at[x] = NoPlace /\ View(doc).netChar[x] = Value0
<1> DEFINE where == [e \in Elems |-> EntriesOf(doc, e)]
           once(e) == \E s \in where[e] : where[e] = {s}
           slot(e) == CHOOSE s \in where[e] : TRUE
           at == [e \in Elems |-> IF once(e) THEN Placed(doc, slot(e)) ELSE NoPlace]
           netChar == [e \in Elems |-> IF once(e) THEN Entry(doc, slot(e)).netChar ELSE Value0]
<1>1. View(doc) = [at |-> at, netChar |-> netChar]
  BY Zenon DEF View, Placed
<1>2. where[x] = EntriesOf(doc, x)
  OBVIOUS
<1> HIDE DEF where
<1>3. /\ View(doc).at[x] = IF once(x) THEN Placed(doc, slot(x)) ELSE NoPlace
      /\ View(doc).netChar[x] = IF once(x) THEN Entry(doc, slot(x)).netChar ELSE Value0
  <2>1. View(doc).at = at /\ View(doc).netChar = netChar
    <3> HIDE DEF at, netChar
    <3> QED BY <1>1
  <2>2. at[x] = (IF once(x) THEN Placed(doc, slot(x)) ELSE NoPlace)
    <3> HIDE DEF once, slot
    <3> QED OBVIOUS
  <2>3. netChar[x] = (IF once(x) THEN Entry(doc, slot(x)).netChar ELSE Value0)
    <3> HIDE DEF once, slot
    <3> QED OBVIOUS
  <2> HIDE DEF at, netChar
  <2> QED BY <2>1, <2>2, <2>3
<1>4. ASSUME NEW s, EntriesOf(doc, x) = {s}
      PROVE  View(doc).at[x] = Placed(doc, s) /\ View(doc).netChar[x] = Entry(doc, s).netChar
  <2>1. once(x)
    BY <1>2, <1>4
  <2>2. slot(x) = s
    BY <1>2, <1>4
  <2> HIDE DEF once, slot
  <2> QED BY <1>3, <2>1, <2>2
<1>5. ASSUME \A s : EntriesOf(doc, x) # {s}
      PROVE  View(doc).at[x] = NoPlace /\ View(doc).netChar[x] = Value0
  <2>1. ~once(x)
    BY <1>2, <1>5
  <2> HIDE DEF once, slot
  <2> QED BY <1>3, <2>1
<1> QED BY <1>4, <1>5

\* Every entry of a document has a slot of its kind.
LEMMA EntryKind ==
  ASSUME NEW doc \in DocType, NEW s \in Slots(doc)
  PROVE  /\ s = <<s[1], s[2], s[3]>> /\ s[1] \in NLs /\ s[2] \in 1 .. Len(doc[s[1]])
         /\ s[3] \in Nat /\ doc[s[1]][s[2]] \in Shown
         /\ s[3] = 0 => Entry(doc, s) = doc[s[1]][s[2]]
         /\ s[3] # 0 => /\ s[3] \in 1 .. Len(doc[s[1]][s[2]].procs)
                        /\ Entry(doc, s) = doc[s[1]][s[2]].procs[s[3]]
                        /\ Entry(doc, s) \in Visible
<1>1. /\ s = <<s[1], s[2], s[3]>> /\ s[1] \in NLs /\ s[2] \in 1 .. Len(doc[s[1]])
      /\ s[3] \in 0 .. Len(doc[s[1]][s[2]].procs)
  BY SlotOf
<1>2. doc[s[1]][s[2]] \in Shown /\ Len(doc[s[1]][s[2]].procs) \in Nat
  BY <1>1, EntryIs
<1>3. s[3] # 0 => s[3] \in 1 .. Len(doc[s[1]][s[2]].procs)
  BY <1>1, <1>2
<1>4. s[3] # 0 => doc[s[1]][s[2]].procs[s[3]] \in Visible
  BY <1>1, <1>3, EntryIs
<1> QED BY <1>1, <1>2, <1>3, <1>4 DEF Entry

\* The view is a document of ScenarioTree.
LEMMA ViewType ==
  ASSUME NEW doc \in DocType
  PROVE  View(doc) \in Tree!Document
<1>1. ASSUME NEW x \in Elems
      PROVE  View(doc).at[x] \in (NLs \cup PLs) \cup {NoPlace} /\ View(doc).netChar[x] \in Values
  <2>1. CASE \E s : EntriesOf(doc, x) = {s}
    <3>1. PICK s : EntriesOf(doc, x) = {s}
      BY <2>1
    <3>2. s \in Slots(doc)
      BY <3>1 DEF EntriesOf
    <3>3. View(doc).at[x] = Placed(doc, s) /\ View(doc).netChar[x] = Entry(doc, s).netChar
      BY <3>1, ViewIs
    <3> QED BY <3>2, <3>3, EntryKind DEF Placed, Shown, Visible
  <2>2. CASE \A s : EntriesOf(doc, x) # {s}
    <3>1. Value0 \in Values
      BY ModelAssumption DEF ModelAssumption
    <3> QED BY <2>2, <3>1, ViewIs
  <2> QED BY <2>1, <2>2
<1> DEFINE where == [e \in Elems |-> EntriesOf(doc, e)]
           once(e) == \E s \in where[e] : where[e] = {s}
           slot(e) == CHOOSE s \in where[e] : TRUE
           f(e) == IF once(e) THEN Placed(doc, slot(e)) ELSE NoPlace
           g(e) == IF once(e) THEN Entry(doc, slot(e)).netChar ELSE Value0
<1>2. View(doc) = [at |-> [e \in Elems |-> f(e)], netChar |-> [e \in Elems |-> g(e)]]
  BY Zenon DEF View, Placed
<1> HIDE DEF f, g
<1>3. \A e \in Elems : View(doc).at[e] = f(e) /\ View(doc).netChar[e] = g(e)
  BY <1>2
<1>5. /\ [e \in Elems |-> f(e)] \in [Elems -> (NLs \cup PLs) \cup {NoPlace}]
      /\ [e \in Elems |-> g(e)] \in [Elems -> Values]
  BY <1>1, <1>3
<1> QED BY <1>2, <1>5 DEF Tree!Document

\* The element kinds do not overlap, and the elements and places have
\* different names.
NamesApart ==
  /\ PLs \cap Procs = {} /\ NLs \cap PLs = {}
  /\ \A n, m \in NLs : \A i \in 1 .. Len(Layout[n]), k \in 1 .. Len(Layout[m]) :
       Layout[n][i] = Layout[m][k] => n = m /\ i = k

\* A location is in one place, ...
LEMMA LocationView ==
  ASSUME NEW doc \in DocType, Distinct(doc), NamesApart, NEW n \in NLs, NEW i \in 1 .. Len(doc[n])
  PROVE  /\ EntriesOf(doc, doc[n][i].name) = {<<n, i, 0>>}
         /\ View(doc).at[doc[n][i].name] = n
         /\ View(doc).netChar[doc[n][i].name] = doc[n][i].netChar
<1> DEFINE x == doc[n][i].name
<1>1. x \in PLs /\ Entry(doc, <<n, i, 0>>) = doc[n][i] /\ <<n, i, 0>> \in Slots(doc)
  BY EntryIs DEF Shown
<1>2. ASSUME NEW s \in EntriesOf(doc, x)
      PROVE  s = <<n, i, 0>>
  <2>1. s \in Slots(doc) /\ Entry(doc, s).name = x
    BY DEF EntriesOf
  <2>2. /\ s = <<s[1], s[2], s[3]>> /\ s[1] \in NLs /\ s[2] \in 1 .. Len(doc[s[1]])
        /\ s[3] = 0 => Entry(doc, s) = doc[s[1]][s[2]]
        /\ s[3] # 0 => Entry(doc, s) \in Visible
    BY <2>1, EntryKind
  <2>3. s[3] = 0
    BY <1>1, <2>1, <2>2 DEF Visible, NamesApart
  <2>4. s[1] = n /\ s[2] = i
    BY <2>1, <2>2, <2>3 DEF Distinct
  <2> QED BY <2>2, <2>3, <2>4
<1>3. EntriesOf(doc, x) = {<<n, i, 0>>}
  BY <1>1, <1>2 DEF EntriesOf
<1>4. x \in Elems
  BY <1>1 DEF Elems
<1> HIDE DEF x
<1>5. View(doc).at[x] = Placed(doc, <<n, i, 0>>) /\ View(doc).netChar[x] = Entry(doc, <<n, i, 0>>).netChar
  BY <1>3, <1>4, ViewIs
<1> QED BY <1>1, <1>3, <1>5 DEF Placed, x

\* ... or nowhere.
LEMMA NoLocation ==
  ASSUME NEW doc \in DocType, NamesApart, NEW x \in PLs,
         \A n \in NLs : \A i \in 1 .. Len(doc[n]) : doc[n][i].name # x
  PROVE  /\ EntriesOf(doc, x) = {}
         /\ View(doc).at[x] = NoPlace /\ View(doc).netChar[x] = Value0
<1>1. ASSUME NEW s \in EntriesOf(doc, x)
      PROVE  FALSE
  <2>1. s \in Slots(doc) /\ Entry(doc, s).name = x
    BY DEF EntriesOf
  <2>2. /\ s[1] \in NLs /\ s[2] \in 1 .. Len(doc[s[1]])
        /\ s[3] = 0 => Entry(doc, s) = doc[s[1]][s[2]]
        /\ s[3] # 0 => Entry(doc, s) \in Visible
    BY <2>1, EntryKind
  <2> QED BY <2>1, <2>2 DEF Visible, NamesApart
<1>2. EntriesOf(doc, x) = {} /\ x \in Elems
  BY <1>1 DEF Elems
<1>3. \A s : EntriesOf(doc, x) # {s}
  BY <1>2
<1> QED BY <1>2, <1>3, ViewIs

\* The entries of a process: the location by name, the index, the value.
Row(doc, s)  == <<doc[s[1]][s[2]].name, s[3], Entry(doc, s).netChar>>
Rows(doc, x) == {Row(doc, s) : s \in EntriesOf(doc, x)}

\* The entries of a process are in the lists of processes.
LEMMA ProcEntry ==
  ASSUME NEW doc \in DocType, NamesApart, NEW x \in Procs, NEW s \in EntriesOf(doc, x)
  PROVE  /\ s = <<s[1], s[2], s[3]>> /\ s[1] \in NLs /\ s[2] \in 1 .. Len(doc[s[1]])
         /\ s[3] \in 1 .. Len(doc[s[1]][s[2]].procs) /\ s[3] \in Nat /\ s[3] # 0
         /\ Entry(doc, s) = doc[s[1]][s[2]].procs[s[3]]
         /\ Entry(doc, s) \in Visible /\ Entry(doc, s).name = x
<1>1. s \in Slots(doc) /\ Entry(doc, s).name = x
  BY DEF EntriesOf
<1>2. s[3] # 0
  <2>1. s[3] = 0 => Entry(doc, s).name \in PLs
    BY <1>1, EntryKind DEF Shown
  <2> QED BY <1>1, <2>1 DEF NamesApart
<1> QED BY <1>1, <1>2, EntryKind

\* What is in a list of processes is a row of a process, and the reverse.
LEMMA RowOf ==
  ASSUME NEW doc \in DocType, NamesApart, NEW x \in Procs, NEW n \in NLs, NEW i \in 1 .. Len(doc[n]),
         NEW j \in 1 .. Len(doc[n][i].procs), doc[n][i].procs[j].name = x
  PROVE  <<doc[n][i].name, j, doc[n][i].procs[j].netChar>> \in Rows(doc, x)
<1>1. <<n, i, j>> \in Slots(doc) /\ Entry(doc, <<n, i, j>>) = doc[n][i].procs[j]
  BY EntryIs
<1>2. <<n, i, j>> \in EntriesOf(doc, x)
  BY <1>1 DEF EntriesOf
<1> QED BY <1>1, <1>2 DEF Rows, Row

\* A row is that of an entry in a list of processes.
LEMMA RowIs ==
  ASSUME NEW doc \in DocType, NamesApart, NEW x \in Procs, NEW r \in Rows(doc, x)
  PROVE  \E n \in NLs : \E i \in 1 .. Len(doc[n]) :
           /\ r = <<r[1], r[2], r[3]>> /\ r[1] = doc[n][i].name
           /\ r[2] \in 1 .. Len(doc[n][i].procs)
           /\ doc[n][i].procs[r[2]] \in Visible /\ doc[n][i].procs[r[2]].name = x
           /\ doc[n][i].procs[r[2]].netChar = r[3]
<1>1. PICK s \in EntriesOf(doc, x) : r = Row(doc, s)
  BY DEF Rows
<1>2. r = <<doc[s[1]][s[2]].name, s[3], Entry(doc, s).netChar>>
  BY <1>1 DEF Row
<1>3. /\ s[1] \in NLs /\ s[2] \in 1 .. Len(doc[s[1]])
      /\ s[3] \in 1 .. Len(doc[s[1]][s[2]].procs)
      /\ Entry(doc, s) = doc[s[1]][s[2]].procs[s[3]]
      /\ Entry(doc, s) \in Visible /\ Entry(doc, s).name = x
  BY ProcEntry
<1>4. r[1] = doc[s[1]][s[2]].name /\ r[2] = s[3] /\ r[3] = Entry(doc, s).netChar
  BY <1>2
<1> QED BY <1>2, <1>3, <1>4

\* The view of a process is in its rows.
LEMMA RowView ==
  ASSUME NEW doc \in DocType, Distinct(doc), NamesApart, NEW x \in Procs
  PROVE  /\ \A r : Rows(doc, x) = {r} => View(doc).at[x] = r[1] /\ View(doc).netChar[x] = r[3]
         /\ (\A r : Rows(doc, x) # {r}) => View(doc).at[x] = NoPlace /\ View(doc).netChar[x] = Value0
<1>0. x \in Elems
  BY DEF Elems
<1>1. ASSUME NEW s, NEW t, s \in EntriesOf(doc, x), t \in EntriesOf(doc, x), Row(doc, s) = Row(doc, t)
      PROVE  s = t
  <2>1. /\ s = <<s[1], s[2], s[3]>> /\ s[1] \in NLs /\ s[2] \in 1 .. Len(doc[s[1]])
        /\ t = <<t[1], t[2], t[3]>> /\ t[1] \in NLs /\ t[2] \in 1 .. Len(doc[t[1]])
    BY <1>1, ProcEntry
  <2>2. doc[s[1]][s[2]].name = doc[t[1]][t[2]].name /\ s[3] = t[3]
    BY <1>1 DEF Row
  <2>3. s[1] = t[1] /\ s[2] = t[2]
    BY <2>1, <2>2 DEF Distinct
  <2> QED BY <2>1, <2>2, <2>3
<1>2. ASSUME NEW r, Rows(doc, x) = {r}
      PROVE  \E s : EntriesOf(doc, x) = {s} /\ r = Row(doc, s)
  <2>1. PICK s \in EntriesOf(doc, x) : r = Row(doc, s)
    BY <1>2 DEF Rows
  <2>2. \A t \in EntriesOf(doc, x) : Row(doc, t) = r
    BY <1>2 DEF Rows
  <2>3. EntriesOf(doc, x) = {s}
    BY <1>1, <2>1, <2>2
  <2> QED BY <2>1, <2>3
<1>3. ASSUME NEW s, EntriesOf(doc, x) = {s}
      PROVE  Rows(doc, x) = {Row(doc, s)}
  BY <1>3 DEF Rows
<1>4. ASSUME NEW r, Rows(doc, x) = {r}
      PROVE  View(doc).at[x] = r[1] /\ View(doc).netChar[x] = r[3]
  <2>1. PICK s : EntriesOf(doc, x) = {s} /\ r = Row(doc, s)
    BY <1>2, <1>4
  <2>2. View(doc).at[x] = Placed(doc, s) /\ View(doc).netChar[x] = Entry(doc, s).netChar
    BY <1>0, <2>1, ViewIs
  <2>3. s[3] # 0
    <3>1. s \in EntriesOf(doc, x)
      BY <2>1
    <3> QED BY <3>1, ProcEntry
  <2>4. r[1] = doc[s[1]][s[2]].name /\ r[3] = Entry(doc, s).netChar
    BY <2>1 DEF Row
  <2> QED BY <2>2, <2>3, <2>4 DEF Placed
<1>5. ASSUME \A r : Rows(doc, x) # {r}
      PROVE  View(doc).at[x] = NoPlace /\ View(doc).netChar[x] = Value0
  <2>1. \A s : EntriesOf(doc, x) # {s}
    BY <1>3, <1>5
  <2> QED BY <1>0, <2>1, ViewIs
<1> QED BY <1>4, <1>5

\* The same rows are the same view.
LEMMA SameRows ==
  ASSUME NEW d \in DocType, NEW d2 \in DocType, Distinct(d), Distinct(d2), NamesApart,
         NEW x \in Procs, Rows(d, x) = Rows(d2, x)
  PROVE  View(d2).at[x] = View(d).at[x] /\ View(d2).netChar[x] = View(d).netChar[x]
<1>1. CASE \E r : Rows(d, x) = {r}
  <2>1. PICK r : Rows(d, x) = {r} /\ Rows(d2, x) = {r}
    BY <1>1
  <2>2. View(d).at[x] = r[1] /\ View(d).netChar[x] = r[3]
    BY <2>1, RowView
  <2>3. View(d2).at[x] = r[1] /\ View(d2).netChar[x] = r[3]
    BY <2>1, RowView
  <2> QED BY <2>2, <2>3
<1>2. CASE \A r : Rows(d, x) # {r}
  <2>1. View(d).at[x] = NoPlace /\ View(d).netChar[x] = Value0
    BY <1>2, RowView
  <2>2. View(d2).at[x] = NoPlace /\ View(d2).netChar[x] = Value0
    <3>1. \A r : Rows(d2, x) # {r}
      BY <1>2
    <3> QED BY <3>1, RowView
  <2> QED BY <2>1, <2>2
<1> QED BY <1>1, <1>2

\* Every location with processes is found again, in any place.
Carries(d, d2) ==
  \A n \in NLs : \A i \in 1 .. Len(d[n]) : Len(d[n][i].procs) # 0 =>
    \E m \in NLs : \E k \in 1 .. Len(d2[m]) :
      d2[m][k].name = d[n][i].name /\ d2[m][k].procs = d[n][i].procs

\* So are all rows.
LEMMA Carried ==
  ASSUME NEW d \in DocType, NEW d2 \in DocType, NamesApart, NEW x \in Procs,
         Carries(d, d2)
  PROVE  Rows(d, x) \subseteq Rows(d2, x)
<1> SUFFICES ASSUME NEW r \in Rows(d, x) PROVE r \in Rows(d2, x)
  OBVIOUS
<1>1. PICK n \in NLs : \E i \in 1 .. Len(d[n]) :
           /\ r = <<r[1], r[2], r[3]>> /\ r[1] = d[n][i].name
           /\ r[2] \in 1 .. Len(d[n][i].procs)
           /\ d[n][i].procs[r[2]] \in Visible /\ d[n][i].procs[r[2]].name = x
           /\ d[n][i].procs[r[2]].netChar = r[3]
  BY RowIs
<1>2. PICK i \in 1 .. Len(d[n]) :
           /\ r = <<r[1], r[2], r[3]>> /\ r[1] = d[n][i].name
           /\ r[2] \in 1 .. Len(d[n][i].procs)
           /\ d[n][i].procs[r[2]] \in Visible /\ d[n][i].procs[r[2]].name = x
           /\ d[n][i].procs[r[2]].netChar = r[3]
  BY <1>1
<1>3. Len(d[n][i].procs) # 0
  BY <1>2
<1>4. PICK m \in NLs : \E k \in 1 .. Len(d2[m]) : d2[m][k].name = d[n][i].name /\ d2[m][k].procs = d[n][i].procs
  BY <1>3 DEF Carries
<1>5. PICK k \in 1 .. Len(d2[m]) : d2[m][k].name = d[n][i].name /\ d2[m][k].procs = d[n][i].procs
  BY <1>4
<1>6. <<d2[m][k].name, r[2], d2[m][k].procs[r[2]].netChar>> \in Rows(d2, x)
  BY <1>2, <1>5, RowOf
<1> QED BY <1>2, <1>5, <1>6
-----------------------------------------------------------------------------
(* The node map.                                                           *)

\* The entry that parseNodes meets last.
LastOf(slots) == CHOOSE s \in slots : \A x \in slots : x = s \/ Before(x, s)

\* Where the node of a location and of a process lead to.
LocAt(scn, e, node) ==
  \E n \in NLs : \E i \in 1 .. Len(scn[n]) :
    scn[n][i].name = e /\ node.object = <<n, i>> /\ node.parent = n

ProcAt(scn, arr, e, node) ==
  \E n \in NLs : \E i \in 1 .. Len(scn[n]) : \E j \in 1 .. scn[n][i].len :
    /\ scn[n][i].array \in 1 .. Len(arr) /\ j \in 1 .. Len(arr[scn[n][i].array])
    /\ arr[scn[n][i].array][j].name = e
    /\ node.object = <<scn[n][i].array, j>> /\ node.parent = <<n, i>>

\* The processes whose node says that they are at one location.
Parented(map, loc) == {e \in DOMAIN map \cap Procs : map[e].parent = loc}

\* The nodes of locations: each leads to its location, and each location has one.
LocNodes(scn, map) ==
  /\ \A p \in DOMAIN map \cap PLs : LocAt(scn, p, map[p])
  /\ \A n \in NLs : \A i \in 1 .. Len(scn[n]) : scn[n][i].name \in DOMAIN map

\* The nodes of processes, which may be stale: the object pointer leads to a cell
\* that some process has, the parent pointer to some location.
ProcNodes(scn, arr, map) ==
  \A e \in DOMAIN map \cap Procs :
    /\ \E a \in 1 .. Len(arr) : \E j \in 1 .. Len(arr[a]) :
         arr[a][j].name \in Procs /\ map[e].object = <<a, j>>
    /\ \E n \in NLs : \E i \in 1 .. Len(scn[n]) : map[e].parent = <<n, i>>

\* At no location are more processes parented than its slice has entries: the
\* removal loop of MoveNode never meets a slice that is empty.
Room(scn, map) ==
  \A n \in NLs : \A i \in 1 .. Len(scn[n]) :
    \E f \in [Parented(map, <<n, i>>) -> 1 .. scn[n][i].len] :
      \A x, y \in Parented(map, <<n, i>>) : f[x] = f[y] => x = y

\* The node map is right as far as stale pointers allow.
Nodes(scn, arr, map) ==
  /\ map \in [DOMAIN map -> NodeType] /\ DOMAIN map \subseteq Elems
  /\ LocNodes(scn, map) /\ ProcNodes(scn, arr, map) /\ Room(scn, map)

\* The document of memory that is right has no location twice.
LEMMA DocumentDistinct ==
  ASSUME NEW scn, NEW arr, Memory(scn, arr)
  PROVE  Distinct(Document(scn, arr))
<1> DEFINE doc == Document(scn, arr)
<1>1. \A n \in NLs : /\ Len(doc[n]) = Len(scn[n])
                     /\ \A i \in 1 .. Len(scn[n]) : doc[n][i].name = scn[n][i].name
  <2>1. \A n \in NLs : /\ Len(doc[n]) = Len(scn[n])
                       /\ \A i \in 1 .. Len(scn[n]) : doc[n][i] = Showing(scn[n][i], arr)
    BY DocumentShows
  <2> HIDE DEF doc
  <2> QED BY <2>1, ShowingIs
<1> HIDE DEF doc
<1>2. \A n, m \in NLs : \A i \in 1 .. Len(scn[n]), k \in 1 .. Len(scn[m]) :
        scn[n][i].name = scn[m][k].name => n = m /\ i = k
  BY DEF Memory, Apart
<1> QED BY <1>1, <1>2 DEF Distinct, doc

\* What parseNodes makes, with LastOf.
LEMMA ParseIs ==
  ASSUME NEW scn, NEW arr
  PROVE  ParseNodes(scn, arr) =
           [e \in {Entry(Document(scn, arr), s).name : s \in Slots(Document(scn, arr))} |->
              Node(scn, LastOf(EntriesOf(Document(scn, arr), e)))]
  BY Zenon DEF ParseNodes, LastOf

\* Every element of the document has a node, of one of its entries.
LEMMA Parsed ==
  ASSUME NEW scn, NEW arr, Memory(scn, arr)
  PROVE  LET map == ParseNodes(scn, arr)
             doc == Document(scn, arr)
         IN  /\ map = [e \in DOMAIN map |-> map[e]]
             /\ \A s \in Slots(doc) : Entry(doc, s).name \in DOMAIN map
             /\ \A e \in DOMAIN map : \E s \in EntriesOf(doc, e) :
                  s = LastOf(EntriesOf(doc, e)) /\ map[e] = Node(scn, s)
<1> DEFINE map == ParseNodes(scn, arr)
           doc == Document(scn, arr)
           D == {Entry(doc, s).name : s \in Slots(doc)}
<1>1. map = [e \in D |-> Node(scn, LastOf(EntriesOf(doc, e)))]
  BY ParseIs
<1>2. doc \in DocType
  BY DocumentShows
<1> HIDE DEF doc, map
<1>3. DOMAIN map = D /\ map = [e \in DOMAIN map |-> map[e]]
      /\ \A e \in D : map[e] = Node(scn, LastOf(EntriesOf(doc, e)))
  <2> HIDE DEF D
  <2> QED BY <1>1
<1>4. ASSUME NEW e \in D
      PROVE  LastOf(EntriesOf(doc, e)) \in EntriesOf(doc, e)
  <2>1. EntriesOf(doc, e) \in SUBSET Slots(doc) /\ EntriesOf(doc, e) # {}
    BY DEF EntriesOf
  <2>2. \E s \in EntriesOf(doc, e) : \A x \in EntriesOf(doc, e) : x = s \/ Before(x, s)
    BY <1>2, <2>1, SomeIsLast
  <2> QED BY <2>2, Zenon DEF LastOf
<1>5. \A s \in Slots(doc) : Entry(doc, s).name \in D
  OBVIOUS
<1> HIDE DEF D
<1>6. \A e \in DOMAIN map : \E s \in EntriesOf(doc, e) :
                  s = LastOf(EntriesOf(doc, e)) /\ map[e] = Node(scn, s)
  BY <1>3, <1>4
<1> QED BY <1>3, <1>5, <1>6 DEF map, doc

\* The node of a parsed element leads to an entry of its name.
LEMMA ParsedEntry ==
  ASSUME NEW scn, NEW arr, Memory(scn, arr), NamesApart,
         NEW map, map = ParseNodes(scn, arr), NEW e \in DOMAIN map
  PROVE  /\ e \in Elems /\ map[e] \in NodeType
         /\ e \in PLs => LocAt(scn, e, map[e])
         /\ e \in Procs => ProcAt(scn, arr, e, map[e])
<1> DEFINE node == map[e]
           doc == Document(scn, arr)
<1>1. PICK s \in EntriesOf(doc, e) : node = Node(scn, s)
  BY Parsed
<1>2. /\ doc \in DocType
      /\ \A n \in NLs : /\ Len(doc[n]) = Len(scn[n]) /\ Len(scn[n]) \in Nat
                        /\ \A i \in 1 .. Len(scn[n]) : doc[n][i] = Showing(scn[n][i], arr)
  BY DocumentShows
<1>3. s \in Slots(doc) /\ Entry(doc, s).name = e
  BY <1>1 DEF EntriesOf
<1> HIDE DEF doc, node
<1>4. /\ s = <<s[1], s[2], s[3]>> /\ s[1] \in NLs /\ s[2] \in 1 .. Len(doc[s[1]])
      /\ s[3] \in Nat /\ doc[s[1]][s[2]] \in Shown
      /\ s[3] = 0 => Entry(doc, s) = doc[s[1]][s[2]]
      /\ s[3] # 0 => /\ s[3] \in 1 .. Len(doc[s[1]][s[2]].procs)
                     /\ Entry(doc, s) = doc[s[1]][s[2]].procs[s[3]]
                     /\ Entry(doc, s) \in Visible
  BY <1>2, <1>3, EntryKind
<1> DEFINE n == s[1]
           i == s[2]
           loc == scn[n][i]
<1>5. n \in NLs /\ i \in 1 .. Len(scn[n]) /\ doc[n][i] = Showing(loc, arr) /\ i \in Nat
  BY <1>2, <1>4
<1>6. /\ loc \in PhyLoc /\ Len(Showing(loc, arr).procs) = loc.len
      /\ \A j \in 1 .. loc.len : Showing(loc, arr).procs[j] = arr[loc.array][j]
      /\ Showing(loc, arr).name = loc.name
  <2>1. /\ loc \in PhyLoc /\ Len(Showing(loc, arr).procs) = loc.len
        /\ \A j \in 1 .. loc.len : Showing(loc, arr).procs[j] = arr[loc.array][j]
    <3> HIDE DEF n, i
    <3> QED BY <1>5, ShowingType
  <2> QED BY <2>1, ShowingIs
<1>7. CASE s[3] = 0
  <2>1. e = loc.name /\ e \in PLs /\ e \notin Procs
    BY <1>3, <1>4, <1>5, <1>6, <1>7 DEF NamesApart, PhyLoc
  <2>2. node = [object |-> <<n, i>>, parent |-> n, context |-> n]
    BY <1>1, <1>7 DEF Node
  <2>3. node \in NodeType
    BY <1>5, <2>2 DEF NodeType
  <2> QED BY <1>5, <2>1, <2>2, <2>3 DEF node, Elems, LocAt
<1>8. CASE s[3] # 0
  <2>1. s[3] \in 1 .. loc.len /\ arr[loc.array][s[3]].name = e /\ e \in Procs /\ e \notin PLs
    BY <1>3, <1>4, <1>5, <1>6, <1>8 DEF NamesApart, Visible
  <2>2. node = [object |-> <<loc.array, s[3]>>, parent |-> <<n, i>>, context |-> loc.name]
    BY <1>1, <1>8 DEF Node
  <2>3. node \in NodeType
    BY <1>4, <1>5, <1>6, <2>2 DEF NodeType, PhyLoc
  <2>4. loc.array \in 1 .. Len(arr) /\ s[3] \in 1 .. Len(arr[loc.array])
    <3>1. /\ loc.array \in 0 .. Len(arr)
          /\ loc.array = 0 => loc.len = 0
          /\ loc.array # 0 => loc.len <= Len(arr[loc.array])
      <4>1. Fits(scn[n][i], arr)
        <5> HIDE DEF n, i
        <5> QED BY <1>5 DEF Memory, Slices
      <4> HIDE DEF n, i
      <4> QED BY <4>1 DEF Fits
    <3>2. Len(arr) \in Nat /\ loc.len \in Nat
      <4>1. Len(arr) \in Nat
        BY LenProperties DEF Memory
      <4>2. loc.len \in Nat
        <5> HIDE DEF loc
        <5> QED BY <1>6 DEF PhyLoc
      <4> QED BY <4>1, <4>2
    <3>3. loc.array \in 1 .. Len(arr)
      <4> HIDE DEF loc
      <4> QED BY <2>1, <3>1, <3>2
    <3>4. arr[loc.array] \in Seq(Item)
      BY <3>3, ElementOfSeq DEF Memory
    <3>5. Len(arr[loc.array]) \in Nat
      BY <3>4, LenProperties
    <3> HIDE DEF loc
    <3> QED BY <2>1, <3>1, <3>2, <3>3, <3>5
  <2> HIDE DEF n, i
  <2>5. ProcAt(scn, arr, e, node)
    BY <1>5, <2>1, <2>2, <2>4 DEF ProcAt
  <2> QED BY <2>1, <2>3, <2>5 DEF node, Elems
<1> QED BY <1>7, <1>8

\* What parseNodes makes is right.
LEMMA ParsedNodes ==
  ASSUME NEW scn, NEW arr, Memory(scn, arr), NamesApart
  PROVE  Nodes(scn, arr, ParseNodes(scn, arr))
<1> DEFINE map == ParseNodes(scn, arr)
           doc == Document(scn, arr)
<1>0. map = ParseNodes(scn, arr)
  OBVIOUS
<1> HIDE DEF map
<1>1. \A e \in DOMAIN map :
         /\ e \in Elems /\ map[e] \in NodeType
         /\ e \in PLs => LocAt(scn, e, map[e])
         /\ e \in Procs => ProcAt(scn, arr, e, map[e])
  BY <1>0, ParsedEntry
<1>2. map = [e \in DOMAIN map |-> map[e]] /\ \A s \in Slots(doc) : Entry(doc, s).name \in DOMAIN map
  BY <1>0, Parsed
<1>3. doc \in DocType /\ \A n \in NLs : /\ Len(doc[n]) = Len(scn[n])
                        /\ \A i \in 1 .. Len(scn[n]) : doc[n][i].name = scn[n][i].name
  <2>1. /\ doc \in DocType
        /\ \A n \in NLs : /\ Len(doc[n]) = Len(scn[n])
                          /\ \A i \in 1 .. Len(scn[n]) : doc[n][i] = Showing(scn[n][i], arr)
    BY DocumentShows
  <2> HIDE DEF doc
  <2> QED BY <2>1, ShowingIs
<1> HIDE DEF doc, map
<1>4. map \in [DOMAIN map -> NodeType] /\ DOMAIN map \subseteq Elems
  BY <1>1, <1>2
<1>5. LocNodes(scn, map)
  <2>1. ASSUME NEW n \in NLs, NEW i \in 1 .. Len(scn[n])
        PROVE  scn[n][i].name \in DOMAIN map
    <3>1. i \in 1 .. Len(doc[n])
      BY <1>3
    <3>2. <<n, i, 0>> \in Slots(doc) /\ Entry(doc, <<n, i, 0>>) = doc[n][i]
      BY <1>3, <3>1, EntryIs
    <3> QED BY <1>2, <1>3, <3>2
  <2> QED BY <1>1, <2>1 DEF LocNodes
<1>6. ProcNodes(scn, arr, map)
  <2> SUFFICES ASSUME NEW e \in DOMAIN map \cap Procs
               PROVE  /\ \E a \in 1 .. Len(arr) : \E j \in 1 .. Len(arr[a]) :
                           arr[a][j].name \in Procs /\ map[e].object = <<a, j>>
                      /\ \E n \in NLs : \E i \in 1 .. Len(scn[n]) : map[e].parent = <<n, i>>
    BY DEF ProcNodes
  <2>0. ProcAt(scn, arr, e, map[e])
    BY <1>1
  <2>1. PICK n \in NLs : \E i \in 1 .. Len(scn[n]) : \E j \in 1 .. scn[n][i].len :
              /\ scn[n][i].array \in 1 .. Len(arr) /\ j \in 1 .. Len(arr[scn[n][i].array])
              /\ arr[scn[n][i].array][j].name = e
              /\ map[e].object = <<scn[n][i].array, j>> /\ map[e].parent = <<n, i>>
    BY <2>0 DEF ProcAt
  <2>2. PICK i \in 1 .. Len(scn[n]) : \E j \in 1 .. scn[n][i].len :
              /\ scn[n][i].array \in 1 .. Len(arr) /\ j \in 1 .. Len(arr[scn[n][i].array])
              /\ arr[scn[n][i].array][j].name = e
              /\ map[e].object = <<scn[n][i].array, j>> /\ map[e].parent = <<n, i>>
    BY <2>1
  <2> QED BY <2>2
<1>7. Room(scn, map)
  <2> SUFFICES ASSUME NEW n \in NLs, NEW i \in 1 .. Len(scn[n])
               PROVE  \E f \in [Parented(map, <<n, i>>) -> 1 .. scn[n][i].len] :
                        \A x, y \in Parented(map, <<n, i>>) : f[x] = f[y] => x = y
    BY DEF Room
  <2> DEFINE P == Parented(map, <<n, i>>)
             f == [e \in P |-> map[e].object[2]]
  <2>1. ASSUME NEW e \in P
        PROVE  /\ map[e].object[2] \in 1 .. scn[n][i].len
               /\ arr[scn[n][i].array][map[e].object[2]].name = e
    <3>1. e \in DOMAIN map /\ e \in Procs /\ map[e].parent = <<n, i>>
      BY DEF Parented
    <3>0. ProcAt(scn, arr, e, map[e])
      BY <1>1, <3>1
    <3>2. PICK m \in NLs : \E k \in 1 .. Len(scn[m]) : \E j \in 1 .. scn[m][k].len :
              /\ arr[scn[m][k].array][j].name = e
              /\ map[e].object = <<scn[m][k].array, j>> /\ map[e].parent = <<m, k>>
      BY <3>0 DEF ProcAt
    <3>3. PICK k \in 1 .. Len(scn[m]) : \E j \in 1 .. scn[m][k].len :
              /\ arr[scn[m][k].array][j].name = e
              /\ map[e].object = <<scn[m][k].array, j>> /\ map[e].parent = <<m, k>>
      BY <3>2
    <3>4. PICK j \in 1 .. scn[m][k].len :
              /\ arr[scn[m][k].array][j].name = e
              /\ map[e].object = <<scn[m][k].array, j>> /\ map[e].parent = <<m, k>>
      BY <3>3
    <3>5. m = n /\ k = i
      BY <3>1, <3>4
    <3> QED BY <3>4, <3>5
  <2> HIDE DEF P
  <2>2. f \in [P -> 1 .. scn[n][i].len]
    BY <2>1
  <2>3. \A x, y \in P : f[x] = f[y] => x = y
    BY <2>1
  <2> HIDE DEF f
  <2> QED BY <2>2, <2>3 DEF P
<1> QED BY <1>4, <1>5, <1>6, <1>7 DEF Nodes, map
-----------------------------------------------------------------------------
(* Changes of the slices and of the view.                                  *)

\* What the overwrite and the truncation leave: the last entry in place of the one
\* removed, and the others.
LEMMA SwapRemoveIs ==
  ASSUME NEW S, NEW s \in Seq(S), NEW k \in 1 .. Len(s)
  PROVE  /\ SwapRemove(s, k) \in Seq(S) /\ Len(SwapRemove(s, k)) = Len(s) - 1
         /\ \A i \in 1 .. Len(s) - 1 : SwapRemove(s, k)[i] = IF i = k THEN s[Len(s)] ELSE s[i]
<1> DEFINE t == [s EXCEPT ![k] = s[Len(s)]]
<1>1. Len(s) \in Nat /\ Len(s) >= 1 /\ s[Len(s)] \in S
  BY ElementOfSeq
<1>2. /\ t \in Seq(S) /\ Len(t) = Len(s)
      /\ \A j \in 1 .. Len(s) : t[j] = IF j = k THEN s[Len(s)] ELSE s[j]
  BY <1>1, ExceptSeq
<1> HIDE DEF t
<1>3. \A i \in 1 .. Len(s) - 1 : t[i] \in S
  BY <1>1, <1>2, ElementOfSeq
<1>4. /\ SubSeq(t, 1, Len(s) - 1) \in Seq(S)
      /\ Len(SubSeq(t, 1, Len(s) - 1)) = IF 1 <= Len(s) - 1 THEN Len(s) - 1 - 1 + 1 ELSE 0
      /\ \A i \in 1 .. Len(s) - 1 - 1 + 1 : SubSeq(t, 1, Len(s) - 1)[i] = t[1 + i - 1]
  BY <1>1, <1>3, SubSeqProperties
<1>5. SwapRemove(s, k) = SubSeq(t, 1, Len(s) - 1)
  BY DEF SwapRemove, t
<1> HIDE DEF SwapRemove
<1> QED BY <1>1, <1>2, <1>4, <1>5

\* The loop stops at a match, if there is one.
LEMMA IndexIs ==
  ASSUME NEW M \in SUBSET Nat
  PROVE  M # {} => Index(M) \in M
<1> SUFFICES ASSUME M # {} PROVE Index(M) \in M
  OBVIOUS
<1>1. \E k \in M : \A j \in M : k <= j
  BY LeastNumber
<1> QED BY <1>1, Zenon DEF Index

\* No two locations have a name or an array in common.
LEMMA SameLocation ==
  ASSUME NEW scn, Apart(scn), NEW n \in NLs, NEW m \in NLs,
         NEW i \in 1 .. Len(scn[n]), NEW k \in 1 .. Len(scn[m]),
         \/ scn[n][i].name = scn[m][k].name
         \/ scn[n][i].array = scn[m][k].array /\ scn[n][i].array # 0
  PROVE  n = m /\ i = k
  BY DEF Apart

\* Where each location comes from: <<m, k>> of scn2 from <<n, i>> of scn, and
\* no two from one.
Origins(scn2, scn, R) ==
  /\ \A m \in NLs : \A k \in 1 .. Len(scn2[m]) :
       \E n \in NLs : \E i \in 1 .. Len(scn[n]) : <<m, k, n, i>> \in R /\ scn2[m][k] = scn[n][i]
  /\ \A q, r \in R : q[3] = r[3] /\ q[4] = r[4] => q[1] = r[1] /\ q[2] = r[2]

\* Locations that are put in other places are still right.
LEMMA Rearranged ==
  ASSUME NEW scn, NEW scn2 \in [NLs -> Seq(PhyLoc)], NEW arr, Memory(scn, arr), NEW R,
         Origins(scn2, scn, R)
  PROVE  Memory(scn2, arr)
<1>1. Slices(scn2, arr)
  <2> SUFFICES ASSUME NEW m \in NLs, NEW k \in 1 .. Len(scn2[m]) PROVE Fits(scn2[m][k], arr)
    BY DEF Slices
  <2>1. PICK n \in NLs : \E i \in 1 .. Len(scn[n]) : <<m, k, n, i>> \in R /\ scn2[m][k] = scn[n][i]
    BY Zenon DEF Origins
  <2>2. PICK i \in 1 .. Len(scn[n]) : scn2[m][k] = scn[n][i]
    BY <2>1
  <2> QED BY <2>2 DEF Memory, Slices
<1>2. Apart(scn2)
  <2>0. SUFFICES ASSUME NEW m \in NLs, NEW m2 \in NLs, NEW k \in 1 .. Len(scn2[m]), NEW k2 \in 1 .. Len(scn2[m2]),
                      \/ scn2[m][k].name = scn2[m2][k2].name
                      \/ scn2[m][k].array = scn2[m2][k2].array /\ scn2[m][k].array # 0
               PROVE  m = m2 /\ k = k2
    BY DEF Apart
  <2>1. PICK a \in NLs : \E c \in 1 .. Len(scn[a]) : <<m, k, a, c>> \in R /\ scn2[m][k] = scn[a][c]
    BY Zenon DEF Origins
  <2>2. PICK c \in 1 .. Len(scn[a]) : <<m, k, a, c>> \in R /\ scn2[m][k] = scn[a][c]
    BY <2>1
  <2>3. PICK b \in NLs : \E d \in 1 .. Len(scn[b]) : <<m2, k2, b, d>> \in R /\ scn2[m2][k2] = scn[b][d]
    BY Zenon DEF Origins
  <2>4. PICK d \in 1 .. Len(scn[b]) : <<m2, k2, b, d>> \in R /\ scn2[m2][k2] = scn[b][d]
    BY <2>3
  <2>5. Apart(scn)
    BY DEF Memory
  <2>6. a = b /\ c = d
    BY <2>0, <2>2, <2>4, <2>5, SameLocation
  <2> DEFINE q == <<m, k, a, c>>
             r == <<m2, k2, b, d>>
  <2>7. q \in R /\ r \in R /\ q[3] = r[3] /\ q[4] = r[4]
    BY <2>2, <2>4, <2>6
  <2>8. q[1] = r[1] /\ q[2] = r[2]
    <3> HIDE DEF q, r
    <3> QED BY <2>7 DEF Origins
  <2> QED BY <2>8
<1> QED BY <1>1, <1>2 DEF Memory

\* Two views are equal when they say the same of every element.
LEMMA ViewSame ==
  ASSUME NEW d \in DocType, NEW d2 \in DocType,
         \A x \in Elems : View(d2).at[x] = View(d).at[x] /\ View(d2).netChar[x] = View(d).netChar[x]
  PROVE  View(d2) = View(d)
<1>1. View(d) \in Tree!Document /\ View(d2) \in Tree!Document
  BY ViewType
<1> QED BY <1>1 DEF Tree!Document

\* One element has changed.
OthersAlike(d, d2, e) ==
  \A x \in Elems : x # e => View(d2).at[x] = View(d).at[x] /\ View(d2).netChar[x] = View(d).netChar[x]

\* A view that differs in one element is an answer of ScenarioTree: to a move, new
\* characteristics, an addition, a removal.
LEMMA ViewChanged ==
  ASSUME NEW d \in DocType, NEW d2 \in DocType, NEW e \in Elems, OthersAlike(d, d2, e),
         NEW p, NEW v, View(d2).at[e] = p, View(d2).netChar[e] = v
  PROVE  /\ View(d).at[e] # NoPlace /\ View(d).netChar[e] = v =>
              Tree!Move(View(d), View(d2), e, p)
         /\ View(d).at[e] # NoPlace /\ View(d).at[e] = p =>
              Tree!Tune(View(d), View(d2), e, v)
         /\ View(d).at[e] = NoPlace =>
              Tree!Add(View(d), View(d2), e, p, v)
         /\ View(d).at[e] # NoPlace /\ p = NoPlace /\ (\A x \in Elems : View(d).at[x] # e) =>
              Tree!Remove(View(d), View(d2), e, v)
<1>1. View(d) \in Tree!Document /\ View(d2) \in Tree!Document
  BY ViewType
<1> DEFINE old == View(d)
           new == View(d2)
<1>2. \A x \in Elems : x # e => new.at[x] = old.at[x] /\ new.netChar[x] = old.netChar[x]
  BY DEF OthersAlike
<1> HIDE DEF old, new
<1>3. /\ old = [at |-> old.at, netChar |-> old.netChar] /\ new = [at |-> new.at, netChar |-> new.netChar]
      /\ old.at = [x \in Elems |-> old.at[x]] /\ new.at = [x \in Elems |-> new.at[x]]
      /\ old.netChar = [x \in Elems |-> old.netChar[x]] /\ new.netChar = [x \in Elems |-> new.netChar[x]]
  BY <1>1 DEF Tree!Document, old, new
<1>4. new.at = [old.at EXCEPT ![e] = new.at[e]] /\ new.netChar = [old.netChar EXCEPT ![e] = new.netChar[e]]
  BY <1>2, <1>3
<1>5. /\ new.netChar[e] = old.netChar[e] => new.netChar = old.netChar
      /\ new.at[e] = old.at[e] => new.at = old.at
  BY <1>2, <1>3
<1>6. new = [old EXCEPT !.at[e] = new.at[e], !.netChar[e] = new.netChar[e]]
  BY <1>3, <1>4
<1>7. ASSUME new.netChar[e] = old.netChar[e] PROVE new = [old EXCEPT !.at[e] = new.at[e]]
  BY <1>3, <1>4, <1>5, <1>7
<1>8. ASSUME new.at[e] = old.at[e] PROVE new = [old EXCEPT !.netChar[e] = new.netChar[e]]
  BY <1>3, <1>4, <1>5, <1>8
<1>9. new.at[e] = p /\ new.netChar[e] = v
  BY DEF new
<1>10. old.at[e] # NoPlace /\ old.netChar[e] = v => Tree!Move(old, new, e, p)
  BY <1>7, <1>9, Zenon DEF Tree!Move
<1>11. old.at[e] # NoPlace /\ old.at[e] = p => Tree!Tune(old, new, e, v)
  BY <1>8, <1>9, Zenon DEF Tree!Tune
<1>12. old.at[e] = NoPlace => Tree!Add(old, new, e, p, v)
  BY <1>6, <1>9, Zenon DEF Tree!Add
<1>13. old.at[e] # NoPlace /\ p = NoPlace /\ (\A x \in Elems : old.at[x] # e) => Tree!Remove(old, new, e, v)
  BY <1>6, <1>9, Zenon DEF Tree!Remove
<1> QED BY <1>10, <1>11, <1>12, <1>13 DEF old, new

\* A swap-remove takes out one entry and keeps the others.
LEMMA SwapRemoveKeeps ==
  ASSUME NEW S, NEW s \in Seq(S), NEW k \in 1 .. Len(s)
  PROVE  /\ \A i \in 1 .. Len(s) : i # k => \E j \in 1 .. Len(s) - 1 : SwapRemove(s, k)[j] = s[i]
         /\ \A j \in 1 .. Len(s) - 1 : \E i \in 1 .. Len(s) : i # k /\ SwapRemove(s, k)[j] = s[i]
<1> DEFINE t == SwapRemove(s, k)
           L == Len(s)
<1>1. L \in Nat /\ L >= 1 /\ \A i \in 1 .. L - 1 : t[i] = IF i = k THEN s[L] ELSE s[i]
  BY SwapRemoveIs
<1> HIDE DEF t, L
<1>2. ASSUME NEW i \in 1 .. L, i # k
      PROVE  \E j \in 1 .. L - 1 : t[j] = s[i]
  <2>1. CASE i = L
    <3>1. k \in 1 .. L - 1
      BY <1>1, <1>2, <2>1 DEF L
    <3> QED BY <1>1, <2>1, <3>1
  <2>2. CASE i # L
    <3>1. i \in 1 .. L - 1
      BY <1>1, <2>2
    <3> QED BY <1>1, <1>2, <3>1
  <2> QED BY <2>1, <2>2
<1>3. ASSUME NEW j \in 1 .. L - 1
      PROVE  \E i \in 1 .. L : i # k /\ t[j] = s[i]
  <2>1. j \in 1 .. L /\ L \in 1 .. L /\ j # L
    BY <1>1
  <2>2. CASE j = k
    BY <1>1, <2>1, <2>2
  <2>3. CASE j # k
    BY <1>1, <2>1, <2>3
  <2> QED BY <2>2, <2>3
<1> QED BY <1>2, <1>3 DEF t, L

\* A location moves from one network location to another, leaves, enters.
Moves(scn, scn2, old, dest, i) ==
  scn2 = [[scn EXCEPT ![dest] = Append(@, scn[old][i])] EXCEPT ![old] = SwapRemove(@, i)]

Leaves(scn, scn2, old, i) == scn2 = [scn EXCEPT ![old] = SwapRemove(@, i)]

Enters(scn, scn2, nl, x) == scn2 = [scn EXCEPT ![nl] = Append(@, x)]

\* Locations of one scenario that another has at the same network location,
\* and at any.
Still(scn, scn2, old, i0) ==
  \A n \in NLs : \A i \in 1 .. Len(scn[n]) : ~(n = old /\ i = i0) =>
    \E k \in 1 .. Len(scn2[n]) : scn2[n][k] = scn[n][i]

Known(scn2, scn) ==
  \A m \in NLs : \A k \in 1 .. Len(scn2[m]) :
    \E n \in NLs : \E i \in 1 .. Len(scn[n]) : scn2[m][k] = scn[n][i]

\* Every location but one is at its network location in the other scenario.
StillBut(scn, scn2, e) ==
  \A n \in NLs : \A i \in 1 .. Len(scn[n]) : scn[n][i].name # e =>
    \E k \in 1 .. Len(scn2[n]) : scn2[n][k] = scn[n][i]

\* There is no location of this name, and this location is at a network location.
Without(scn, e) == \A n \in NLs : \A i \in 1 .. Len(scn[n]) : scn[n][i].name # e

At(scn, n, x) == \E k \in 1 .. Len(scn[n]) : scn[n][k] = x

\* Append and swap-remove keep memory right, and lose and make up no location.
LEMMA LocationMoves ==
  ASSUME NEW scn, NEW scn2, NEW arr, Memory(scn, arr), NEW old \in NLs, NEW dest \in NLs, old # dest,
         NEW i0 \in 1 .. Len(scn[old]),
         Moves(scn, scn2, old, dest, i0)
  PROVE  /\ Memory(scn2, arr) /\ At(scn2, dest, scn[old][i0])
         /\ Still(scn, scn2, old, i0) /\ Known(scn2, scn)
<1> DEFINE D == Len(scn[dest])
           L == Len(scn[old])
           x == scn[old][i0]
<1>1. scn \in [NLs -> Seq(PhyLoc)]
  BY DEF Memory
<1>2. scn[dest] \in Seq(PhyLoc) /\ scn[old] \in Seq(PhyLoc) /\ D \in Nat /\ L \in Nat /\ L >= 1
  BY <1>1
<1>3. x \in PhyLoc
  BY <1>2, ElementOfSeq
<1>4. /\ scn2[dest] = Append(scn[dest], x) /\ scn2[old] = SwapRemove(scn[old], i0)
      /\ \A n \in NLs \ {dest, old} : scn2[n] = scn[n]
      /\ DOMAIN scn2 = NLs /\ scn2 = [n \in NLs |-> scn2[n]]
  BY <1>1 DEF Moves
<1>5. /\ scn2[dest] \in Seq(PhyLoc) /\ Len(scn2[dest]) = D + 1
      /\ \A i \in 1 .. D : scn2[dest][i] = scn[dest][i]
      /\ scn2[dest][D + 1] = x
  <2> DEFINE t == Append(scn[dest], x)
  <2>1. /\ t \in Seq(PhyLoc) /\ Len(t) = D + 1
        /\ \A i \in 1 .. D : t[i] = scn[dest][i]
        /\ t[D + 1] = x
    BY <1>2, <1>3, AppendProperties
  <2> HIDE DEF x, t
  <2> QED BY <1>4, <2>1 DEF t
<1>6. /\ scn2[old] \in Seq(PhyLoc) /\ Len(scn2[old]) = L - 1
      /\ \A i \in 1 .. L - 1 : scn2[old][i] = IF i = i0 THEN scn[old][L] ELSE scn[old][i]
  BY <1>2, <1>4, SwapRemoveIs
<1>7. /\ \A i \in 1 .. L : i # i0 => \E j \in 1 .. L - 1 : scn2[old][j] = scn[old][i]
      /\ \A j \in 1 .. L - 1 : \E i \in 1 .. L : i # i0 /\ scn2[old][j] = scn[old][i]
  <2>1. /\ \A i \in 1 .. L : i # i0 => \E j \in 1 .. L - 1 : SwapRemove(scn[old], i0)[j] = scn[old][i]
        /\ \A j \in 1 .. L - 1 : \E i \in 1 .. L : i # i0 /\ SwapRemove(scn[old], i0)[j] = scn[old][i]
    BY <1>2, SwapRemoveKeeps
  <2> QED BY <1>4, <2>1
<1>8. scn2 \in [NLs -> Seq(PhyLoc)]
  <2>1. \A n \in NLs : scn2[n] \in Seq(PhyLoc)
    BY <1>1, <1>4, <1>5, <1>6
  <2> QED BY <1>4, <2>1
<1>9. Memory(scn2, arr)
  <2> DEFINE From(m, k, n, i) == \/ m = dest /\ k = D + 1 /\ n = old /\ i = i0
                                 \/ m = old /\ k = i0 /\ n = old /\ i = L /\ i0 # L
                                 \/ m = n /\ k = i /\ ~(n = old /\ (i = i0 \/ i = L))
             R == {q \in NLs \X Nat \X NLs \X Nat : From(q[1], q[2], q[3], q[4])}
  <2>1. ASSUME NEW m \in NLs, NEW k \in 1 .. Len(scn2[m])
        PROVE  \E n \in NLs : \E i \in 1 .. Len(scn[n]) : From(m, k, n, i) /\ scn2[m][k] = scn[n][i]
    <3>1. CASE m = dest /\ k = D + 1
      BY <1>5, <3>1
    <3>2. CASE m = dest /\ k # D + 1
      <4>1. k \in 1 .. D
        BY <1>2, <1>5, <3>2
      <4> QED BY <1>5, <3>2, <4>1
    <3>3. CASE m = old
      <4>1. k \in 1 .. L - 1
        BY <1>6, <3>3
      <4>2. k \in 1 .. L /\ L \in 1 .. L /\ k # L
        BY <1>2, <4>1
      <4> QED BY <1>6, <3>3, <4>1, <4>2
    <3>4. CASE m # dest /\ m # old
      BY <1>4, <3>4
    <3> QED BY <3>1, <3>2, <3>3, <3>4
  <2>2. ASSUME NEW m \in NLs, NEW k \in 1 .. Len(scn2[m]), NEW n \in NLs, NEW i \in 1 .. Len(scn[n])
        PROVE  <<m, k, n, i>> \in R <=> From(m, k, n, i)
    <3>1. k \in Nat /\ i \in Nat
      BY <1>1, <1>8
    <3> HIDE DEF From
    <3> QED BY <3>1
  <2>3. \A q, r \in R : q[3] = r[3] /\ q[4] = r[4] => q[1] = r[1] /\ q[2] = r[2]
    OBVIOUS
  <2> HIDE DEF R, From
  <2>4. Origins(scn2, scn, R)
    <3>1. ASSUME NEW m \in NLs, NEW k \in 1 .. Len(scn2[m])
          PROVE  \E n \in NLs : \E i \in 1 .. Len(scn[n]) : <<m, k, n, i>> \in R /\ scn2[m][k] = scn[n][i]
      <4>1. PICK n \in NLs : \E i \in 1 .. Len(scn[n]) : From(m, k, n, i) /\ scn2[m][k] = scn[n][i]
        BY <2>1
      <4>2. PICK i \in 1 .. Len(scn[n]) : From(m, k, n, i) /\ scn2[m][k] = scn[n][i]
        BY <4>1
      <4> QED BY <2>2, <4>2
    <3> QED BY <2>3, <3>1, Zenon DEF Origins
  <2> QED BY <1>8, <2>4, Rearranged
<1>10. ASSUME NEW n \in NLs, NEW i \in 1 .. Len(scn[n]), ~(n = old /\ i = i0)
       PROVE  \E k \in 1 .. Len(scn2[n]) : scn2[n][k] = scn[n][i]
  <2>1. CASE n = old
    <3>1. i \in 1 .. L /\ i # i0
      BY <1>10, <2>1
    <3>2. PICK j \in 1 .. L - 1 : scn2[old][j] = scn[old][i]
      BY <1>7, <3>1
    <3> QED BY <1>6, <2>1, <3>2
  <2>2. CASE n = dest
    <3>1. i \in 1 .. D /\ i \in 1 .. D + 1
      BY <1>2, <2>2
    <3>2. scn2[dest][i] = scn[dest][i]
      BY <1>5, <3>1
    <3> QED BY <1>5, <2>2, <3>1, <3>2
  <2>3. CASE n # old /\ n # dest
    BY <1>4, <2>3
  <2> QED BY <2>1, <2>2, <2>3
<1>11. ASSUME NEW m \in NLs, NEW k \in 1 .. Len(scn2[m])
       PROVE  \E n \in NLs : \E i \in 1 .. Len(scn[n]) : scn2[m][k] = scn[n][i]
  <2>1. CASE m = old
    <3>1. k \in 1 .. L - 1
      BY <1>6, <2>1
    <3>2. PICK i \in 1 .. L : scn2[old][k] = scn[old][i]
      BY <1>7, <3>1
    <3> QED BY <2>1, <3>2
  <2>2. CASE m = dest
    <3>1. k \in 1 .. D \/ k = D + 1
      BY <1>2, <1>5, <2>2
    <3> QED BY <1>5, <2>2, <3>1
  <2>3. CASE m # old /\ m # dest
    BY <1>4, <2>3
  <2> QED BY <2>1, <2>2, <2>3
<1>12. \E k \in 1 .. Len(scn2[dest]) : scn2[dest][k] = x
  <2>1. D + 1 \in 1 .. D + 1
    BY <1>2
  <2> QED BY <1>5, <2>1
<1>13. Still(scn, scn2, old, i0)
  BY <1>10 DEF Still
<1>14. Known(scn2, scn)
  BY <1>11 DEF Known
<1>15. At(scn2, dest, x)
  BY <1>12 DEF At
<1> QED BY <1>9, <1>13, <1>14, <1>15
-----------------------------------------------------------------------------
(* Invariants.                                                             *)

\* No fog or edge node is moved.  The loop of MoveNode that looks for the entry to
\* remove compares only UEs; for others it stops at the first entry, whichever
\* that is.
NoFogMoves == Named \cap Fogs = {}

\* The invariant: memory and nodes are right, the document is published.
Inv == /\ Memory(scenario, arrays) /\ Nodes(scenario, arrays, nodeMap)
       /\ published = Document(scenario, arrays)

\* The removal loop finds the location.
LEMMA Matches ==
  ASSUME NEW scn, NEW arr, Memory(scn, arr), NEW n \in NLs, NEW i \in 1 .. Len(scn[n])
  PROVE  Index({k \in DOMAIN scn[n] : scn[n][k].name = scn[n][i].name}) = i
<1> DEFINE M == {k \in DOMAIN scn[n] : scn[n][k].name = scn[n][i].name}
<1>1. DOMAIN scn[n] = 1 .. Len(scn[n]) /\ Len(scn[n]) \in Nat
  BY DEF Memory
<1>2. M = {i}
  <2>1. i \in M
    BY <1>1
  <2>2. \A k \in M : k = i
    BY <1>1 DEF Memory, Apart
  <2> HIDE DEF M
  <2> QED BY <2>1, <2>2
<1>3. M \in SUBSET Nat /\ M # {}
  BY <1>1, <1>2
<1> HIDE DEF M
<1>4. Index(M) \in M
  BY <1>3, IndexIs
<1> QED BY <1>2, <1>4 DEF M

\* The node of a location leads to it.
LEMMA NodeOfLocation ==
  ASSUME NEW scn, NEW arr, NEW map, Nodes(scn, arr, map), NEW p \in DOMAIN map \cap PLs
  PROVE  \E n \in NLs : \E i \in 1 .. Len(scn[n]) :
           scn[n][i].name = p /\ map[p].object = <<n, i>> /\ map[p].parent = n
<1>1. LocAt(scn, p, map[p])
  BY DEF Nodes, LocNodes
<1> QED BY <1>1 DEF LocAt

\* MovePL moves a location.
LEMMA MovePLIs ==
  ASSUME Inv, NamesApart, NoFogMoves, NEW e, NEW dest, MovePL(e, dest)
  PROVE  \E old \in NLs : \E i \in 1 .. Len(scenario[old]) :
           /\ old # dest /\ dest \in NLs /\ scenario[old][i].name = e /\ e \in PLs
           /\ Moves(scenario, scenario', old, dest, i)
           /\ arrays' = arrays /\ nodeMap' = ParseNodes(scenario', arrays')
           /\ published' = Document(scenario', arrays')
<1>1. e \in DOMAIN nodeMap \cap PLs /\ e \in UEs /\ dest \in NLs
  BY DEF MovePL, NoFogMoves, PLs
<1>2. PICK old \in NLs : \E i \in 1 .. Len(scenario[old]) :
         scenario[old][i].name = e /\ nodeMap[e].object = <<old, i>> /\ nodeMap[e].parent = old
  BY <1>1, NodeOfLocation DEF Inv
<1>3. PICK i \in 1 .. Len(scenario[old]) :
         scenario[old][i].name = e /\ nodeMap[e].object = <<old, i>> /\ nodeMap[e].parent = old
  BY <1>2
<1>4. Deref(nodeMap[e].object) = scenario[old][i]
  BY <1>3 DEF Deref
<1> DEFINE grown == [scenario EXCEPT ![dest] = Append(@, scenario[old][i])]
           matches == {k \in DOMAIN grown[old] : grown[old][k].name \in UEs /\ grown[old][k].name = e}
<1>5. /\ old # dest /\ scenario' = [grown EXCEPT ![old] = SwapRemove(@, Index(matches))]
      /\ arrays' = arrays /\ nodeMap' = ParseNodes(scenario', arrays')
      /\ published' = Document(scenario', arrays')
  BY <1>3, <1>4 DEF MovePL, ReparseAll, Refresh
<1>6. grown[old] = scenario[old]
  BY <1>5 DEF Inv, Memory
<1>7. matches = {k \in DOMAIN scenario[old] : scenario[old][k].name = scenario[old][i].name}
  BY <1>1, <1>3, <1>6
<1>8. Index(matches) = i
  <2> HIDE DEF matches
  <2> QED BY <1>7, Matches DEF Inv
<1> HIDE DEF matches
<1> QED BY <1>1, <1>3, <1>5, <1>8 DEF Moves

\* Memory that is right and nodes that were just parsed: the invariant.
LEMMA Reparsed ==
  ASSUME NamesApart, Memory(scenario', arrays'), nodeMap' = ParseNodes(scenario', arrays'),
         published' = Document(scenario', arrays')
  PROVE  Inv'
<1>1. Nodes(scenario', arrays', nodeMap')
  BY ParsedNodes
<1> QED BY <1>1 DEF Inv

\* A location leaves.
LEMMA LocationLeaves ==
  ASSUME NEW scn, NEW scn2, NEW arr, Memory(scn, arr), NEW old \in NLs, NEW i0 \in 1 .. Len(scn[old]),
         Leaves(scn, scn2, old, i0)
  PROVE  /\ Memory(scn2, arr) /\ Without(scn2, scn[old][i0].name)
         /\ StillBut(scn, scn2, scn[old][i0].name) /\ StillBut(scn2, scn, scn[old][i0].name)
<1> DEFINE L == Len(scn[old])
<1>1. scn \in [NLs -> Seq(PhyLoc)]
  BY DEF Memory
<1>2. scn[old] \in Seq(PhyLoc) /\ L \in Nat /\ L >= 1
  BY <1>1
<1>3. /\ scn2[old] = SwapRemove(scn[old], i0)
      /\ \A n \in NLs \ {old} : scn2[n] = scn[n]
      /\ DOMAIN scn2 = NLs /\ scn2 = [n \in NLs |-> scn2[n]]
  BY <1>1 DEF Leaves
<1>4. /\ scn2[old] \in Seq(PhyLoc) /\ Len(scn2[old]) = L - 1
      /\ \A i \in 1 .. L - 1 : scn2[old][i] = IF i = i0 THEN scn[old][L] ELSE scn[old][i]
  BY <1>2, <1>3, SwapRemoveIs
<1>5. /\ \A i \in 1 .. L : i # i0 => \E j \in 1 .. L - 1 : scn2[old][j] = scn[old][i]
      /\ \A j \in 1 .. L - 1 : \E i \in 1 .. L : i # i0 /\ scn2[old][j] = scn[old][i]
  <2>1. /\ \A i \in 1 .. L : i # i0 => \E j \in 1 .. L - 1 : SwapRemove(scn[old], i0)[j] = scn[old][i]
        /\ \A j \in 1 .. L - 1 : \E i \in 1 .. L : i # i0 /\ SwapRemove(scn[old], i0)[j] = scn[old][i]
    BY <1>2, SwapRemoveKeeps
  <2> QED BY <1>3, <2>1
<1>6. scn2 \in [NLs -> Seq(PhyLoc)]
  <2>1. \A n \in NLs : scn2[n] \in Seq(PhyLoc)
    BY <1>1, <1>3, <1>4
  <2> QED BY <1>3, <2>1
<1>7. Memory(scn2, arr)
  <2> DEFINE From(m, k, n, i) == \/ m = old /\ k = i0 /\ n = old /\ i = L /\ i0 # L
                                 \/ m = n /\ k = i /\ ~(n = old /\ (i = i0 \/ i = L))
             R == {q \in NLs \X Nat \X NLs \X Nat : From(q[1], q[2], q[3], q[4])}
  <2>1. ASSUME NEW m \in NLs, NEW k \in 1 .. Len(scn2[m])
        PROVE  \E n \in NLs : \E i \in 1 .. Len(scn[n]) : From(m, k, n, i) /\ scn2[m][k] = scn[n][i]
    <3>1. CASE m = old
      <4>1. k \in 1 .. L - 1
        BY <1>4, <3>1
      <4>2. k \in 1 .. L /\ L \in 1 .. L /\ k # L
        BY <1>2, <4>1
      <4> QED BY <1>4, <3>1, <4>1, <4>2
    <3>2. CASE m # old
      BY <1>3, <3>2
    <3> QED BY <3>1, <3>2
  <2>2. ASSUME NEW m \in NLs, NEW k \in 1 .. Len(scn2[m]), NEW n \in NLs, NEW i \in 1 .. Len(scn[n])
        PROVE  <<m, k, n, i>> \in R <=> From(m, k, n, i)
    <3>1. k \in Nat /\ i \in Nat
      BY <1>1, <1>6
    <3> HIDE DEF From
    <3> QED BY <3>1
  <2>3. \A q, r \in R : q[3] = r[3] /\ q[4] = r[4] => q[1] = r[1] /\ q[2] = r[2]
    OBVIOUS
  <2> HIDE DEF R, From
  <2>4. Origins(scn2, scn, R)
    <3>1. ASSUME NEW m \in NLs, NEW k \in 1 .. Len(scn2[m])
          PROVE  \E n \in NLs : \E i \in 1 .. Len(scn[n]) : <<m, k, n, i>> \in R /\ scn2[m][k] = scn[n][i]
      <4>1. PICK n \in NLs : \E i \in 1 .. Len(scn[n]) : From(m, k, n, i) /\ scn2[m][k] = scn[n][i]
        BY <2>1
      <4>2. PICK i \in 1 .. Len(scn[n]) : From(m, k, n, i) /\ scn2[m][k] = scn[n][i]
        BY <4>1
      <4> QED BY <2>2, <4>2
    <3> QED BY <2>3, <3>1, Zenon DEF Origins
  <2> QED BY <1>6, <2>4, Rearranged
<1>8. ASSUME NEW n \in NLs, NEW i \in 1 .. Len(scn[n]), ~(n = old /\ i = i0)
      PROVE  \E k \in 1 .. Len(scn2[n]) : scn2[n][k] = scn[n][i]
  <2>1. CASE n = old
    <3>1. i \in 1 .. L /\ i # i0
      BY <1>8, <2>1
    <3>2. PICK j \in 1 .. L - 1 : scn2[old][j] = scn[old][i]
      BY <1>5, <3>1
    <3> QED BY <1>4, <2>1, <3>2
  <2>2. CASE n # old
    BY <1>3, <2>2
  <2> QED BY <2>1, <2>2
<1>9. ASSUME NEW n \in NLs, NEW k \in 1 .. Len(scn2[n])
      PROVE  \E i \in 1 .. Len(scn[n]) : ~(n = old /\ i = i0) /\ scn2[n][k] = scn[n][i]
  <2>1. CASE n = old
    <3>1. k \in 1 .. L - 1
      BY <1>4, <2>1
    <3>2. PICK i \in 1 .. L : i # i0 /\ scn2[old][k] = scn[old][i]
      BY <1>5, <3>1
    <3> QED BY <2>1, <3>2
  <2>2. CASE n # old
    BY <1>3, <2>2
  <2> QED BY <2>1, <2>2
<1>10. Without(scn2, scn[old][i0].name)
  <2> SUFFICES ASSUME NEW n \in NLs, NEW k \in 1 .. Len(scn2[n]) PROVE scn2[n][k].name # scn[old][i0].name
    BY DEF Without
  <2>1. PICK i \in 1 .. Len(scn[n]) : ~(n = old /\ i = i0) /\ scn2[n][k] = scn[n][i]
    BY <1>9
  <2>2. scn[n][i].name # scn[old][i0].name
    BY <2>1, SameLocation DEF Memory
  <2> QED BY <2>1, <2>2
<1>11. StillBut(scn, scn2, scn[old][i0].name)
  BY <1>8, Zenon DEF StillBut
<1>12. StillBut(scn2, scn, scn[old][i0].name)
  BY <1>9, Zenon DEF StillBut
<1> QED BY <1>7, <1>10, <1>11, <1>12

\* A location without processes enters.
LEMMA LocationEnters ==
  ASSUME NEW scn, NEW scn2, NEW arr, Memory(scn, arr), NEW nl \in NLs, NEW x \in PhyLoc,
         x.array = 0, x.len = 0, Without(scn, x.name), Enters(scn, scn2, nl, x)
  PROVE  /\ Memory(scn2, arr) /\ At(scn2, nl, x)
         /\ StillBut(scn, scn2, x.name) /\ StillBut(scn2, scn, x.name)
<1> DEFINE L == Len(scn[nl])
<1>1. scn \in [NLs -> Seq(PhyLoc)]
  BY DEF Memory
<1>2. scn[nl] \in Seq(PhyLoc) /\ L \in Nat
  BY <1>1
<1>3. /\ scn2[nl] = Append(scn[nl], x)
      /\ \A n \in NLs \ {nl} : scn2[n] = scn[n]
      /\ DOMAIN scn2 = NLs /\ scn2 = [n \in NLs |-> scn2[n]]
  BY <1>1 DEF Enters
<1>4. /\ scn2[nl] \in Seq(PhyLoc) /\ Len(scn2[nl]) = L + 1
      /\ \A i \in 1 .. L : scn2[nl][i] = scn[nl][i]
      /\ scn2[nl][L + 1] = x
  <2> DEFINE t == Append(scn[nl], x)
  <2>1. /\ t \in Seq(PhyLoc) /\ Len(t) = L + 1
        /\ \A i \in 1 .. L : t[i] = scn[nl][i]
        /\ t[L + 1] = x
    BY <1>2, AppendProperties
  <2> HIDE DEF t
  <2> QED BY <1>3, <2>1 DEF t
<1>5. scn2 \in [NLs -> Seq(PhyLoc)]
  <2>1. \A n \in NLs : scn2[n] \in Seq(PhyLoc)
    BY <1>1, <1>3, <1>4
  <2> QED BY <1>3, <2>1
<1>6. ASSUME NEW n \in NLs, NEW k \in 1 .. Len(scn2[n])
      PROVE  \/ n = nl /\ k = L + 1 /\ scn2[n][k] = x
             \/ k \in 1 .. Len(scn[n]) /\ scn2[n][k] = scn[n][k]
  <2>1. CASE n = nl
    <3>1. k \in 1 .. L \/ k = L + 1
      BY <1>2, <1>4, <2>1
    <3> QED BY <1>4, <2>1, <3>1
  <2>2. CASE n # nl
    BY <1>3, <2>2
  <2> QED BY <2>1, <2>2
<1>7. Slices(scn2, arr)
  <2>1. Fits(x, arr)
    <3>1. Len(arr) \in Nat /\ 1 .. x.len = {}
      BY DEF Memory
    <3> QED BY <3>1 DEF Fits
  <2> QED BY <1>6, <2>1 DEF Memory, Slices
<1>8. Apart(scn2)
  <2>0. SUFFICES ASSUME NEW n \in NLs, NEW m \in NLs, NEW i \in 1 .. Len(scn2[n]), NEW k \in 1 .. Len(scn2[m]),
                      \/ scn2[n][i].name = scn2[m][k].name
                      \/ scn2[n][i].array = scn2[m][k].array /\ scn2[n][i].array # 0
               PROVE  n = m /\ i = k
    BY DEF Apart
  <2>1. \/ n = nl /\ i = L + 1 /\ scn2[n][i] = x
        \/ i \in 1 .. Len(scn[n]) /\ scn2[n][i] = scn[n][i]
    BY <1>6
  <2>2. \/ m = nl /\ k = L + 1 /\ scn2[m][k] = x
        \/ k \in 1 .. Len(scn[m]) /\ scn2[m][k] = scn[m][k]
    BY <1>6
  <2>3. CASE i \in 1 .. Len(scn[n]) /\ scn2[n][i] = scn[n][i] /\ k \in 1 .. Len(scn[m]) /\ scn2[m][k] = scn[m][k]
    BY <2>0, <2>3, SameLocation DEF Memory
  <2> QED BY <2>0, <2>1, <2>2, <2>3 DEF Without
<1>9. Memory(scn2, arr)
  BY <1>5, <1>7, <1>8 DEF Memory
<1>10. ASSUME NEW n \in NLs, NEW i \in 1 .. Len(scn[n])
       PROVE  \E k \in 1 .. Len(scn2[n]) : scn2[n][k] = scn[n][i]
  <2>1. CASE n = nl
    <3>1. i \in 1 .. L + 1 /\ i \in 1 .. L
      BY <1>2, <2>1
    <3> QED BY <1>4, <2>1, <3>1
  <2>2. CASE n # nl
    BY <1>3, <2>2
  <2> QED BY <2>1, <2>2
<1>11. \E k \in 1 .. Len(scn2[nl]) : scn2[nl][k] = x
  <2>1. L + 1 \in 1 .. L + 1
    BY <1>2
  <2> QED BY <1>4, <2>1
<1>12. StillBut(scn, scn2, x.name)
  BY <1>10, Zenon DEF StillBut
<1>13. StillBut(scn2, scn, x.name)
  <2> SUFFICES ASSUME NEW n \in NLs, NEW k \in 1 .. Len(scn2[n]), scn2[n][k].name # x.name
               PROVE  \E i \in 1 .. Len(scn[n]) : scn[n][i] = scn2[n][k]
    BY DEF StillBut
  <2>1. k \in 1 .. Len(scn[n]) /\ scn2[n][k] = scn[n][k]
    BY <1>6
  <2> QED BY <2>1
<1> QED BY <1>9, <1>11, <1>12, <1>13 DEF At

\* What happens to the locations of two documents that have the same
\* processes: they are kept, but for one.
Keeps(d, d2, e) ==
  \A n \in NLs : \A i \in 1 .. Len(d[n]) : d[n][i].name # e =>
    \E k \in 1 .. Len(d2[n]) : d2[n][k].name = d[n][i].name /\ d2[n][k].netChar = d[n][i].netChar

\* The view has the locations that are kept where they were.
LEMMA KeepsView ==
  ASSUME NEW d \in DocType, NEW d2 \in DocType, Distinct(d), Distinct(d2), NamesApart,
         NEW e, Keeps(d, d2, e), Keeps(d2, d, e), NEW x \in PLs, x # e
  PROVE  View(d2).at[x] = View(d).at[x] /\ View(d2).netChar[x] = View(d).netChar[x]
<1>1. CASE \E n \in NLs : \E i \in 1 .. Len(d[n]) : d[n][i].name = x
  <2>1. PICK n \in NLs : \E i \in 1 .. Len(d[n]) : d[n][i].name = x
    BY <1>1
  <2>2. PICK i \in 1 .. Len(d[n]) : d[n][i].name = x
    BY <2>1
  <2>3. PICK k \in 1 .. Len(d2[n]) : d2[n][k].name = d[n][i].name /\ d2[n][k].netChar = d[n][i].netChar
    BY <2>2 DEF Keeps
  <2>4. View(d).at[d[n][i].name] = n /\ View(d).netChar[d[n][i].name] = d[n][i].netChar
    BY LocationView
  <2>5. View(d2).at[d2[n][k].name] = n /\ View(d2).netChar[d2[n][k].name] = d2[n][k].netChar
    BY LocationView
  <2> QED BY <2>2, <2>3, <2>4, <2>5
<1>2. CASE \A n \in NLs : \A i \in 1 .. Len(d[n]) : d[n][i].name # x
  <2>1. \A n \in NLs : \A k \in 1 .. Len(d2[n]) : d2[n][k].name # x
    BY <1>2 DEF Keeps
  <2> QED BY <1>2, <2>1, NoLocation
<1> QED BY <1>1, <1>2

\* The view has a process where it was if its location is carried along.
LEMMA CarriesView ==
  ASSUME NEW d \in DocType, NEW d2 \in DocType, Distinct(d), Distinct(d2), NamesApart,
         Carries(d, d2), Carries(d2, d), NEW x \in Procs
  PROVE  View(d2).at[x] = View(d).at[x] /\ View(d2).netChar[x] = View(d).netChar[x]
<1>1. Rows(d, x) = Rows(d2, x)
  BY Carried
<1> QED BY <1>1, SameRows

\* The same locations show the same, where the arrays are the same.
LEMMA KeptLocations ==
  ASSUME NEW scn, NEW scn2, NEW arr, Memory(scn, arr), Memory(scn2, arr), NEW e, StillBut(scn, scn2, e)
  PROVE  Keeps(Document(scn, arr), Document(scn2, arr), e)
<1> DEFINE d == Document(scn, arr)
           d2 == Document(scn2, arr)
<1>1. \A n \in NLs : /\ Len(d[n]) = Len(scn[n])
                     /\ \A i \in 1 .. Len(scn[n]) : d[n][i] = Showing(scn[n][i], arr)
  BY DocumentShows
<1>2. \A n \in NLs : /\ Len(d2[n]) = Len(scn2[n])
                     /\ \A i \in 1 .. Len(scn2[n]) : d2[n][i] = Showing(scn2[n][i], arr)
  BY DocumentShows
<1> HIDE DEF d, d2
<1> SUFFICES ASSUME NEW n \in NLs, NEW i \in 1 .. Len(d[n]), d[n][i].name # e
             PROVE  \E k \in 1 .. Len(d2[n]) : d2[n][k].name = d[n][i].name /\ d2[n][k].netChar = d[n][i].netChar
  BY DEF Keeps, d, d2
<1>3. i \in 1 .. Len(scn[n]) /\ d[n][i] = Showing(scn[n][i], arr) /\ scn[n][i].name # e
  BY <1>1, ShowingIs
<1>4. PICK k \in 1 .. Len(scn2[n]) : scn2[n][k] = scn[n][i]
  BY <1>3 DEF StillBut
<1>5. k \in 1 .. Len(d2[n]) /\ d2[n][k] = d[n][i]
  BY <1>2, <1>3, <1>4
<1> QED BY <1>5

\* Locations with their arrays carry their processes.
LEMMA CarriedLocations ==
  ASSUME NEW scn, NEW scn2, NEW arr, Memory(scn, arr), Memory(scn2, arr),
         \A n \in NLs : \A i \in 1 .. Len(scn[n]) : scn[n][i].len # 0 =>
           \E m \in NLs : \E k \in 1 .. Len(scn2[m]) : scn2[m][k] = scn[n][i]
  PROVE  Carries(Document(scn, arr), Document(scn2, arr))
<1> DEFINE d == Document(scn, arr)
           d2 == Document(scn2, arr)
<1>1. \A n \in NLs : /\ Len(d[n]) = Len(scn[n])
                     /\ \A i \in 1 .. Len(scn[n]) : d[n][i] = Showing(scn[n][i], arr)
  BY DocumentShows
<1>2. \A n \in NLs : /\ Len(d2[n]) = Len(scn2[n])
                     /\ \A i \in 1 .. Len(scn2[n]) : d2[n][i] = Showing(scn2[n][i], arr)
  BY DocumentShows
<1> HIDE DEF d, d2
<1> SUFFICES ASSUME NEW n \in NLs, NEW i \in 1 .. Len(d[n]), Len(d[n][i].procs) # 0
             PROVE  \E m \in NLs : \E k \in 1 .. Len(d2[m]) :
                      d2[m][k].name = d[n][i].name /\ d2[m][k].procs = d[n][i].procs
  BY DEF Carries, d, d2
<1>3. i \in 1 .. Len(scn[n]) /\ d[n][i] = Showing(scn[n][i], arr)
  BY <1>1
<1>4. scn[n][i].len # 0
  <2>1. Len(Showing(scn[n][i], arr).procs) = scn[n][i].len
    BY <1>3, ShowingType
  <2> QED BY <1>3, <2>1
<1>5. PICK m \in NLs : \E k \in 1 .. Len(scn2[m]) : scn2[m][k] = scn[n][i]
  BY <1>3, <1>4
<1>6. PICK k \in 1 .. Len(scn2[m]) : scn2[m][k] = scn[n][i]
  BY <1>5
<1>7. k \in 1 .. Len(d2[m]) /\ d2[m][k] = d[n][i]
  BY <1>2, <1>3, <1>6
<1> QED BY <1>7

\* The document and the view of a scenario in memory.
LEMMA DocumentOf ==
  ASSUME NEW scn, NEW arr, Memory(scn, arr)
  PROVE  Document(scn, arr) \in DocType /\ Distinct(Document(scn, arr))
  BY DocumentShows, DocumentDistinct

\* The view has a location of the scenario at its network location, ...
LEMMA PlaceOf ==
  ASSUME NEW scn, NEW arr, Memory(scn, arr), NamesApart, NEW n \in NLs, NEW i \in 1 .. Len(scn[n])
  PROVE  /\ scn[n][i] \in PhyLoc
         /\ View(Document(scn, arr)).at[scn[n][i].name] = n
         /\ View(Document(scn, arr)).netChar[scn[n][i].name] = scn[n][i].netChar
<1> DEFINE d == Document(scn, arr)
<1>1. d \in DocType /\ Distinct(d)
  BY DocumentOf
<1>2. i \in 1 .. Len(d[n]) /\ d[n][i] = Showing(scn[n][i], arr)
  BY DocumentShows
<1>3. scn[n][i] \in PhyLoc
  BY ShowingType
<1> HIDE DEF d
<1>4. View(d).at[d[n][i].name] = n /\ View(d).netChar[d[n][i].name] = d[n][i].netChar
  BY <1>1, <1>2, LocationView
<1> QED BY <1>2, <1>3, <1>4, ShowingIs DEF d

\* ... and one that is not in the scenario nowhere.
LEMMA NoPlaceOf ==
  ASSUME NEW scn, NEW arr, Memory(scn, arr), NamesApart, NEW x \in PLs,
         \A n \in NLs : \A i \in 1 .. Len(scn[n]) : scn[n][i].name # x
  PROVE  View(Document(scn, arr)).at[x] = NoPlace /\ View(Document(scn, arr)).netChar[x] = Value0
<1> DEFINE d == Document(scn, arr)
<1>1. d \in DocType
  BY DocumentOf
<1>2. \A n \in NLs : /\ Len(d[n]) = Len(scn[n])
                     /\ \A i \in 1 .. Len(scn[n]) : d[n][i] = Showing(scn[n][i], arr)
  BY DocumentShows
<1> HIDE DEF d
<1>3. \A n \in NLs : \A i \in 1 .. Len(d[n]) : d[n][i].name # x
  BY <1>2, ShowingIs
<1> QED BY <1>1, <1>3, NoLocation DEF d

\* A location is found by name in one place only.
LEMMA ByName ==
  ASSUME NEW scn, NEW arr, Memory(scn, arr), NEW n \in NLs, NEW m \in NLs,
         NEW i \in 1 .. Len(scn[n]), NEW k \in 1 .. Len(scn[m]), scn[n][i].name = scn[m][k].name
  PROVE  n = m /\ i = k
  BY SameLocation DEF Memory

\* The nodes are fresh after they were parsed.
LEMMA FreshNow ==
  ASSUME nodeMap' = ParseNodes(scenario', arrays')
  PROVE  NodeMapFresh'
  BY DEF NodeMapFresh

\* The move of a location, as the view shows it.
LEMMA MovedView ==
  ASSUME NEW scn, NEW scn2, NEW arr, Memory(scn, arr), NamesApart,
         NEW old \in NLs, NEW dest \in NLs, old # dest, NEW i \in 1 .. Len(scn[old]),
         Moves(scn, scn2, old, dest, i)
  PROVE  /\ Memory(scn2, arr) /\ scn[old][i].name \in Elems
         /\ Tree!Move(View(Document(scn, arr)), View(Document(scn2, arr)), scn[old][i].name, dest)
<1> DEFINE e == scn[old][i].name
<1>3. /\ Memory(scn2, arr) /\ At(scn2, dest, scn[old][i])
      /\ Still(scn, scn2, old, i) /\ Known(scn2, scn)
  BY LocationMoves
<1>4. /\ Memory(scn2, arr)
      /\ \E k \in 1 .. Len(scn2[dest]) : scn2[dest][k] = scn[old][i]
      /\ \A n \in NLs : \A j \in 1 .. Len(scn[n]) : ~(n = old /\ j = i) =>
           \E k \in 1 .. Len(scn2[n]) : scn2[n][k] = scn[n][j]
      /\ \A m \in NLs : \A k \in 1 .. Len(scn2[m]) :
           \E n \in NLs : \E j \in 1 .. Len(scn[n]) : scn2[m][k] = scn[n][j]
  BY <1>3, Zenon DEF Still, Known, At
<1> DEFINE d == Document(scn, arr)
           d2 == Document(scn2, arr)
<1>6. d \in DocType /\ d2 \in DocType /\ Distinct(d) /\ Distinct(d2)
  BY <1>4, DocumentOf
<1>7. PICK k \in 1 .. Len(scn2[dest]) : scn2[dest][k] = scn[old][i]
  BY <1>4
<1>8. StillBut(scn2, scn, e)
  <2>0. SUFFICES ASSUME NEW m \in NLs, NEW j \in 1 .. Len(scn2[m]), scn2[m][j].name # e
                 PROVE  \E c \in 1 .. Len(scn[m]) : scn[m][c] = scn2[m][j]
    BY DEF StillBut
  <2>1. PICK n \in NLs : \E c \in 1 .. Len(scn[n]) : scn2[m][j] = scn[n][c]
    BY <1>4
  <2>2. PICK c \in 1 .. Len(scn[n]) : scn2[m][j] = scn[n][c]
    BY <2>1
  <2>3. ~(n = old /\ c = i)
    BY <2>0, <2>2
  <2>4. \E b \in 1 .. Len(scn2[n]) : scn2[n][b] = scn[n][c]
    BY <1>4, <2>3
  <2>5. PICK b \in 1 .. Len(scn2[n]) : scn2[n][b] = scn[n][c]
    BY <2>4
  <2>6. scn2[n][b].name = scn2[m][j].name
    BY <2>2, <2>5
  <2>7. n = m
    BY <1>4, <2>6, ByName
  <2> QED BY <2>2, <2>7
<1>9. Keeps(d, d2, e) /\ Keeps(d2, d, e)
  <2>1. StillBut(scn, scn2, e)
    <3> SUFFICES ASSUME NEW n \in NLs, NEW j \in 1 .. Len(scn[n]), scn[n][j].name # e
                 PROVE  \E c \in 1 .. Len(scn2[n]) : scn2[n][c] = scn[n][j]
      BY DEF StillBut
    <3>1. ~(n = old /\ j = i)
      OBVIOUS
    <3> QED BY <1>4, <3>1
  <2>2. Keeps(d, d2, e)
    BY <1>4, <2>1, KeptLocations
  <2>3. Keeps(d2, d, e)
    BY <1>4, <1>8, KeptLocations
  <2> QED BY <2>2, <2>3
<1>10. Carries(d, d2) /\ Carries(d2, d)
  <2>1. ASSUME NEW n \in NLs, NEW j \in 1 .. Len(scn[n])
        PROVE  \E m \in NLs : \E c \in 1 .. Len(scn2[m]) : scn2[m][c] = scn[n][j]
    <3>1. CASE n = old /\ j = i
      BY <1>7, <3>1
    <3>2. CASE ~(n = old /\ j = i)
      BY <1>4, <3>2
    <3> QED BY <3>1, <3>2
  <2>2. Carries(d, d2)
    BY <1>4, <2>1, CarriedLocations
  <2>3. \A n \in NLs : \A j \in 1 .. Len(scn2[n]) : scn2[n][j].len # 0 =>
           \E m \in NLs : \E c \in 1 .. Len(scn[m]) : scn[m][c] = scn2[n][j]
    <3> SUFFICES ASSUME NEW n \in NLs, NEW j \in 1 .. Len(scn2[n])
                 PROVE  \E m \in NLs : \E c \in 1 .. Len(scn[m]) : scn[m][c] = scn2[n][j]
      OBVIOUS
    <3>1. PICK m \in NLs : \E c \in 1 .. Len(scn[m]) : scn2[n][j] = scn[m][c]
      BY <1>4
    <3> QED BY <3>1
  <2>4. Carries(d2, d)
    BY <1>4, <2>3, CarriedLocations
  <2> QED BY <2>2, <2>4
<1>11. /\ scn[old][i] \in PhyLoc
       /\ View(d).at[e] = old /\ View(d).netChar[e] = scn[old][i].netChar
  BY PlaceOf
<1>12. View(d2).at[scn2[dest][k].name] = dest /\ View(d2).netChar[scn2[dest][k].name] = scn2[dest][k].netChar
  BY <1>4, PlaceOf
<1>13. View(d2).at[e] = dest /\ View(d2).netChar[e] = View(d).netChar[e]
  BY <1>7, <1>11, <1>12
<1>14. old # NoPlace /\ e \in Elems
  BY <1>11, ModelAssumption DEF ModelAssumption, Elems, PhyLoc
<1> HIDE DEF d, d2, e
<1>15. ASSUME NEW x \in Elems, x # e
       PROVE  View(d2).at[x] = View(d).at[x] /\ View(d2).netChar[x] = View(d).netChar[x]
  <2>1. CASE x \in PLs
    BY <1>6, <1>9, <1>15, <2>1, KeepsView
  <2>2. CASE x \in Procs
    BY <1>6, <1>10, <2>2, CarriesView
  <2> QED BY <2>1, <2>2 DEF Elems
<1>16. OthersAlike(d, d2, e)
  BY <1>15 DEF OthersAlike
<1>17. Tree!Move(View(d), View(d2), e, dest)
  <2>1. View(d).at[e] # NoPlace
    BY <1>11, <1>14
  <2> QED BY <1>6, <1>13, <1>14, <1>16, <2>1, ViewChanged
<1> QED BY <1>4, <1>14, <1>17 DEF d, d2, e

\* A change of one location that has no processes leaves the others alike.
LEMMA HeldView ==
  ASSUME NEW scn, NEW scn2, NEW arr, Memory(scn, arr), Memory(scn2, arr), NamesApart, NEW e,
         StillBut(scn, scn2, e), StillBut(scn2, scn, e),
         \A n \in NLs : \A i \in 1 .. Len(scn[n]) : scn[n][i].name = e => scn[n][i].len = 0,
         \A n \in NLs : \A i \in 1 .. Len(scn2[n]) : scn2[n][i].name = e => scn2[n][i].len = 0
  PROVE  OthersAlike(Document(scn, arr), Document(scn2, arr), e)
<1> DEFINE d == Document(scn, arr)
           d2 == Document(scn2, arr)
<1>1. d \in DocType /\ d2 \in DocType /\ Distinct(d) /\ Distinct(d2)
  BY DocumentOf
<1>2. Keeps(d, d2, e) /\ Keeps(d2, d, e)
  <2>1. Keeps(d, d2, e)
    BY KeptLocations
  <2>2. Keeps(d2, d, e)
    BY KeptLocations
  <2> QED BY <2>1, <2>2
<1>3. Carries(d, d2)
  <2>1. ASSUME NEW n \in NLs, NEW i \in 1 .. Len(scn[n]), scn[n][i].len # 0
        PROVE  \E m \in NLs : \E k \in 1 .. Len(scn2[m]) : scn2[m][k] = scn[n][i]
    BY <2>1 DEF StillBut
  <2> QED BY <2>1, CarriedLocations
<1>4. Carries(d2, d)
  <2>1. ASSUME NEW n \in NLs, NEW i \in 1 .. Len(scn2[n]), scn2[n][i].len # 0
        PROVE  \E m \in NLs : \E k \in 1 .. Len(scn[m]) : scn[m][k] = scn2[n][i]
    BY <2>1 DEF StillBut
  <2> QED BY <2>1, CarriedLocations
<1> HIDE DEF d, d2
<1>5. ASSUME NEW x \in Elems, x # e
       PROVE  View(d2).at[x] = View(d).at[x] /\ View(d2).netChar[x] = View(d).netChar[x]
  <2>1. CASE x \in PLs
    BY <1>1, <1>2, <1>5, <2>1, KeepsView
  <2>2. CASE x \in Procs
    BY <1>1, <1>3, <1>4, <2>2, CarriesView
  <2> QED BY <2>1, <2>2 DEF Elems
<1> QED BY <1>5 DEF OthersAlike, d, d2

\* A location enters the view.
LEMMA EnteredView ==
  ASSUME NEW scn, NEW scn2, NEW arr, Memory(scn, arr), NamesApart, NEW nl \in NLs, NEW x \in PhyLoc,
         x.array = 0, x.len = 0, Without(scn, x.name), Enters(scn, scn2, nl, x)
  PROVE  /\ Memory(scn2, arr)
         /\ Tree!Add(View(Document(scn, arr)), View(Document(scn2, arr)), x.name, nl, x.netChar)
<1> DEFINE d == Document(scn, arr)
           d2 == Document(scn2, arr)
           e == x.name
<1>1. /\ Memory(scn2, arr) /\ At(scn2, nl, x)
      /\ StillBut(scn, scn2, e) /\ StillBut(scn2, scn, e)
  BY LocationEnters
<1>2. PICK k \in 1 .. Len(scn2[nl]) : scn2[nl][k] = x
  BY <1>1 DEF At
<1>3. /\ \A n \in NLs : \A i \in 1 .. Len(scn[n]) : scn[n][i].name = e => scn[n][i].len = 0
      /\ \A n \in NLs : \A i \in 1 .. Len(scn2[n]) : scn2[n][i].name = e => scn2[n][i].len = 0
  <2>1. ASSUME NEW n \in NLs, NEW i \in 1 .. Len(scn2[n]), scn2[n][i].name = e
        PROVE  scn2[n][i].len = 0
    <3>1. n = nl /\ i = k
      BY <1>1, <1>2, <2>1, ByName
    <3> QED BY <1>2, <3>1
  <2> QED BY <2>1 DEF Without
<1>4. OthersAlike(d, d2, e)
  BY <1>1, <1>3, HeldView
<1>5. e \in PLs /\ e \in Elems
  BY DEF PhyLoc, Elems
<1>6. View(d).at[e] = NoPlace
  BY <1>5, NoPlaceOf DEF Without
<1>7. View(d2).at[scn2[nl][k].name] = nl /\ View(d2).netChar[scn2[nl][k].name] = scn2[nl][k].netChar
  BY <1>1, PlaceOf
<1>8. d \in DocType /\ d2 \in DocType
  BY <1>1, DocumentOf
<1> HIDE DEF d, d2
<1>9. View(d2).at[e] = nl /\ View(d2).netChar[e] = x.netChar
  BY <1>2, <1>7
<1>10. Tree!Add(View(d), View(d2), e, nl, x.netChar)
  <2> HIDE DEF e
  <2> QED BY <1>4, <1>5, <1>6, <1>8, <1>9, ViewChanged
<1> QED BY <1>1, <1>10 DEF d, d2

\* Nothing is at a location that shows no processes.
LEMMA NothingAt ==
  ASSUME NEW scn, NEW arr, Memory(scn, arr), NamesApart, NEW n \in NLs, NEW i \in 1 .. Len(scn[n]),
         scn[n][i].len = 0, NEW x \in Elems
  PROVE  View(Document(scn, arr)).at[x] # scn[n][i].name
<1> DEFINE d == Document(scn, arr)
           e == scn[n][i].name
<1>1. d \in DocType /\ Distinct(d)
  BY DocumentOf
<1>2. i \in 1 .. Len(d[n]) /\ d[n][i] = Showing(scn[n][i], arr) /\ Len(Showing(scn[n][i], arr).procs) = 0
  BY DocumentShows, ShowingType
<1>3. d[n][i].name = e /\ e \in PLs /\ Len(d[n][i].procs) = 0
  BY <1>2, ShowingIs, ShowingType DEF PhyLoc
<1>4. e # NoPlace /\ e \notin NLs
  BY <1>3, ModelAssumption DEF ModelAssumption, NamesApart
<1> HIDE DEF d, e
<1>5. CASE \E s : EntriesOf(d, x) = {s}
  <2>1. PICK s : EntriesOf(d, x) = {s}
    BY <1>5
  <2>2. s \in Slots(d)
    BY <2>1 DEF EntriesOf
  <2>3. View(d).at[x] = Placed(d, s)
    BY <2>1, ViewIs
  <2>4. /\ s[1] \in NLs /\ s[2] \in 1 .. Len(d[s[1]])
        /\ s[3] # 0 => s[3] \in 1 .. Len(d[s[1]][s[2]].procs)
    BY <1>1, <2>2, EntryKind
  <2>5. CASE s[3] = 0
    BY <1>4, <2>3, <2>4, <2>5 DEF Placed, e, d
  <2>6. CASE s[3] # 0
    <3>1. d[s[1]][s[2]].name # e
      <4>1. ASSUME d[s[1]][s[2]].name = e PROVE FALSE
        <5>1. s[1] = n /\ s[2] = i
          BY <1>1, <1>2, <1>3, <2>4, <4>1 DEF Distinct
        <5> QED BY <1>3, <2>4, <2>6, <5>1
      <4> QED BY <4>1
    <3> QED BY <2>3, <2>6, <3>1 DEF Placed, e, d
  <2> QED BY <2>5, <2>6
<1>6. CASE \A s : EntriesOf(d, x) # {s}
  <2>1. View(d).at[x] = NoPlace
    BY <1>6, ViewIs
  <2> QED BY <1>4, <2>1 DEF d, e
<1> QED BY <1>5, <1>6

\* A location leaves the view.
LEMMA LeftView ==
  ASSUME NEW scn, NEW scn2, NEW arr, Memory(scn, arr), NamesApart, NEW nl \in NLs,
         NEW i \in 1 .. Len(scn[nl]), scn[nl][i].len = 0, Leaves(scn, scn2, nl, i)
  PROVE  /\ Memory(scn2, arr)
         /\ Tree!Remove(View(Document(scn, arr)), View(Document(scn2, arr)), scn[nl][i].name, Value0)
<1> DEFINE d == Document(scn, arr)
           d2 == Document(scn2, arr)
           e == scn[nl][i].name
<1>1. /\ Memory(scn2, arr) /\ Without(scn2, e)
      /\ StillBut(scn, scn2, e) /\ StillBut(scn2, scn, e)
  BY LocationLeaves
<1>2. /\ \A n \in NLs : \A k \in 1 .. Len(scn[n]) : scn[n][k].name = e => scn[n][k].len = 0
      /\ \A n \in NLs : \A k \in 1 .. Len(scn2[n]) : scn2[n][k].name = e => scn2[n][k].len = 0
  <2>1. ASSUME NEW n \in NLs, NEW k \in 1 .. Len(scn[n]), scn[n][k].name = e
        PROVE  scn[n][k].len = 0
    <3>1. n = nl /\ k = i
      BY <2>1, ByName
    <3> QED BY <3>1
  <2> QED BY <1>1, <2>1 DEF Without
<1>3. OthersAlike(d, d2, e)
  BY <1>1, <1>2, HeldView
<1>4. e \in PLs /\ e \in Elems
  BY ShowingType DEF PhyLoc, Elems
<1>5. View(d2).at[e] = NoPlace /\ View(d2).netChar[e] = Value0
  BY <1>1, <1>4, NoPlaceOf DEF Without
<1>6. View(d).at[e] = nl /\ nl # NoPlace
  <2>1. nl # NoPlace
    BY ModelAssumption DEF ModelAssumption
  <2> QED BY <2>1, PlaceOf
<1>7. d \in DocType /\ d2 \in DocType
  BY <1>1, DocumentOf
<1>8. \A x \in Elems : View(d).at[x] # e
  BY NothingAt
<1> HIDE DEF d, d2, e
<1>9. Tree!Remove(View(d), View(d2), e, Value0)
  BY <1>3, <1>4, <1>5, <1>6, <1>7, <1>8, ViewChanged
<1> QED BY <1>1, <1>9 DEF d, d2, e

\* Each of the requests that change the locations parses the nodes again.
LEMMA MovePLStep ==
  ASSUME Inv, NamesApart, NoFogMoves, NEW e, NEW dest, MovePL(e, dest)
  PROVE  /\ Inv' /\ NodeMapFresh' /\ e \in Elems /\ dest \in NLs
         /\ Tree!Move(View(Document(scenario, arrays)), View(Document(scenario', arrays')), e, dest)
<1>1. PICK old \in NLs : \E i \in 1 .. Len(scenario[old]) :
           /\ old # dest /\ dest \in NLs /\ scenario[old][i].name = e /\ e \in PLs
           /\ Moves(scenario, scenario', old, dest, i)
           /\ arrays' = arrays /\ nodeMap' = ParseNodes(scenario', arrays')
           /\ published' = Document(scenario', arrays')
  BY MovePLIs
<1>2. PICK i \in 1 .. Len(scenario[old]) :
           /\ old # dest /\ dest \in NLs /\ scenario[old][i].name = e /\ e \in PLs
           /\ Moves(scenario, scenario', old, dest, i)
           /\ arrays' = arrays /\ nodeMap' = ParseNodes(scenario', arrays')
           /\ published' = Document(scenario', arrays')
  BY <1>1
<1>3. /\ Memory(scenario', arrays) /\ scenario[old][i].name \in Elems
      /\ Tree!Move(View(Document(scenario, arrays)), View(Document(scenario', arrays)), scenario[old][i].name, dest)
  BY <1>2, MovedView DEF Inv
<1>4. Inv' /\ NodeMapFresh'
  BY <1>2, <1>3, Reparsed, FreshNow
<1> QED BY <1>2, <1>3, <1>4

\* AddScenarioNode adds a UE to the tree, and nothing else.
LEMMA AddStep ==
  ASSUME Inv, NamesApart, NEW u, NEW nl \in NLs, NEW v \in Values, AddScenarioNode(u, nl, v)
  PROVE  /\ Inv' /\ NodeMapFresh' /\ u \in Elems
         /\ Tree!Add(View(Document(scenario, arrays)), View(Document(scenario', arrays')), u, nl, v)
<1> DEFINE x == [name |-> u, netChar |-> v, array |-> 0, len |-> 0]
<1>1. /\ u \in UEs /\ u \notin DOMAIN nodeMap /\ Enters(scenario, scenario', nl, x)
      /\ arrays' = arrays /\ nodeMap' = ParseNodes(scenario', arrays')
      /\ published' = Document(scenario', arrays')
  BY DEF AddScenarioNode, Enters, ReparseAll, Refresh
<1>2. x \in PhyLoc /\ x.array = 0 /\ x.len = 0 /\ x.name = u /\ x.netChar = v
  BY <1>1 DEF PhyLoc, PLs
<1>3. Without(scenario, u)
  BY <1>1 DEF Inv, Nodes, LocNodes, Without
<1> HIDE DEF x
<1>4. /\ Memory(scenario', arrays)
      /\ Tree!Add(View(Document(scenario, arrays)), View(Document(scenario', arrays)), x.name, nl, x.netChar)
  BY <1>1, <1>2, <1>3, EnteredView DEF Inv
<1>5. Inv' /\ NodeMapFresh'
  BY <1>1, <1>4, Reparsed, FreshNow
<1> QED BY <1>1, <1>2, <1>4, <1>5 DEF Elems, PLs

\* RemoveScenarioNode removes the UE it names, and nothing else.
LEMMA RemoveStep ==
  ASSUME Inv, NamesApart, NEW u, RemoveScenarioNode(u)
  PROVE  /\ Inv' /\ NodeMapFresh' /\ u \in Elems
         /\ Tree!Remove(View(Document(scenario, arrays)), View(Document(scenario', arrays')), u, Value0)
<1>1. u \in DOMAIN nodeMap \cap PLs /\ u \in Elems
  BY DEF RemoveScenarioNode, PLs, Elems
<1>2. PICK nl \in NLs : \E i \in 1 .. Len(scenario[nl]) :
         scenario[nl][i].name = u /\ nodeMap[u].object = <<nl, i>> /\ nodeMap[u].parent = nl
  BY <1>1, NodeOfLocation DEF Inv
<1>3. PICK i \in 1 .. Len(scenario[nl]) :
         scenario[nl][i].name = u /\ nodeMap[u].object = <<nl, i>> /\ nodeMap[u].parent = nl
  BY <1>2
<1>4. Index({k \in DOMAIN scenario[nl] : scenario[nl][k].name = u}) = i
  BY <1>3, Matches DEF Inv
<1>5. /\ scenario[nl][i].len = 0
      /\ scenario' = [scenario EXCEPT ![nl] = SwapRemove(@, Index({k \in DOMAIN scenario[nl] : scenario[nl][k].name = u}))]
      /\ arrays' = arrays /\ nodeMap' = ParseNodes(scenario', arrays')
      /\ published' = Document(scenario', arrays')
  BY <1>3 DEF RemoveScenarioNode, Deref, ReparseAll, Refresh
<1>6. Leaves(scenario, scenario', nl, i)
  BY <1>4, <1>5, Zenon DEF Leaves
<1>7. /\ Memory(scenario', arrays)
      /\ Tree!Remove(View(Document(scenario, arrays)), View(Document(scenario', arrays)), scenario[nl][i].name, Value0)
  BY <1>5, <1>6, LeftView DEF Inv
<1>8. Inv' /\ NodeMapFresh'
  BY <1>5, <1>7, Reparsed, FreshNow
<1> QED BY <1>1, <1>3, <1>5, <1>7, <1>8

-----------------------------------------------------------------------------
(* Changes of the characteristics.                                         *)

\* Only characteristics differ.
Shape(scn, arr, scn2, arr2) ==
  /\ scn2 \in [NLs -> Seq(PhyLoc)] /\ arr2 \in Seq(Seq(Item))
  /\ \A n \in NLs :
       /\ Len(scn2[n]) = Len(scn[n])
       /\ \A i \in 1 .. Len(scn[n]) :
            /\ scn2[n][i].name = scn[n][i].name
            /\ scn2[n][i].array = scn[n][i].array /\ scn2[n][i].len = scn[n][i].len
  /\ Len(arr2) = Len(arr)
  /\ \A a \in 1 .. Len(arr) :
       /\ Len(arr2[a]) = Len(arr[a])
       /\ \A j \in 1 .. Len(arr[a]) : arr2[a][j].name = arr[a][j].name

\* New characteristics keep memory right, ...
LEMMA ShapeMemory ==
  ASSUME NEW scn, NEW arr, NEW scn2, NEW arr2, Memory(scn, arr), Shape(scn, arr, scn2, arr2)
  PROVE  Memory(scn2, arr2)
<1>1. Slices(scn2, arr2)
  <2> SUFFICES ASSUME NEW n \in NLs, NEW i \in 1 .. Len(scn2[n]) PROVE Fits(scn2[n][i], arr2)
    BY DEF Slices
  <2> DEFINE x == scn[n][i]
             y == scn2[n][i]
  <2>1. i \in 1 .. Len(scn[n]) /\ y.array = x.array /\ y.len = x.len
    BY DEF Shape
  <2>2. x \in PhyLoc
    BY <2>1, ElementOfSeq DEF Memory
  <2>3. /\ x.array \in 0 .. Len(arr)
        /\ x.array = 0 => x.len = 0
        /\ x.array # 0 => x.len <= Len(arr[x.array])
        /\ \A j \in 1 .. x.len : arr[x.array][j].name \in Procs
    BY <2>1 DEF Memory, Slices, Fits
  <2> HIDE DEF x, y
  <2>4. Len(arr) \in Nat /\ x.array \in Nat /\ x.len \in Nat
    BY <2>2 DEF Memory, PhyLoc
  <2>5. CASE x.array = 0
    <3>1. Len(arr2) = Len(arr)
      BY DEF Shape
    <3>2. 1 .. x.len = {}
      BY <2>3, <2>5
    <3> QED BY <2>1, <2>3, <2>4, <2>5, <3>1, <3>2 DEF Fits, y
  <2>6. CASE x.array # 0
    <3>1. x.array \in 1 .. Len(arr)
      BY <2>3, <2>4, <2>6
    <3>2. /\ Len(arr2) = Len(arr) /\ Len(arr2[x.array]) = Len(arr[x.array])
          /\ \A j \in 1 .. Len(arr[x.array]) : arr2[x.array][j].name = arr[x.array][j].name
      BY <3>1 DEF Shape
    <3>3. Len(arr[x.array]) \in Nat
      BY <3>1 DEF Memory
    <3>4. \A j \in 1 .. x.len : arr2[x.array][j].name \in Procs
      BY <2>3, <2>4, <2>6, <3>2, <3>3
    <3> QED BY <2>1, <2>3, <2>6, <3>2, <3>4 DEF Fits, y
  <2> QED BY <2>5, <2>6
<1>2. Apart(scn2)
  <2>0. SUFFICES ASSUME NEW n \in NLs, NEW m \in NLs, NEW i \in 1 .. Len(scn2[n]), NEW k \in 1 .. Len(scn2[m]),
                      \/ scn2[n][i].name = scn2[m][k].name
                      \/ scn2[n][i].array = scn2[m][k].array /\ scn2[n][i].array # 0
               PROVE  n = m /\ i = k
    BY DEF Apart
  <2>1. /\ i \in 1 .. Len(scn[n]) /\ scn2[n][i].name = scn[n][i].name /\ scn2[n][i].array = scn[n][i].array
        /\ k \in 1 .. Len(scn[m]) /\ scn2[m][k].name = scn[m][k].name /\ scn2[m][k].array = scn[m][k].array
    BY DEF Shape
  <2> QED BY <2>0, <2>1, SameLocation DEF Memory
<1> QED BY <1>1, <1>2 DEF Memory, Shape

\* ... and the nodes.
LEMMA ShapeNodes ==
  ASSUME NEW scn, NEW arr, NEW scn2, NEW arr2, NEW map, Memory(scn, arr), Shape(scn, arr, scn2, arr2),
         Nodes(scn, arr, map)
  PROVE  Nodes(scn2, arr2, map)
<1>1. LocNodes(scn2, map)
  <2>1. ASSUME NEW p \in DOMAIN map \cap PLs
        PROVE  LocAt(scn2, p, map[p])
    <3>1. PICK n \in NLs : \E i \in 1 .. Len(scn[n]) :
             scn[n][i].name = p /\ map[p].object = <<n, i>> /\ map[p].parent = n
      BY NodeOfLocation
    <3>2. PICK i \in 1 .. Len(scn[n]) :
             scn[n][i].name = p /\ map[p].object = <<n, i>> /\ map[p].parent = n
      BY <3>1
    <3>3. i \in 1 .. Len(scn2[n]) /\ scn2[n][i].name = p
      BY <3>2 DEF Shape
    <3> QED BY <3>2, <3>3 DEF LocAt
  <2>2. ASSUME NEW n \in NLs, NEW i \in 1 .. Len(scn2[n])
        PROVE  scn2[n][i].name \in DOMAIN map
    <3>1. i \in 1 .. Len(scn[n]) /\ scn2[n][i].name = scn[n][i].name
      BY DEF Shape
    <3> QED BY <3>1 DEF Nodes, LocNodes
  <2> QED BY <2>1, <2>2 DEF LocNodes
<1>2. ProcNodes(scn2, arr2, map)
  <2> SUFFICES ASSUME NEW e \in DOMAIN map \cap Procs
               PROVE  /\ \E a \in 1 .. Len(arr2) : \E j \in 1 .. Len(arr2[a]) :
                           arr2[a][j].name \in Procs /\ map[e].object = <<a, j>>
                      /\ \E n \in NLs : \E i \in 1 .. Len(scn2[n]) : map[e].parent = <<n, i>>
    BY DEF ProcNodes
  <2>1. /\ \E a \in 1 .. Len(arr) : \E j \in 1 .. Len(arr[a]) :
             arr[a][j].name \in Procs /\ map[e].object = <<a, j>>
        /\ \E n \in NLs : \E i \in 1 .. Len(scn[n]) : map[e].parent = <<n, i>>
    BY DEF Nodes, ProcNodes
  <2>2. PICK a \in 1 .. Len(arr) : \E j \in 1 .. Len(arr[a]) :
             arr[a][j].name \in Procs /\ map[e].object = <<a, j>>
    BY <2>1
  <2>3. PICK j \in 1 .. Len(arr[a]) : arr[a][j].name \in Procs /\ map[e].object = <<a, j>>
    BY <2>2
  <2>4. a \in 1 .. Len(arr2) /\ j \in 1 .. Len(arr2[a]) /\ arr2[a][j].name \in Procs
    BY <2>3 DEF Shape
  <2>5. PICK n \in NLs : \E i \in 1 .. Len(scn[n]) : map[e].parent = <<n, i>>
    BY <2>1
  <2>6. \E i \in 1 .. Len(scn2[n]) : map[e].parent = <<n, i>>
    BY <2>5 DEF Shape
  <2> QED BY <2>3, <2>4, <2>6
<1>3. Room(scn2, map)
  <2> SUFFICES ASSUME NEW n \in NLs, NEW i \in 1 .. Len(scn2[n])
               PROVE  \E f \in [Parented(map, <<n, i>>) -> 1 .. scn2[n][i].len] :
                        \A x, y \in Parented(map, <<n, i>>) : f[x] = f[y] => x = y
    BY DEF Room
  <2>1. i \in 1 .. Len(scn[n]) /\ scn2[n][i].len = scn[n][i].len
    BY DEF Shape
  <2> QED BY <2>1 DEF Nodes, Room
<1> QED BY <1>1, <1>2, <1>3 DEF Nodes

\* The documents have the same slots, with the same names.
LEMMA ShapeSlots ==
  ASSUME NEW scn, NEW arr, NEW scn2, NEW arr2, Memory(scn, arr), Shape(scn, arr, scn2, arr2)
  PROVE  /\ Slots(Document(scn2, arr2)) = Slots(Document(scn, arr))
         /\ \A s \in Slots(Document(scn, arr)) :
              /\ Entry(Document(scn2, arr2), s).name = Entry(Document(scn, arr), s).name
              /\ Node(scn2, s) = Node(scn, s)
              /\ Placed(Document(scn2, arr2), s) = Placed(Document(scn, arr), s)
         /\ \A e : EntriesOf(Document(scn2, arr2), e) = EntriesOf(Document(scn, arr), e)
<1> DEFINE d == Document(scn, arr)
           d2 == Document(scn2, arr2)
<1>1. Memory(scn2, arr2)
  BY ShapeMemory
<1>2. d \in DocType /\ \A n \in NLs : /\ Len(d[n]) = Len(scn[n])
                     /\ \A i \in 1 .. Len(scn[n]) : d[n][i] = Showing(scn[n][i], arr)
  BY DocumentShows
<1>3. d2 \in DocType /\ \A n \in NLs : /\ Len(d2[n]) = Len(scn2[n])
                     /\ \A i \in 1 .. Len(scn2[n]) : d2[n][i] = Showing(scn2[n][i], arr2)
  BY <1>1, DocumentShows
<1> HIDE DEF d, d2
<1>4. ASSUME NEW n \in NLs, NEW i \in 1 .. Len(d[n])
      PROVE  /\ i \in 1 .. Len(d2[n]) /\ d2[n][i].name = d[n][i].name
             /\ Len(d2[n][i].procs) = Len(d[n][i].procs)
             /\ \A j \in 1 .. Len(d[n][i].procs) : d2[n][i].procs[j].name = d[n][i].procs[j].name
  <2> DEFINE x == scn[n][i]
             y == scn2[n][i]
  <2>1. /\ i \in 1 .. Len(scn[n]) /\ i \in 1 .. Len(scn2[n]) /\ i \in 1 .. Len(d2[n])
        /\ d[n][i] = Showing(x, arr) /\ d2[n][i] = Showing(y, arr2)
        /\ y.name = x.name /\ y.array = x.array /\ y.len = x.len
    BY <1>2, <1>3 DEF Shape
  <2>2. /\ x \in PhyLoc /\ Len(Showing(x, arr).procs) = x.len
        /\ \A j \in 1 .. x.len : Showing(x, arr).procs[j] = arr[x.array][j]
    BY <2>1, ShowingType
  <2>3. /\ Len(Showing(y, arr2).procs) = y.len
        /\ \A j \in 1 .. y.len : Showing(y, arr2).procs[j] = arr2[y.array][j]
    BY <1>1, <2>1, ShowingType
  <2>4. /\ x.array \in 0 .. Len(arr)
        /\ x.array = 0 => x.len = 0
        /\ x.array # 0 => x.len <= Len(arr[x.array])
    BY <2>1 DEF Memory, Slices, Fits
  <2>5. d2[n][i].name = d[n][i].name
    BY <2>1, ShowingIs
  <2> HIDE DEF x, y
  <2>6. x.len \in Nat /\ x.array \in Nat /\ Len(arr) \in Nat
    BY <2>2 DEF PhyLoc, Memory
  <2>7. ASSUME NEW j \in 1 .. x.len PROVE arr2[x.array][j].name = arr[x.array][j].name
    <3>1. x.array \in 1 .. Len(arr) /\ x.array # 0
      BY <2>4, <2>6
    <3>2. Len(arr[x.array]) \in Nat
      BY <3>1 DEF Memory
    <3>3. j \in 1 .. Len(arr[x.array])
      BY <2>4, <2>6, <3>1, <3>2
    <3> QED BY <3>1, <3>3 DEF Shape
  <2> QED BY <2>1, <2>2, <2>3, <2>5, <2>7
<1>5. \A n \in NLs : Len(d2[n]) = Len(d[n])
  BY <1>2, <1>3 DEF Shape
<1>6. ASSUME NEW s
      PROVE  s \in Slots(d2) <=> s \in Slots(d)
  <2>1. ASSUME s \in Slots(d) PROVE s \in Slots(d2)
    <3>1. /\ s = <<s[1], s[2], s[3]>> /\ s[1] \in NLs /\ s[2] \in 1 .. Len(d[s[1]])
          /\ s[3] \in 0 .. Len(d[s[1]][s[2]].procs)
      BY <2>1, SlotOf
    <3>2. s[2] \in 1 .. Len(d2[s[1]]) /\ Len(d2[s[1]][s[2]].procs) = Len(d[s[1]][s[2]].procs)
      BY <1>4, <3>1
    <3>3. <<s[1], s[2], s[3]>> \in Slots(d2)
      BY <3>1, <3>2, SlotIs
    <3> QED BY <3>1, <3>3
  <2>2. ASSUME s \in Slots(d2) PROVE s \in Slots(d)
    <3>1. /\ s = <<s[1], s[2], s[3]>> /\ s[1] \in NLs /\ s[2] \in 1 .. Len(d2[s[1]])
          /\ s[3] \in 0 .. Len(d2[s[1]][s[2]].procs)
      BY <2>2, SlotOf
    <3>2. s[2] \in 1 .. Len(d[s[1]])
      BY <1>5, <3>1
    <3>3. Len(d2[s[1]][s[2]].procs) = Len(d[s[1]][s[2]].procs)
      BY <1>4, <3>1, <3>2
    <3>4. <<s[1], s[2], s[3]>> \in Slots(d)
      BY <3>1, <3>2, <3>3, SlotIs
    <3> QED BY <3>1, <3>4
  <2> QED BY <2>1, <2>2
<1>7. ASSUME NEW s \in Slots(d)
      PROVE  /\ Entry(d2, s).name = Entry(d, s).name
             /\ Node(scn2, s) = Node(scn, s) /\ Placed(d2, s) = Placed(d, s)
  <2>1. /\ s[1] \in NLs /\ s[2] \in 1 .. Len(d[s[1]])
        /\ s[3] # 0 => s[3] \in 1 .. Len(d[s[1]][s[2]].procs)
    BY <1>2, EntryKind
  <2>2. /\ d2[s[1]][s[2]].name = d[s[1]][s[2]].name
        /\ \A j \in 1 .. Len(d[s[1]][s[2]].procs) : d2[s[1]][s[2]].procs[j].name = d[s[1]][s[2]].procs[j].name
    BY <1>4, <2>1
  <2>3. scn2[s[1]][s[2]].name = scn[s[1]][s[2]].name /\ scn2[s[1]][s[2]].array = scn[s[1]][s[2]].array
    BY <1>2, <2>1 DEF Shape
  <2>4. Entry(d2, s).name = Entry(d, s).name
    BY <2>1, <2>2 DEF Entry
  <2> QED BY <2>2, <2>3, <2>4 DEF Node, Placed
<1>8. \A e : EntriesOf(d2, e) = EntriesOf(d, e)
  BY <1>6, <1>7 DEF EntriesOf
<1> QED BY <1>6, <1>7, <1>8 DEF d, d2

\* Parsing gives the same nodes.
LEMMA ShapeParse ==
  ASSUME NEW scn, NEW arr, NEW scn2, NEW arr2, Memory(scn, arr), Shape(scn, arr, scn2, arr2)
  PROVE  ParseNodes(scn2, arr2) = ParseNodes(scn, arr)
<1> DEFINE d == Document(scn, arr)
           d2 == Document(scn2, arr2)
           D == {Entry(d, s).name : s \in Slots(d)}
           D2 == {Entry(d2, s).name : s \in Slots(d2)}
           map == ParseNodes(scn, arr)
           map2 == ParseNodes(scn2, arr2)
<1>1. map = [e \in D |-> Node(scn, LastOf(EntriesOf(d, e)))]
  BY ParseIs
<1>2. map2 = [e \in D2 |-> Node(scn2, LastOf(EntriesOf(d2, e)))]
  BY ParseIs
<1>3. /\ Slots(d2) = Slots(d)
      /\ \A s \in Slots(d) : Entry(d2, s).name = Entry(d, s).name /\ Node(scn2, s) = Node(scn, s)
      /\ \A e : EntriesOf(d2, e) = EntriesOf(d, e)
  BY ShapeSlots
<1>4. \A e \in D : LastOf(EntriesOf(d, e)) \in Slots(d)
  <2> SUFFICES ASSUME NEW e \in D PROVE LastOf(EntriesOf(d, e)) \in Slots(d)
    OBVIOUS
  <2>1. e \in DOMAIN map
    <3> HIDE DEF D, map
    <3> QED BY <1>1
  <2>2. \E s \in EntriesOf(d, e) : s = LastOf(EntriesOf(d, e))
    BY <2>1, Parsed
  <2> QED BY <2>2 DEF EntriesOf
<1> HIDE DEF d, d2, map, map2
<1>5. D2 = D
  BY <1>3
<1> HIDE DEF D, D2
<1>6. \A e \in D : Node(scn2, LastOf(EntriesOf(d2, e))) = Node(scn, LastOf(EntriesOf(d, e)))
  BY <1>3, <1>4
<1> QED BY <1>1, <1>2, <1>5, <1>6 DEF map, map2

\* The characteristics of one entry change: those of the element, if it is
\* there once, and else nothing that the view shows.
LEMMA TunedView ==
  ASSUME NEW scn, NEW arr, NEW scn2, NEW arr2, Memory(scn, arr), Shape(scn, arr, scn2, arr2),
         NEW e \in Elems, NEW v, NEW t \in EntriesOf(Document(scn, arr), e),
         Entry(Document(scn2, arr2), t).netChar = v,
         \A s \in Slots(Document(scn, arr)) :
           s # t => Entry(Document(scn2, arr2), s).netChar = Entry(Document(scn, arr), s).netChar
  PROVE  \/ Tree!Tune(View(Document(scn, arr)), View(Document(scn2, arr2)), e, v)
         \/ View(Document(scn2, arr2)) = View(Document(scn, arr))
<1> DEFINE d == Document(scn, arr)
           d2 == Document(scn2, arr2)
<1>1. d \in DocType /\ d2 \in DocType
  BY ShapeMemory, DocumentOf
<1>2. /\ \A s \in Slots(d) : Placed(d2, s) = Placed(d, s)
      /\ \A x : EntriesOf(d2, x) = EntriesOf(d, x)
  BY ShapeSlots
<1>3. /\ Entry(d2, t).netChar = v
      /\ \A s \in Slots(d) : s # t => Entry(d2, s).netChar = Entry(d, s).netChar
      /\ t \in EntriesOf(d, e) /\ t \in Slots(d) /\ Entry(d, t).name = e
  BY DEF EntriesOf
<1> HIDE DEF d, d2
<1>4. ASSUME NEW x \in Elems, NEW s, EntriesOf(d, x) = {s}
      PROVE  /\ s \in Slots(d) /\ Entry(d, s).name = x
             /\ View(d).at[x] = Placed(d, s) /\ View(d).netChar[x] = Entry(d, s).netChar
             /\ View(d2).at[x] = Placed(d, s) /\ View(d2).netChar[x] = Entry(d2, s).netChar
  <2>1. s \in Slots(d) /\ Entry(d, s).name = x
    BY <1>4 DEF EntriesOf
  <2>2. View(d).at[x] = Placed(d, s) /\ View(d).netChar[x] = Entry(d, s).netChar
    BY <1>4, ViewIs
  <2>3. View(d2).at[x] = Placed(d2, s) /\ View(d2).netChar[x] = Entry(d2, s).netChar
    BY <1>2, <1>4, ViewIs
  <2> QED BY <1>2, <2>1, <2>2, <2>3
<1>5. ASSUME NEW x \in Elems, \A s : EntriesOf(d, x) # {s}
      PROVE  /\ View(d).at[x] = NoPlace /\ View(d).netChar[x] = Value0
             /\ View(d2).at[x] = NoPlace /\ View(d2).netChar[x] = Value0
  <2>1. \A s : EntriesOf(d2, x) # {s}
    BY <1>2, <1>5
  <2> QED BY <1>5, <2>1, ViewIs
<1>6. OthersAlike(d, d2, e)
  <2> SUFFICES ASSUME NEW x \in Elems, x # e
               PROVE  View(d2).at[x] = View(d).at[x] /\ View(d2).netChar[x] = View(d).netChar[x]
    BY DEF OthersAlike
  <2>1. CASE \E s : EntriesOf(d, x) = {s}
    <3>1. PICK s : EntriesOf(d, x) = {s}
      BY <2>1
    <3>2. s \in Slots(d) /\ s # t
      BY <1>3, <1>4, <3>1
    <3> QED BY <1>3, <1>4, <3>1, <3>2
  <2>2. CASE \A s : EntriesOf(d, x) # {s}
    BY <1>5, <2>2
  <2> QED BY <2>1, <2>2
<1>7. CASE \E s : EntriesOf(d, e) = {s}
  <2>1. EntriesOf(d, e) = {t}
    BY <1>3, <1>7
  <2>2. View(d).at[e] = Placed(d, t) /\ View(d2).at[e] = Placed(d, t) /\ View(d2).netChar[e] = v
    BY <1>3, <1>4, <2>1
  <2>3. Placed(d, t) # NoPlace
    <3>1. Placed(d, t) \in NLs \cup PLs
      BY <1>1, <1>3, EntryKind DEF Placed, Shown
    <3> QED BY <3>1, ModelAssumption DEF ModelAssumption
  <2>4. Tree!Tune(View(d), View(d2), e, v)
    BY <1>1, <1>6, <2>2, <2>3, ViewChanged
  <2> QED BY <2>4 DEF d, d2
<1>8. CASE \A s : EntriesOf(d, e) # {s}
  <2>1. View(d2).at[e] = View(d).at[e] /\ View(d2).netChar[e] = View(d).netChar[e]
    BY <1>5, <1>8
  <2>2. \A x \in Elems : View(d2).at[x] = View(d).at[x] /\ View(d2).netChar[x] = View(d).netChar[x]
    BY <1>6, <2>1 DEF OthersAlike
  <2>3. View(d2) = View(d)
    BY <1>1, <2>2, ViewSame
  <2> QED BY <2>3 DEF d, d2
<1> QED BY <1>7, <1>8

\* The characteristics of a location, and of a process.
Tunes(scn, scn2, n, i, v) == scn2 = [scn EXCEPT ![n][i].netChar = v]

\* New characteristics of a location are those of its element in the view.
LEMMA TunedLocation ==
  ASSUME NEW scn, NEW arr, NEW scn2, Memory(scn, arr), NamesApart, NEW v \in Values,
         NEW n \in NLs, NEW i \in 1 .. Len(scn[n]),
         Tunes(scn, scn2, n, i, v)
  PROVE  /\ Shape(scn, arr, scn2, arr)
         /\ \/ Tree!Tune(View(Document(scn, arr)), View(Document(scn2, arr)), scn[n][i].name, v)
            \/ View(Document(scn2, arr)) = View(Document(scn, arr))
<1> DEFINE d == Document(scn, arr)
           d2 == Document(scn2, arr)
           e == scn[n][i].name
           t == <<n, i, 0>>
<1>1. scn \in [NLs -> Seq(PhyLoc)] /\ arr \in Seq(Seq(Item))
  BY DEF Memory
<1>2. scn[n][i] \in PhyLoc
  BY ShowingType
<1> DEFINE y == [scn[n][i] EXCEPT !.netChar = v]
<1>3. /\ y \in PhyLoc /\ y.name = scn[n][i].name /\ y.array = scn[n][i].array
      /\ y.len = scn[n][i].len /\ y.netChar = v
  BY <1>2 DEF PhyLoc
<1>4. scn2 = [scn EXCEPT ![n] = [scn[n] EXCEPT ![i] = y]]
  BY DEF Tunes
<1> HIDE DEF y
<1>5. /\ scn2 \in [NLs -> Seq(PhyLoc)]
      /\ \A m \in NLs : Len(scn2[m]) = Len(scn[m])
      /\ \A m \in NLs : \A k \in 1 .. Len(scn[m]) :
           scn2[m][k] = IF m = n /\ k = i THEN y ELSE scn[m][k]
  <2>1. /\ [scn[n] EXCEPT ![i] = y] \in Seq(PhyLoc) /\ Len([scn[n] EXCEPT ![i] = y]) = Len(scn[n])
        /\ \A k \in 1 .. Len(scn[n]) : [scn[n] EXCEPT ![i] = y][k] = IF k = i THEN y ELSE scn[n][k]
    BY <1>1, <1>3, ExceptSeq
  <2> DEFINE z == [scn[n] EXCEPT ![i] = y]
  <2>2. scn2 = [scn EXCEPT ![n] = z]
    BY <1>4
  <2>3. z \in Seq(PhyLoc) /\ Len(z) = Len(scn[n]) /\ \A k \in 1 .. Len(scn[n]) : z[k] = IF k = i THEN y ELSE scn[n][k]
    BY <2>1
  <2> HIDE DEF z
  <2> QED BY <1>1, <2>2, <2>3
<1>6. Shape(scn, arr, scn2, arr)
  <2>1. ASSUME NEW m \in NLs, NEW k \in 1 .. Len(scn[m])
        PROVE  /\ scn2[m][k].name = scn[m][k].name
               /\ scn2[m][k].array = scn[m][k].array /\ scn2[m][k].len = scn[m][k].len
    BY <1>3, <1>5
  <2> QED BY <1>1, <1>5, <2>1 DEF Shape
<1>7. Memory(scn2, arr)
  BY <1>6, ShapeMemory
<1>8. d \in DocType /\ \A m \in NLs : /\ Len(d[m]) = Len(scn[m])
                     /\ \A k \in 1 .. Len(scn[m]) : d[m][k] = Showing(scn[m][k], arr)
  BY DocumentShows
<1>9. d2 \in DocType /\ \A m \in NLs : /\ Len(d2[m]) = Len(scn2[m])
                     /\ \A k \in 1 .. Len(scn2[m]) : d2[m][k] = Showing(scn2[m][k], arr)
  BY <1>7, DocumentShows
<1>10. Slots(d2) = Slots(d)
  BY <1>6, ShapeSlots
<1> HIDE DEF d, d2
<1>11. /\ i \in 1 .. Len(d[n]) /\ i \in 1 .. Len(d2[n])
       /\ d[n][i].name = e /\ d2[n][i].netChar = v
  <2>1. i \in 1 .. Len(d[n]) /\ i \in 1 .. Len(d2[n]) /\ i \in 1 .. Len(scn2[n])
    BY <1>5, <1>8, <1>9
  <2>2. d[n][i] = Showing(scn[n][i], arr) /\ d2[n][i] = Showing(scn2[n][i], arr)
    BY <1>8, <1>9, <2>1
  <2>3. scn2[n][i] = y
    BY <1>5
  <2> QED BY <1>3, <2>1, <2>2, <2>3, ShowingIs
<1>12. t \in EntriesOf(d, e) /\ Entry(d2, t).netChar = v
  <2>1. t \in Slots(d) /\ Entry(d, t) = d[n][i]
    BY <1>8, <1>11, EntryIs
  <2>2. Entry(d2, t) = d2[n][i]
    BY <1>9, <1>11, EntryIs
  <2> HIDE DEF e, t
  <2> QED BY <1>11, <2>1, <2>2 DEF EntriesOf
<1>13. ASSUME NEW s \in Slots(d), s # t
       PROVE  Entry(d2, s).netChar = Entry(d, s).netChar
  <2>1. /\ s = <<s[1], s[2], s[3]>> /\ s[1] \in NLs /\ s[2] \in 1 .. Len(d[s[1]])
    BY <1>8, EntryKind
  <2>2. s[2] \in 1 .. Len(scn[s[1]]) /\ s[2] \in 1 .. Len(scn2[s[1]])
    BY <1>5, <1>8, <2>1
  <2>3. d[s[1]][s[2]] = Showing(scn[s[1]][s[2]], arr) /\ d2[s[1]][s[2]] = Showing(scn2[s[1]][s[2]], arr)
    BY <1>8, <1>9, <2>1, <2>2
  <2>4. CASE s[1] = n /\ s[2] = i
    <3>1. s[3] # 0
      BY <1>13, <2>1, <2>4
    <3>2. d2[s[1]][s[2]].procs = d[s[1]][s[2]].procs
      BY <1>3, <1>5, <2>3, <2>4 DEF Showing
    <3> QED BY <3>1, <3>2 DEF Entry
  <2>5. CASE ~(s[1] = n /\ s[2] = i)
    <3>1. scn2[s[1]][s[2]] = scn[s[1]][s[2]]
      BY <1>5, <2>1, <2>2, <2>5
    <3>2. d2[s[1]][s[2]] = d[s[1]][s[2]]
      BY <2>3, <3>1
    <3> QED BY <3>2 DEF Entry
  <2> QED BY <2>4, <2>5
<1>14. e \in Elems
  BY <1>2 DEF PhyLoc, Elems
<1> HIDE DEF e, t
<1>15. \/ Tree!Tune(View(d), View(d2), e, v)
       \/ View(d2) = View(d)
  <2>1. \/ Tree!Tune(View(Document(scn, arr)), View(Document(scn2, arr)), e, v)
        \/ View(Document(scn2, arr)) = View(Document(scn, arr))
    BY <1>6, <1>12, <1>13, <1>14, TunedView DEF d, d2
  <2> QED BY <2>1 DEF d, d2
<1> QED BY <1>6, <1>15 DEF d, d2, e

\* The characteristics of one cell change, and all other cells are as they were.
TunesCell(arr, arr2, a, j, v) == arr2 = [arr EXCEPT ![a][j].netChar = v]

OnlyCell(arr, arr2, a, j, v) ==
  /\ arr2[a][j].netChar = v
  /\ \A b \in 1 .. Len(arr) : \A k \in 1 .. Len(arr[b]) :
       ~(b = a /\ k = j) => arr2[b][k] = arr[b][k]

\* New characteristics in one cell are a change of characteristics only.
LEMMA CellShape ==
  ASSUME NEW scn, NEW arr, NEW arr2, Memory(scn, arr), NEW v \in Values,
         NEW a \in 1 .. Len(arr), NEW j \in 1 .. Len(arr[a]), TunesCell(arr, arr2, a, j, v)
  PROVE  Shape(scn, arr, scn, arr2) /\ OnlyCell(arr, arr2, a, j, v)
<1>1. scn \in [NLs -> Seq(PhyLoc)] /\ arr \in Seq(Seq(Item))
  BY DEF Memory
<1>2. arr[a] \in Seq(Item)
  BY <1>1, ElementOfSeq
<1>3. arr[a][j] \in Item
  BY <1>2, ElementOfSeq
<1> DEFINE y == [arr[a][j] EXCEPT !.netChar = v]
           z == [arr[a] EXCEPT ![j] = y]
<1>4. y \in Item /\ y.name = arr[a][j].name /\ y.netChar = v
  BY <1>3 DEF Item
<1>5. arr2 = [arr EXCEPT ![a] = z]
  BY DEF TunesCell
<1> HIDE DEF y
<1>6. /\ z \in Seq(Item) /\ Len(z) = Len(arr[a])
      /\ \A k \in 1 .. Len(arr[a]) : z[k] = IF k = j THEN y ELSE arr[a][k]
  BY <1>2, <1>4, ExceptSeq
<1> HIDE DEF z
<1>7. /\ arr2 \in Seq(Seq(Item)) /\ Len(arr2) = Len(arr)
      /\ \A b \in 1 .. Len(arr) : arr2[b] = IF b = a THEN z ELSE arr[b]
  BY <1>1, <1>5, <1>6, ExceptSeq
<1>8. \A b \in 1 .. Len(arr) :
        /\ Len(arr2[b]) = Len(arr[b])
        /\ \A k \in 1 .. Len(arr[b]) : arr2[b][k] = IF b = a /\ k = j THEN y ELSE arr[b][k]
  BY <1>6, <1>7
<1>9. \A b \in 1 .. Len(arr) : \A k \in 1 .. Len(arr[b]) : arr2[b][k].name = arr[b][k].name
  BY <1>4, <1>8
<1>10. Shape(scn, arr, scn, arr2)
  BY <1>1, <1>7, <1>8, <1>9 DEF Shape
<1> QED BY <1>4, <1>8, <1>10 DEF OnlyCell

\* New characteristics of a process are those of its element in the view.
LEMMA TunedProcess ==
  ASSUME NEW scn, NEW arr, NEW arr2, Memory(scn, arr), NamesApart, NEW v \in Values, NEW e \in Procs,
         NEW n \in NLs, NEW i \in 1 .. Len(scn[n]), NEW j \in 1 .. scn[n][i].len,
         scn[n][i].array \in 1 .. Len(arr), j \in 1 .. Len(arr[scn[n][i].array]),
         arr[scn[n][i].array][j].name = e, TunesCell(arr, arr2, scn[n][i].array, j, v)
  PROVE  \/ Tree!Tune(View(Document(scn, arr)), View(Document(scn, arr2)), e, v)
         \/ View(Document(scn, arr2)) = View(Document(scn, arr))
<1> DEFINE d == Document(scn, arr)
           d2 == Document(scn, arr2)
           t == <<n, i, j>>
           a == scn[n][i].array
<1>1. /\ Shape(scn, arr, scn, arr2) /\ arr2[a][j].netChar = v
      /\ \A b \in 1 .. Len(arr) : \A k \in 1 .. Len(arr[b]) :
              ~(b = a /\ k = j) => arr2[b][k] = arr[b][k]
  <2>1. a \in 1 .. Len(arr) /\ j \in 1 .. Len(arr[a]) /\ TunesCell(arr, arr2, a, j, v)
    OBVIOUS
  <2> HIDE DEF a
  <2>2. Shape(scn, arr, scn, arr2) /\ OnlyCell(arr, arr2, a, j, v)
    BY <2>1, CellShape
  <2> QED BY <2>2, Zenon DEF OnlyCell
<1>2. Memory(scn, arr2)
  BY <1>1, ShapeMemory
<1>3. d \in DocType /\ \A m \in NLs : /\ Len(d[m]) = Len(scn[m])
                     /\ \A k \in 1 .. Len(scn[m]) : d[m][k] = Showing(scn[m][k], arr)
  BY DocumentShows
<1>4. d2 \in DocType /\ \A m \in NLs : /\ Len(d2[m]) = Len(scn[m])
                     /\ \A k \in 1 .. Len(scn[m]) : d2[m][k] = Showing(scn[m][k], arr2)
  BY <1>2, DocumentShows
<1>5. Slots(d2) = Slots(d)
  BY <1>1, ShapeSlots
<1> HIDE DEF d, d2
<1>6. ASSUME NEW m \in NLs, NEW k \in 1 .. Len(scn[m])
      PROVE  /\ k \in 1 .. Len(d[m]) /\ k \in 1 .. Len(d2[m])
             /\ d[m][k].netChar = d2[m][k].netChar
             /\ Len(d[m][k].procs) = scn[m][k].len /\ Len(d2[m][k].procs) = scn[m][k].len
             /\ \A c \in 1 .. scn[m][k].len : /\ d[m][k].procs[c] = arr[scn[m][k].array][c]
                                              /\ d2[m][k].procs[c] = arr2[scn[m][k].array][c]
  <2>1. k \in 1 .. Len(d[m]) /\ k \in 1 .. Len(d2[m])
    BY <1>3, <1>4
  <2>2. d[m][k] = Showing(scn[m][k], arr) /\ d2[m][k] = Showing(scn[m][k], arr2)
    BY <1>3, <1>4
  <2>3. /\ Len(Showing(scn[m][k], arr).procs) = scn[m][k].len
        /\ \A c \in 1 .. scn[m][k].len : Showing(scn[m][k], arr).procs[c] = arr[scn[m][k].array][c]
    BY ShowingType
  <2>4. /\ Len(Showing(scn[m][k], arr2).procs) = scn[m][k].len
        /\ \A c \in 1 .. scn[m][k].len : Showing(scn[m][k], arr2).procs[c] = arr2[scn[m][k].array][c]
    BY <1>2, ShowingType
  <2> QED BY <2>1, <2>2, <2>3, <2>4, ShowingIs
<1>7. t \in EntriesOf(d, e) /\ Entry(d2, t).netChar = v
  <2>0. /\ i \in 1 .. Len(d[n]) /\ i \in 1 .. Len(d2[n])
        /\ j \in 1 .. Len(d[n][i].procs) /\ j \in 1 .. Len(d2[n][i].procs)
        /\ d[n][i].procs[j].name = e /\ d2[n][i].procs[j].netChar = v
    BY <1>1, <1>6
  <2>1. t \in Slots(d) /\ Entry(d, t) = d[n][i].procs[j]
    BY <1>3, <2>0, EntryIs
  <2>2. Entry(d2, t) = d2[n][i].procs[j]
    BY <1>4, <2>0, EntryIs
  <2> HIDE DEF t
  <2> QED BY <2>0, <2>1, <2>2 DEF EntriesOf
<1>8. ASSUME NEW s \in Slots(d), s # t
      PROVE  Entry(d2, s).netChar = Entry(d, s).netChar
  <2>1. /\ s = <<s[1], s[2], s[3]>> /\ s[1] \in NLs /\ s[2] \in 1 .. Len(d[s[1]])
        /\ s[3] # 0 => s[3] \in 1 .. Len(d[s[1]][s[2]].procs)
    BY <1>3, EntryKind
  <2> DEFINE m == s[1]
             k == s[2]
             c == s[3]
             x == scn[m][k]
  <2>2. m \in NLs /\ k \in 1 .. Len(scn[m])
    BY <1>3, <2>1
  <2>3. CASE c = 0
    <3>1. d[m][k].netChar = d2[m][k].netChar
      BY <1>6, <2>2
    <3> QED BY <2>3, <3>1 DEF Entry
  <2>4. CASE c # 0
    <3>1. c \in 1 .. x.len /\ d[m][k].procs[c] = arr[x.array][c] /\ d2[m][k].procs[c] = arr2[x.array][c]
      <4>1. c \in 1 .. Len(d[m][k].procs)
        BY <2>1, <2>4
      <4> HIDE DEF m, k, c
      <4>2. /\ Len(d[m][k].procs) = x.len
            /\ \A b \in 1 .. x.len : d[m][k].procs[b] = arr[x.array][b] /\ d2[m][k].procs[b] = arr2[x.array][b]
        BY <1>6, <2>2
      <4> HIDE DEF x
      <4> QED BY <4>1, <4>2
    <3>2. x \in PhyLoc /\ x.array \in 0 .. Len(arr) /\ (x.array = 0 => x.len = 0)
          /\ (x.array # 0 => x.len <= Len(arr[x.array]))
      <4> HIDE DEF m, k
      <4>1. Fits(x, arr)
        BY <2>2 DEF Memory, Slices
      <4>2. x \in PhyLoc
        BY <2>2, ShowingType
      <4> HIDE DEF x
      <4> QED BY <4>1, <4>2 DEF Fits
    <3>3. ~(x.array = a /\ c = j)
      <4> SUFFICES ASSUME x.array = a, c = j PROVE FALSE
        OBVIOUS
      <4>1. a # 0
        OBVIOUS
      <4>2. m = n /\ k = i
        <5>1. scn[m][k].array = scn[n][i].array /\ scn[m][k].array # 0
          BY <4>1
        <5>2. Apart(scn)
          BY DEF Memory
        <5> HIDE DEF m, k, x, a
        <5> QED BY <2>2, <5>1, <5>2, SameLocation
      <4> QED BY <1>8, <2>1, <4>2
    <3>4. x.array \in 1 .. Len(arr) /\ c \in 1 .. Len(arr[x.array])
      <4>1. x.len \in Nat /\ x.array \in Nat
        BY <3>2 DEF PhyLoc
      <4>2. Len(arr) \in Nat
        BY DEF Memory
      <4> HIDE DEF x, c
      <4>3. x.array \in 1 .. Len(arr)
        BY <3>1, <3>2, <4>1, <4>2
      <4>4. Len(arr[x.array]) \in Nat
        BY <4>3 DEF Memory
      <4> QED BY <3>1, <3>2, <4>1, <4>3, <4>4
    <3>5. arr2[x.array][c] = arr[x.array][c]
      <4> HIDE DEF x, c, a
      <4> QED BY <1>1, <3>3, <3>4
    <3>6. d2[m][k].procs[c] = d[m][k].procs[c]
      <4> HIDE DEF x, c, a, m, k
      <4> QED BY <3>1, <3>5
    <3> QED BY <2>4, <3>6 DEF Entry
  <2> QED BY <2>3, <2>4
<1>9. e \in Elems
  BY DEF Elems
<1> HIDE DEF t
<1>10. \/ Tree!Tune(View(Document(scn, arr)), View(Document(scn, arr2)), e, v)
       \/ View(Document(scn, arr2)) = View(Document(scn, arr))
  BY <1>1, <1>7, <1>8, <1>9, TunedView DEF d, d2
<1> QED BY <1>10

\* A request that leaves the view as it is: a move to the place of a location.
LEMMA SelfMove ==
  ASSUME NEW scn, NEW arr, Memory(scn, arr), NamesApart, NEW n \in NLs, NEW i \in 1 .. Len(scn[n])
  PROVE  Tree!MoveSome(View(Document(scn, arr)), View(Document(scn, arr)))
<1> DEFINE view == View(Document(scn, arr))
           e == scn[n][i].name
<1>1. e \in Elems /\ n # NoPlace
  <2>1. e \in Elems
    BY ShowingType DEF PhyLoc, Elems
  <2>2. n # NoPlace
    BY ModelAssumption DEF ModelAssumption
  <2> QED BY <2>1, <2>2
<1>2. view.at[e] = n
  BY PlaceOf
<1>3. view \in Tree!Document
  BY DocumentOf, ViewType
<1> HIDE DEF view, e
<1>4. view = [at |-> view.at, netChar |-> view.netChar] /\ view.at = [view.at EXCEPT ![e] = n]
  BY <1>1, <1>2, <1>3 DEF Tree!Document
<1>5. view = [view EXCEPT !.at[e] = n]
  BY <1>4
<1>6. Tree!Move(view, view, e, n)
  BY <1>1, <1>2, <1>5 DEF Tree!Move
<1>7. n \in NLs \cup PLs
  OBVIOUS
<1>8. Tree!MoveSome(view, view)
  BY <1>1, <1>6, <1>7, Zenon DEF Tree!MoveSome
<1> QED BY <1>8 DEF view

\* A request for new characteristics.
LEMMA UpdateStep ==
  ASSUME Inv, NamesApart, NEW e, NEW v \in Values, UpdateNetChar(e, v)
  PROVE  /\ Inv' /\ (NodeMapFresh => NodeMapFresh') /\ e \in Elems
         /\ NodeMapFresh =>
              \/ Tree!Tune(View(Document(scenario, arrays)), View(Document(scenario', arrays')), e, v)
              \/ Tree!MoveSome(View(Document(scenario, arrays)), View(Document(scenario', arrays')))
<1> DEFINE a == nodeMap[e].object[1]
           j == nodeMap[e].object[2]
<1>1. e \in DOMAIN nodeMap /\ nodeMap' = nodeMap /\ published' = Document(scenario', arrays')
  BY DEF UpdateNetChar, Refresh
<1>2. \/ e \in PLs /\ Tunes(scenario, scenario', a, j, v) /\ arrays' = arrays
      \/ e \in Procs /\ TunesCell(arrays, arrays', a, j, v) /\ scenario' = scenario
  BY DEF UpdateNetChar, Tunes, TunesCell
<1>3. Memory(scenario, arrays) /\ Nodes(scenario, arrays, nodeMap) /\ e \in Elems
  BY <1>1 DEF Inv, Nodes
<1>4. ASSUME Shape(scenario, arrays, scenario', arrays')
      PROVE  Inv' /\ (NodeMapFresh => NodeMapFresh')
  <2>1. Memory(scenario', arrays') /\ Nodes(scenario', arrays', nodeMap')
    BY <1>1, <1>3, <1>4, ShapeMemory, ShapeNodes
  <2>2. ParseNodes(scenario', arrays') = ParseNodes(scenario, arrays)
    BY <1>3, <1>4, ShapeParse
  <2> QED BY <1>1, <2>1, <2>2 DEF Inv, NodeMapFresh
<1>5. CASE e \in PLs /\ Tunes(scenario, scenario', a, j, v) /\ arrays' = arrays
  <2>1. PICK n \in NLs : \E i \in 1 .. Len(scenario[n]) :
           scenario[n][i].name = e /\ nodeMap[e].object = <<n, i>> /\ nodeMap[e].parent = n
    BY <1>1, <1>3, <1>5, NodeOfLocation
  <2>2. PICK i \in 1 .. Len(scenario[n]) :
           scenario[n][i].name = e /\ nodeMap[e].object = <<n, i>> /\ nodeMap[e].parent = n
    BY <2>1
  <2>3. Tunes(scenario, scenario', n, i, v)
    BY <1>5, <2>2
  <2>4. /\ Shape(scenario, arrays, scenario', arrays)
        /\ \/ Tree!Tune(View(Document(scenario, arrays)), View(Document(scenario', arrays)), scenario[n][i].name, v)
           \/ View(Document(scenario', arrays)) = View(Document(scenario, arrays))
    BY <1>3, <2>3, TunedLocation
  <2>5. Tree!MoveSome(View(Document(scenario, arrays)), View(Document(scenario, arrays)))
    BY <1>3, SelfMove
  <2> HIDE DEF a, j
  <2> QED BY <1>3, <1>4, <1>5, <2>2, <2>4, <2>5
<1>6. CASE e \in Procs /\ TunesCell(arrays, arrays', a, j, v) /\ scenario' = scenario
  <2>1. PICK b \in 1 .. Len(arrays) : \E k \in 1 .. Len(arrays[b]) :
           arrays[b][k].name \in Procs /\ nodeMap[e].object = <<b, k>>
    BY <1>1, <1>3, <1>6 DEF Nodes, ProcNodes
  <2>2. PICK k \in 1 .. Len(arrays[b]) : nodeMap[e].object = <<b, k>>
    BY <2>1
  <2>3. TunesCell(arrays, arrays', b, k, v)
    BY <1>6, <2>2
  <2>4. Shape(scenario, arrays, scenario, arrays')
    BY <1>3, <2>3, CellShape
  <2>5. ASSUME NodeMapFresh
        PROVE  \/ Tree!Tune(View(Document(scenario, arrays)), View(Document(scenario, arrays')), e, v)
               \/ Tree!MoveSome(View(Document(scenario, arrays)), View(Document(scenario, arrays')))
    <3>1. ProcAt(scenario, arrays, e, nodeMap[e])
      BY <1>1, <1>3, <1>6, <2>5, ParsedEntry DEF NodeMapFresh
    <3>2. PICK n \in NLs : \E i \in 1 .. Len(scenario[n]) : \E c \in 1 .. scenario[n][i].len :
              /\ scenario[n][i].array \in 1 .. Len(arrays) /\ c \in 1 .. Len(arrays[scenario[n][i].array])
              /\ arrays[scenario[n][i].array][c].name = e
              /\ nodeMap[e].object = <<scenario[n][i].array, c>>
      BY <3>1 DEF ProcAt
    <3>3. PICK i \in 1 .. Len(scenario[n]) : \E c \in 1 .. scenario[n][i].len :
              /\ scenario[n][i].array \in 1 .. Len(arrays) /\ c \in 1 .. Len(arrays[scenario[n][i].array])
              /\ arrays[scenario[n][i].array][c].name = e
              /\ nodeMap[e].object = <<scenario[n][i].array, c>>
      BY <3>2
    <3>4. PICK c \in 1 .. scenario[n][i].len :
              /\ scenario[n][i].array \in 1 .. Len(arrays) /\ c \in 1 .. Len(arrays[scenario[n][i].array])
              /\ arrays[scenario[n][i].array][c].name = e
              /\ nodeMap[e].object = <<scenario[n][i].array, c>>
      BY <3>3
    <3>5. TunesCell(arrays, arrays', scenario[n][i].array, c, v)
      BY <1>6, <3>4
    <3>6. \/ Tree!Tune(View(Document(scenario, arrays)), View(Document(scenario, arrays')), e, v)
          \/ View(Document(scenario, arrays')) = View(Document(scenario, arrays))
      BY <1>3, <1>6, <3>4, <3>5, TunedProcess
    <3>7. Tree!MoveSome(View(Document(scenario, arrays)), View(Document(scenario, arrays)))
      BY <1>3, SelfMove
    <3> QED BY <3>6, <3>7
  <2> HIDE DEF a, j
  <2> QED BY <1>3, <1>4, <1>6, <2>4, <2>5
<1> QED BY <1>2, <1>5, <1>6

-----------------------------------------------------------------------------
(* The slices of processes.                                                *)

\* One location has another slice, of an array A of its own.
Resized(scn, arr, scn2, arr2, m, k, A) ==
  /\ scn2 \in [NLs -> Seq(PhyLoc)] /\ arr2 \in Seq(Seq(Item))
  /\ \A n \in NLs :
       /\ Len(scn2[n]) = Len(scn[n])
       /\ \A i \in 1 .. Len(scn[n]) : ~(n = m /\ i = k) => scn2[n][i] = scn[n][i]
  /\ scn2[m][k].name = scn[m][k].name /\ scn2[m][k].netChar = scn[m][k].netChar
  /\ scn2[m][k].array = A /\ A \in 1 .. Len(arr2)
  /\ A = scn[m][k].array \/ A = Len(arr) + 1
  /\ scn2[m][k].len <= Len(arr2[A])
  /\ \A j \in 1 .. scn2[m][k].len : arr2[A][j].name \in Procs
  /\ Len(arr) <= Len(arr2)
  /\ \A a \in 1 .. Len(arr) : a # scn[m][k].array => arr2[a] = arr[a]

\* The others are as they were.
OthersShow(scn, arr, scn2, arr2, m, k) ==
  \A n \in NLs : \A i \in 1 .. Len(scn[n]) : ~(n = m /\ i = k) =>
    Showing(scn2[n][i], arr2) = Showing(scn[n][i], arr)

\* Another location has another array, or none.
LEMMA OtherArray ==
  ASSUME NEW scn, NEW arr, Memory(scn, arr),
         NEW m \in NLs, NEW k \in 1 .. Len(scn[m]), NEW n \in NLs, NEW i \in 1 .. Len(scn[n]),
         ~(n = m /\ i = k)
  PROVE  /\ scn[n][i].array \in 0 .. Len(arr) /\ Len(arr) \in Nat
         /\ scn[n][i].array # 0 => scn[n][i].array \in 1 .. Len(arr) /\ scn[n][i].array # scn[m][k].array
<1>1. Fits(scn[n][i], arr) /\ Len(arr) \in Nat
  BY DEF Memory, Slices
<1>2. scn[n][i].array \in 0 .. Len(arr)
  BY <1>1 DEF Fits
<1>3. scn[n][i].array # 0 => scn[n][i].array # scn[m][k].array
  BY SameLocation DEF Memory
<1> DEFINE a == scn[n][i].array
<1>4. a \in 0 .. Len(arr) /\ (a # 0 => a # scn[m][k].array)
  BY <1>2, <1>3
<1> HIDE DEF a
<1>5. a # 0 => a \in 1 .. Len(arr)
  BY <1>1, <1>4
<1> QED BY <1>1, <1>4, <1>5 DEF a

\* A slice that is changed in an array of its own keeps memory right, and what the
\* other locations show.
LEMMA ResizedMemory ==
  ASSUME NEW scn, NEW arr, NEW scn2, NEW arr2, Memory(scn, arr),
         NEW m \in NLs, NEW k \in 1 .. Len(scn[m]), NEW A, Resized(scn, arr, scn2, arr2, m, k, A)
  PROVE  Memory(scn2, arr2) /\ OthersShow(scn, arr, scn2, arr2, m, k)
<1>1. ASSUME NEW n \in NLs, NEW i \in 1 .. Len(scn[n]), ~(n = m /\ i = k)
      PROVE  /\ scn2[n][i] = scn[n][i] /\ Fits(scn[n][i], arr) /\ scn[n][i] \in PhyLoc
             /\ scn[n][i].array \in 0 .. Len(arr)
             /\ scn[n][i].array # 0 => arr2[scn[n][i].array] = arr[scn[n][i].array]
  <2>1. scn2[n][i] = scn[n][i]
    BY <1>1 DEF Resized
  <2>2. Fits(scn[n][i], arr)
    BY DEF Memory, Slices
  <2>3. scn[n][i].array \in 0 .. Len(arr)
        /\ (scn[n][i].array # 0 => scn[n][i].array \in 1 .. Len(arr) /\ scn[n][i].array # scn[m][k].array)
    BY <1>1, OtherArray
  <2>4. \A a \in 1 .. Len(arr) : a # scn[m][k].array => arr2[a] = arr[a]
    BY DEF Resized
  <2>5. scn[n][i].array # 0 => arr2[scn[n][i].array] = arr[scn[n][i].array]
    BY <2>3, <2>4
  <2>6. scn[n][i] \in PhyLoc
    BY ShowingType
  <2> QED BY <2>1, <2>2, <2>3, <2>5, <2>6
<1>2. Slices(scn2, arr2)
  <2>0. SUFFICES ASSUME NEW n \in NLs, NEW i \in 1 .. Len(scn2[n]) PROVE Fits(scn2[n][i], arr2)
    BY DEF Slices
  <2>1. i \in 1 .. Len(scn[n])
    BY DEF Resized
  <2>2. CASE n = m /\ i = k
    <3>1. /\ scn2[m][k].array = A /\ A \in 1 .. Len(arr2) /\ scn2[m][k].len <= Len(arr2[A])
          /\ \A j \in 1 .. scn2[m][k].len : arr2[A][j].name \in Procs
          /\ Len(arr2) \in Nat
      BY DEF Resized
    <3>2. A \in 0 .. Len(arr2) /\ A # 0
      BY <3>1
    <3> QED BY <2>2, <3>1, <3>2 DEF Fits
  <2>3. CASE ~(n = m /\ i = k)
    <3> DEFINE x == scn[n][i]
    <3>1. /\ scn2[n][i] = x /\ Fits(x, arr) /\ x \in PhyLoc
          /\ x.array \in 0 .. Len(arr)
          /\ x.array # 0 => arr2[x.array] = arr[x.array]
      BY <1>1, <2>1, <2>3
    <3>2. Len(arr) <= Len(arr2) /\ Len(arr) \in Nat /\ Len(arr2) \in Nat
      BY DEF Resized, Memory
    <3> HIDE DEF x
    <3>3. x.array \in 0 .. Len(arr2)
      BY <3>1, <3>2
    <3>4. CASE x.array = 0
      <4>1. x.len = 0 /\ 1 .. x.len = {}
        BY <3>1, <3>4 DEF Fits
      <4> QED BY <3>1, <3>3, <3>4, <4>1 DEF Fits
    <3>5. CASE x.array # 0
      BY <3>1, <3>3, <3>5 DEF Fits
    <3> QED BY <3>4, <3>5
  <2> QED BY <2>2, <2>3
<1>3. Apart(scn2)
  <2>0. SUFFICES ASSUME NEW n \in NLs, NEW b \in NLs, NEW i \in 1 .. Len(scn2[n]), NEW c \in 1 .. Len(scn2[b]),
                      \/ scn2[n][i].name = scn2[b][c].name
                      \/ scn2[n][i].array = scn2[b][c].array /\ scn2[n][i].array # 0
               PROVE  n = b /\ i = c
    BY DEF Apart
  <2>1. i \in 1 .. Len(scn[n]) /\ c \in 1 .. Len(scn[b])
    BY DEF Resized
  <2>2. /\ scn2[m][k].name = scn[m][k].name /\ scn2[m][k].array = A
        /\ A = scn[m][k].array \/ A = Len(arr) + 1
        /\ A \in 1 .. Len(arr2)
    BY DEF Resized
  <2>3. A # 0 /\ Len(arr) \in Nat
    BY <2>2 DEF Memory
  <2>4. ASSUME NEW q \in NLs, NEW r \in 1 .. Len(scn[q]), ~(q = m /\ r = k)
        PROVE  scn2[q][r] = scn[q][r] /\ scn[q][r].name # scn[m][k].name /\ scn[q][r].array # A
    <3>1. scn2[q][r] = scn[q][r]
      BY <1>1, <2>4
    <3>2. scn[q][r].name # scn[m][k].name
      BY <2>4, SameLocation DEF Memory
    <3>3. scn[q][r].array \in 0 .. Len(arr)
          /\ (scn[q][r].array # 0 => scn[q][r].array # scn[m][k].array)
      BY <2>4, OtherArray
    <3> DEFINE a == scn[q][r].array
    <3>4. a \in 0 .. Len(arr) /\ (a # 0 => a # scn[m][k].array)
      BY <3>3
    <3> HIDE DEF a
    <3>5. a # A
      BY <2>2, <2>3, <3>4
    <3> QED BY <3>1, <3>2, <3>5 DEF a
  <2>5. CASE n = m /\ i = k
    <3>1. CASE b = m /\ c = k
      BY <2>5, <3>1
    <3>2. CASE ~(b = m /\ c = k)
      BY <2>0, <2>1, <2>2, <2>4, <2>5, <3>2
    <3> QED BY <3>1, <3>2
  <2>6. CASE ~(n = m /\ i = k)
    <3>1. CASE b = m /\ c = k
      BY <2>0, <2>1, <2>2, <2>4, <2>6, <3>1
    <3>2. CASE ~(b = m /\ c = k)
      <4>1. scn2[n][i] = scn[n][i] /\ scn2[b][c] = scn[b][c]
        BY <2>1, <2>4, <2>6, <3>2
      <4> QED BY <2>0, <2>1, <4>1, SameLocation DEF Memory
    <3> QED BY <3>1, <3>2
  <2> QED BY <2>5, <2>6
<1>4. Memory(scn2, arr2)
  BY <1>2, <1>3 DEF Memory, Resized
<1>5. OthersShow(scn, arr, scn2, arr2, m, k)
  <2> SUFFICES ASSUME NEW n \in NLs, NEW i \in 1 .. Len(scn[n]), ~(n = m /\ i = k)
               PROVE  Showing(scn2[n][i], arr2) = Showing(scn[n][i], arr)
    BY DEF OthersShow
  <2>1. /\ scn2[n][i] = scn[n][i]
        /\ scn[n][i].array # 0 => arr2[scn[n][i].array] = arr[scn[n][i].array]
    BY <1>1
  <2> QED BY <2>1 DEF Showing
<1> QED BY <1>4, <1>5

\* One location, or one cell, is written.
LocPut(scn, m, k, y)  == [scn EXCEPT ![m] = [scn[m] EXCEPT ![k] = y]]
CellPut(arr, a, j, y) == [arr EXCEPT ![a] = [arr[a] EXCEPT ![j] = y]]

\* What the write does, and what it leaves alone.
LocIs(scn, scn2, m, k, y) ==
  /\ scn2 \in [NLs -> Seq(PhyLoc)] /\ scn2[m][k] = y
  /\ \A n \in NLs :
       /\ Len(scn2[n]) = Len(scn[n])
       /\ \A i \in 1 .. Len(scn[n]) : ~(n = m /\ i = k) => scn2[n][i] = scn[n][i]

CellIs(arr, arr2, a, j, y) ==
  /\ arr2 \in Seq(Seq(Item)) /\ Len(arr2) = Len(arr)
  /\ \A b \in 1 .. Len(arr) : Len(arr2[b]) = Len(arr[b]) /\ (b # a => arr2[b] = arr[b])
  /\ \A i \in 1 .. Len(arr[a]) : arr2[a][i] = IF i = j THEN y ELSE arr[a][i]

\* Writing one location changes that location, ...
LEMMA OneLocation ==
  ASSUME NEW scn \in [NLs -> Seq(PhyLoc)], NEW m \in NLs, NEW k \in 1 .. Len(scn[m]), NEW y \in PhyLoc
  PROVE  LocIs(scn, LocPut(scn, m, k, y), m, k, y)
<1> DEFINE z == [scn[m] EXCEPT ![k] = y]
<1>1. z \in Seq(PhyLoc) /\ Len(z) = Len(scn[m]) /\ \A i \in 1 .. Len(scn[m]) : z[i] = IF i = k THEN y ELSE scn[m][i]
  BY ExceptSeq
<1> HIDE DEF z
<1> DEFINE scn2 == [scn EXCEPT ![m] = z]
<1>2. scn2 \in [NLs -> Seq(PhyLoc)] /\ scn2[m] = z /\ \A n \in NLs : n # m => scn2[n] = scn[n]
  BY <1>1
<1> HIDE DEF scn2
<1>3. /\ scn2 \in [NLs -> Seq(PhyLoc)] /\ scn2[m][k] = y
      /\ \A n \in NLs :
           /\ Len(scn2[n]) = Len(scn[n])
           /\ \A i \in 1 .. Len(scn[n]) : ~(n = m /\ i = k) => scn2[n][i] = scn[n][i]
  BY <1>1, <1>2
<1>4. LocPut(scn, m, k, y) = scn2
  BY DEF LocPut, scn2, z
<1> QED BY <1>3, <1>4 DEF LocIs

\* ... and writing one cell that cell.
LEMMA OneCell ==
  ASSUME NEW arr \in Seq(Seq(Item)), NEW a \in 1 .. Len(arr), NEW j \in 1 .. Len(arr[a]), NEW y \in Item
  PROVE  CellIs(arr, CellPut(arr, a, j, y), a, j, y)
<1> DEFINE z == [arr[a] EXCEPT ![j] = y]
<1>1. z \in Seq(Item) /\ Len(z) = Len(arr[a]) /\ \A i \in 1 .. Len(arr[a]) : z[i] = IF i = j THEN y ELSE arr[a][i]
  BY ExceptSeq
<1> HIDE DEF z
<1> DEFINE arr2 == [arr EXCEPT ![a] = z]
<1>2. /\ arr2 \in Seq(Seq(Item)) /\ Len(arr2) = Len(arr)
      /\ \A b \in 1 .. Len(arr) : arr2[b] = IF b = a THEN z ELSE arr[b]
  BY <1>1, ExceptSeq
<1> HIDE DEF arr2
<1>3. /\ arr2 \in Seq(Seq(Item)) /\ Len(arr2) = Len(arr)
      /\ \A b \in 1 .. Len(arr) : Len(arr2[b]) = Len(arr[b]) /\ (b # a => arr2[b] = arr[b])
      /\ \A i \in 1 .. Len(arr[a]) : arr2[a][i] = IF i = j THEN y ELSE arr[a][i]
  BY <1>1, <1>2
<1>4. CellPut(arr, a, j, y) = arr2
  BY DEF CellPut, arr2, z
<1> QED BY <1>3, <1>4 DEF CellIs

\* No pointer to a process loses its target.
CellsStay(arr, arr2) ==
  /\ Len(arr) <= Len(arr2)
  /\ \A a \in 1 .. Len(arr) : \A j \in 1 .. Len(arr[a]) :
       j \in 1 .. Len(arr2[a]) /\ (arr[a][j].name \in Procs => arr2[a][j].name \in Procs)

\* The slice of one location has one entry more.
Pushed(scn, arr, scn2, arr2, m, k, item) ==
  LET L == scn[m][k].len
      A == scn2[m][k].array
  IN  /\ scn2[m][k].len = L + 1 /\ arr2[A][L + 1] = item
      /\ \A j \in 1 .. L : arr2[A][j] = arr[scn[m][k].array][j]

\* Where the array has room.
InPlace(scn, arr, scn2, arr2, m, k, item) ==
  /\ scn[m][k].array # 0 /\ scn[m][k].len < Len(arr[scn[m][k].array])
  /\ arr2 = [arr EXCEPT ![scn[m][k].array][scn[m][k].len + 1] = item]
  /\ scn2 = [scn EXCEPT ![m][k].len = @ + 1]

\* An append in place writes behind the slice, where no other slice is.
LEMMA PushInPlace ==
  ASSUME NEW scn, NEW arr, NEW scn2, NEW arr2, Memory(scn, arr), NEW m \in NLs, NEW k \in 1 .. Len(scn[m]),
         NEW item \in Item, item.name \in Procs, InPlace(scn, arr, scn2, arr2, m, k, item)
  PROVE  /\ Resized(scn, arr, scn2, arr2, m, k, scn[m][k].array)
         /\ Pushed(scn, arr, scn2, arr2, m, k, item) /\ CellsStay(arr, arr2)
<1> DEFINE x == scn[m][k]
           A == x.array
           L == x.len
           y == [x EXCEPT !.len = @ + 1]
<1>1. scn \in [NLs -> Seq(PhyLoc)] /\ arr \in Seq(Seq(Item)) /\ Len(arr) \in Nat
  BY DEF Memory
<1>2. x \in PhyLoc
  BY ShowingType
<1>3. y \in PhyLoc /\ y.name = x.name /\ y.netChar = x.netChar /\ y.array = A /\ y.len = L + 1
      /\ A \in Nat /\ L \in Nat
  <2> HIDE DEF x
  <2> QED BY <1>2 DEF PhyLoc
<1>4. Fits(x, arr)
  BY DEF Memory, Slices
<1>5. scn2 = LocPut(scn, m, k, y)
  BY DEF LocPut, InPlace
<1>6. arr2 = CellPut(arr, A, L + 1, item)
  BY DEF CellPut, InPlace
<1>0. A # 0 /\ L < Len(arr[A])
  BY DEF InPlace
<1> HIDE DEF x, A, L, y
<1>7. A \in 1 .. Len(arr) /\ (\A j \in 1 .. L : arr[A][j].name \in Procs)
  BY <1>0, <1>1, <1>3, <1>4 DEF Fits, A, L
<1>8. Len(arr[A]) \in Nat
  BY <1>1, <1>7
<1>9. L + 1 \in 1 .. Len(arr[A])
  BY <1>0, <1>3, <1>8
<1>10. /\ scn2 \in [NLs -> Seq(PhyLoc)] /\ scn2[m][k] = y
       /\ \A n \in NLs :
            /\ Len(scn2[n]) = Len(scn[n])
            /\ \A i \in 1 .. Len(scn[n]) : ~(n = m /\ i = k) => scn2[n][i] = scn[n][i]
  <2>1. LocIs(scn, LocPut(scn, m, k, y), m, k, y)
    BY <1>1, <1>3, OneLocation
  <2> QED BY <1>5, <2>1 DEF LocIs
<1>11. /\ arr2 \in Seq(Seq(Item)) /\ Len(arr2) = Len(arr)
       /\ \A b \in 1 .. Len(arr) : Len(arr2[b]) = Len(arr[b]) /\ (b # A => arr2[b] = arr[b])
       /\ \A i \in 1 .. Len(arr[A]) : arr2[A][i] = IF i = L + 1 THEN item ELSE arr[A][i]
  <2>1. CellIs(arr, CellPut(arr, A, L + 1, item), A, L + 1, item)
    BY <1>1, <1>7, <1>9, OneCell
  <2> QED BY <1>6, <2>1 DEF CellIs
<1>12. arr2[A][L + 1] = item /\ \A j \in 1 .. L : arr2[A][j] = arr[A][j]
  <2>1. \A j \in 1 .. L : j \in 1 .. Len(arr[A]) /\ j # L + 1
    BY <1>0, <1>3, <1>8
  <2> QED BY <1>9, <1>11, <2>1
<1>13. \A j \in 1 .. L + 1 : arr2[A][j].name \in Procs
  <2>1. \A j \in 1 .. L + 1 : j = L + 1 \/ j \in 1 .. L
    BY <1>3
  <2> QED BY <1>7, <1>12, <2>1
<1>14. Resized(scn, arr, scn2, arr2, m, k, A)
  <2>1. A \in 1 .. Len(arr2) /\ Len(arr) <= Len(arr2) /\ L + 1 <= Len(arr2[A])
    <3>1. Len(arr2) = Len(arr) /\ Len(arr2[A]) = Len(arr[A])
      BY <1>7, <1>11
    <3>2. A \in 1 .. Len(arr2) /\ Len(arr) <= Len(arr2)
      BY <1>1, <1>7, <3>1
    <3>3. L + 1 <= Len(arr2[A])
      BY <1>9, <3>1
    <3> QED BY <3>2, <3>3
  <2>2. \A a \in 1 .. Len(arr) : a # x.array => arr2[a] = arr[a]
    BY <1>11 DEF A
  <2> QED BY <1>3, <1>10, <1>11, <1>13, <2>1, <2>2 DEF Resized, A, x
<1>15. Pushed(scn, arr, scn2, arr2, m, k, item)
  BY <1>3, <1>10, <1>12 DEF Pushed, A, L, x
<1>16. CellsStay(arr, arr2)
  <2> SUFFICES ASSUME NEW a \in 1 .. Len(arr), NEW j \in 1 .. Len(arr[a])
               PROVE  j \in 1 .. Len(arr2[a]) /\ (arr[a][j].name \in Procs => arr2[a][j].name \in Procs)
    BY <1>1, <1>11 DEF CellsStay
  <2> QED BY <1>11
<1> QED BY <1>14, <1>15, <1>16 DEF A, x

\* Where it has none: a new array, with a copy.
Behind(scn, arr, m, k) == IF scn[m][k].array = 0 THEN <<>> ELSE arr[scn[m][k].array]

Copied(scn, arr, scn2, arr2, m, k, item) ==
  /\ ~(scn[m][k].len < Len(Behind(scn, arr, m, k)))
  /\ arr2 = Append(arr, Append(Behind(scn, arr, m, k), item)
                          \o Free(IF Len(Behind(scn, arr, m, k)) = 0 THEN 0 ELSE Len(Behind(scn, arr, m, k)) - 1))
  /\ scn2 = [scn EXCEPT ![m][k].len = @ + 1, ![m][k].array = Len(arr) + 1]

\* Cells that were never written are cells.
LEMMA FreeIs ==
  ASSUME NEW n \in Nat
  PROVE  Free(n) \in Seq(Item)
<1>1. Proc(NoProc) \in Item
  BY ModelAssumption DEF ModelAssumption, Proc, Item
<1> QED BY <1>1 DEF Free

\* An append that copies leaves the old array as it was.
LEMMA PushCopied ==
  ASSUME NEW scn, NEW arr, NEW scn2, NEW arr2, Memory(scn, arr), NEW m \in NLs, NEW k \in 1 .. Len(scn[m]),
         NEW item \in Item, item.name \in Procs, Copied(scn, arr, scn2, arr2, m, k, item)
  PROVE  /\ Resized(scn, arr, scn2, arr2, m, k, Len(arr) + 1)
         /\ Pushed(scn, arr, scn2, arr2, m, k, item) /\ CellsStay(arr, arr2)
<1> DEFINE x == scn[m][k]
           L == x.len
           N == Len(arr) + 1
           old == Behind(scn, arr, m, k)
           n == IF Len(old) = 0 THEN 0 ELSE Len(old) - 1
           one == Append(old, item)
           t == one \o Free(n)
           w == [x EXCEPT !.len = @ + 1]
           y == [w EXCEPT !.array = N]
<1>1. scn \in [NLs -> Seq(PhyLoc)] /\ arr \in Seq(Seq(Item)) /\ Len(arr) \in Nat
  BY DEF Memory
<1>2. x \in PhyLoc
  BY ShowingType
<1>3. y \in PhyLoc /\ y.name = x.name /\ y.netChar = x.netChar /\ y.array = N /\ y.len = L + 1 /\ L \in Nat
  <2>1. N \in Nat
    BY <1>1
  <2> HIDE DEF x, N
  <2>2. w \in PhyLoc /\ w.name = x.name /\ w.netChar = x.netChar /\ w.len = x.len + 1 /\ x.len \in Nat
    BY <1>2 DEF PhyLoc
  <2> HIDE DEF w
  <2> QED BY <2>1, <2>2 DEF PhyLoc
<1>4. scn2 = LocPut(scn, m, k, y)
  BY DEF LocPut, Copied
<1>5. ~(L < Len(old)) /\ arr2 = Append(arr, t)
  BY DEF Copied
<1>6. /\ old \in Seq(Item) /\ Len(old) = L
      /\ \A j \in 1 .. L : old[j] = arr[x.array][j] /\ old[j].name \in Procs
  <2>1. Fits(x, arr)
    BY DEF Memory, Slices
  <2>2. x.array \in 0 .. Len(arr) /\ (x.array = 0 => L = 0) /\ (x.array # 0 => L <= Len(arr[x.array]))
        /\ \A j \in 1 .. L : arr[x.array][j].name \in Procs
    BY <2>1 DEF Fits
  <2>3. CASE x.array = 0
    <3>1. old = <<>> /\ 1 .. L = {}
      BY <2>2, <2>3 DEF Behind
    <3> HIDE DEF old, x, L
    <3> QED BY <2>2, <2>3, <3>1
  <2>4. CASE x.array # 0
    <3>1. old = arr[x.array]
      BY <2>4 DEF Behind
    <3> HIDE DEF old, x, L
    <3>2. x.array \in 1 .. Len(arr)
      BY <1>1, <2>2, <2>4
    <3>3. old \in Seq(Item)
      BY <1>1, <3>1, <3>2, ElementOfSeq
    <3>4. Len(old) \in Nat
      BY <3>3
    <3> QED BY <1>3, <1>5, <2>2, <2>4, <3>1, <3>3, <3>4
  <2> QED BY <2>3, <2>4
<1> HIDE DEF y, old
<1>7. /\ one \in Seq(Item) /\ Len(one) = L + 1 /\ one[L + 1] = item
      /\ \A j \in 1 .. L : one[j] = old[j]
  <2>1. /\ Append(old, item) \in Seq(Item) /\ Len(Append(old, item)) = Len(old) + 1
        /\ \A j \in 1 .. Len(old) : Append(old, item)[j] = old[j]
        /\ Append(old, item)[Len(old) + 1] = item
    BY <1>6, AppendProperties
  <2> HIDE DEF x, L
  <2> QED BY <1>6, <2>1
<1>8. n \in Nat
  BY <1>3, <1>6
<1> HIDE DEF one, n
<1>9. /\ t \in Seq(Item) /\ Len(t) >= L + 1 /\ Len(t) \in Nat
      /\ \A j \in 1 .. L + 1 : t[j] = one[j]
  <2>1. Free(n) \in Seq(Item)
    BY <1>8, FreeIs
  <2> DEFINE f == Free(n)
  <2>2. f \in Seq(Item) /\ Len(f) \in Nat
    BY <2>1
  <2> HIDE DEF f
  <2>3. /\ one \o f \in Seq(Item) /\ Len(one \o f) = Len(one) + Len(f)
        /\ \A j \in 1 .. Len(one) + Len(f) : (one \o f)[j] = IF j <= Len(one) THEN one[j] ELSE f[j - Len(one)]
    BY <1>7, <2>2, ConcatProperties
  <2> DEFINE u == one \o f
  <2>4. /\ u \in Seq(Item) /\ Len(u) = Len(one) + Len(f)
        /\ \A j \in 1 .. Len(one) + Len(f) : u[j] = IF j <= Len(one) THEN one[j] ELSE f[j - Len(one)]
    BY <2>3
  <2>5. t = u
    BY DEF f
  <2> HIDE DEF u, t, x, L
  <2> QED BY <1>3, <1>7, <2>2, <2>4, <2>5
<1> HIDE DEF t
<1>10. /\ arr2 \in Seq(Seq(Item)) /\ Len(arr2) = N
       /\ \A a \in 1 .. Len(arr) : arr2[a] = arr[a]
       /\ arr2[N] = t
  <2>1. /\ Append(arr, t) \in Seq(Seq(Item)) /\ Len(Append(arr, t)) = Len(arr) + 1
        /\ \A a \in 1 .. Len(arr) : Append(arr, t)[a] = arr[a]
        /\ Append(arr, t)[Len(arr) + 1] = t
    BY <1>1, <1>9, AppendProperties
  <2> QED BY <1>5, <2>1
<1>11. /\ scn2 \in [NLs -> Seq(PhyLoc)] /\ scn2[m][k] = y
       /\ \A q \in NLs :
            /\ Len(scn2[q]) = Len(scn[q])
            /\ \A i \in 1 .. Len(scn[q]) : ~(q = m /\ i = k) => scn2[q][i] = scn[q][i]
  <2>1. LocIs(scn, LocPut(scn, m, k, y), m, k, y)
    BY <1>1, <1>3, OneLocation
  <2> QED BY <1>4, <2>1 DEF LocIs
<1> HIDE DEF x, L
<1>12. arr2[N][L + 1] = item /\ \A j \in 1 .. L : arr2[N][j] = arr[x.array][j]
  <2>1. L + 1 \in 1 .. L + 1 /\ \A j \in 1 .. L : j \in 1 .. L + 1
    BY <1>3
  <2> QED BY <1>6, <1>7, <1>9, <1>10, <2>1
<1>13. \A j \in 1 .. L + 1 : arr2[N][j].name \in Procs
  <2>1. \A j \in 1 .. L + 1 : j = L + 1 \/ j \in 1 .. L
    BY <1>3
  <2> QED BY <1>6, <1>12, <2>1
<1>14. Resized(scn, arr, scn2, arr2, m, k, N)
  <2>1. N \in 1 .. Len(arr2) /\ Len(arr) <= Len(arr2) /\ L + 1 <= Len(arr2[N])
    BY <1>1, <1>3, <1>9, <1>10
  <2> HIDE DEF N
  <2>2. N = Len(arr) + 1
    BY DEF N
  <2> QED BY <1>3, <1>10, <1>11, <1>13, <2>1, <2>2 DEF Resized, x
<1>15. Pushed(scn, arr, scn2, arr2, m, k, item)
  BY <1>3, <1>11, <1>12 DEF Pushed, L, x
<1>16. CellsStay(arr, arr2)
  <2> SUFFICES ASSUME NEW a \in 1 .. Len(arr), NEW j \in 1 .. Len(arr[a])
               PROVE  j \in 1 .. Len(arr2[a]) /\ (arr[a][j].name \in Procs => arr2[a][j].name \in Procs)
    BY <1>1, <1>10 DEF CellsStay
  <2> QED BY <1>10
<1> QED BY <1>14, <1>15, <1>16

\* The slice of one location has one entry less: the last is in its place.
Pulls(scn, arr, scn2, arr2, n, i, I) ==
  /\ arr2 = [arr EXCEPT ![scn[n][i].array][I] =
               SubSeq(arr[scn[n][i].array], 1, scn[n][i].len)[scn[n][i].len]]
  /\ scn2 = [scn EXCEPT ![n][i].len = @ - 1]

Pulled(scn, arr, scn2, arr2, n, i, I) ==
  LET L == scn[n][i].len
      A == scn[n][i].array
  IN  /\ scn2[n][i].len = L - 1 /\ scn2[n][i].array = A
      /\ \A j \in 1 .. L - 1 : arr2[A][j] = IF j = I THEN arr[A][L] ELSE arr[A][j]

\* The swap-remove writes in the slice only.
LEMMA PullIs ==
  ASSUME NEW scn, NEW arr, NEW scn2, NEW arr2, Memory(scn, arr), NEW n \in NLs, NEW i \in 1 .. Len(scn[n]),
         NEW I \in 1 .. scn[n][i].len, Pulls(scn, arr, scn2, arr2, n, i, I)
  PROVE  /\ Resized(scn, arr, scn2, arr2, n, i, scn[n][i].array)
         /\ Pulled(scn, arr, scn2, arr2, n, i, I) /\ CellsStay(arr, arr2)
<1> DEFINE x == scn[n][i]
           A == x.array
           L == x.len
           y == [x EXCEPT !.len = @ - 1]
           item == SubSeq(arr[A], 1, L)[L]
<1>1. scn \in [NLs -> Seq(PhyLoc)] /\ arr \in Seq(Seq(Item)) /\ Len(arr) \in Nat
  BY DEF Memory
<1>2. x \in PhyLoc
  BY ShowingType
<1>3. I \in 1 .. L /\ L \in Nat /\ A \in Nat /\ L >= 1
  <2>1. I \in 1 .. L
    OBVIOUS
  <2>2. L \in Nat /\ A \in Nat
    <3> HIDE DEF x
    <3> QED BY <1>2 DEF PhyLoc
  <2> HIDE DEF L, A
  <2> QED BY <2>1, <2>2
<1>4. y \in PhyLoc /\ y.name = x.name /\ y.netChar = x.netChar /\ y.array = A /\ y.len = L - 1
  <2>1. x.len - 1 \in Nat
    <3>1. x.len \in Nat /\ x.len >= 1
      BY <1>3
    <3> HIDE DEF x
    <3> QED BY <3>1
  <2> HIDE DEF x
  <2> QED BY <1>2, <2>1 DEF PhyLoc
<1>5. scn2 = LocPut(scn, n, i, y)
  BY DEF LocPut, Pulls
<1>6. arr2 = CellPut(arr, A, I, item)
  BY DEF CellPut, Pulls
<1>7. Fits(x, arr)
  BY DEF Memory, Slices
<1> HIDE DEF x, A, L, y
<1>8. /\ A \in 1 .. Len(arr) /\ L <= Len(arr[A]) /\ A # 0
      /\ \A j \in 1 .. L : arr[A][j].name \in Procs
  <2>1. /\ A \in 0 .. Len(arr) /\ (A = 0 => L = 0) /\ (A # 0 => L <= Len(arr[A]))
        /\ \A j \in 1 .. L : arr[A][j].name \in Procs
    BY <1>7 DEF Fits, A, L
  <2>2. A # 0
    BY <1>3, <2>1
  <2>3. A \in 1 .. Len(arr)
    BY <1>1, <1>3, <2>1, <2>2
  <2> QED BY <2>1, <2>2, <2>3
<1>9. arr[A] \in Seq(Item) /\ Len(arr[A]) \in Nat
  BY <1>1, <1>8, ElementOfSeq
<1>10. item = arr[A][L] /\ item \in Item /\ item.name \in Procs
  <2>1. L \in 1 .. L /\ L \in 1 .. Len(arr[A]) /\ 1 \in 1 .. Len(arr[A]) + 1
    BY <1>3, <1>8, <1>9
  <2>2. \A j \in 1 .. L : arr[A][j] \in Item
    <3>1. \A j \in 1 .. L : j \in 1 .. Len(arr[A])
      BY <1>3, <1>8, <1>9
    <3> QED BY <1>9, <3>1, ElementOfSeq
  <2> DEFINE a == arr[A]
             s == SubSeq(a, 1, L)
  <2>3. \A j \in 1 .. L : a[j] \in Item
    BY <2>2
  <2> HIDE DEF a
  <2>4. /\ s \in Seq(Item) /\ Len(s) = IF 1 <= L THEN L - 1 + 1 ELSE 0
        /\ \A j \in 1 .. L - 1 + 1 : s[j] = a[1 + j - 1]
    BY <1>3, <2>3, SubSeqProperties
  <2> HIDE DEF s
  <2>5. s[L] = a[L]
    BY <1>3, <2>4
  <2> QED BY <1>8, <2>1, <2>2, <2>5 DEF s, a
<1> HIDE DEF item
<1>11. I \in 1 .. Len(arr[A])
  BY <1>3, <1>8, <1>9
<1>12. /\ scn2 \in [NLs -> Seq(PhyLoc)] /\ scn2[n][i] = y
       /\ \A q \in NLs :
            /\ Len(scn2[q]) = Len(scn[q])
            /\ \A r \in 1 .. Len(scn[q]) : ~(q = n /\ r = i) => scn2[q][r] = scn[q][r]
  <2>1. LocIs(scn, LocPut(scn, n, i, y), n, i, y)
    BY <1>1, <1>4, OneLocation
  <2> QED BY <1>5, <2>1 DEF LocIs
<1>13. /\ arr2 \in Seq(Seq(Item)) /\ Len(arr2) = Len(arr)
       /\ \A b \in 1 .. Len(arr) : Len(arr2[b]) = Len(arr[b]) /\ (b # A => arr2[b] = arr[b])
       /\ \A j \in 1 .. Len(arr[A]) : arr2[A][j] = IF j = I THEN item ELSE arr[A][j]
  <2>1. CellIs(arr, CellPut(arr, A, I, item), A, I, item)
    BY <1>1, <1>8, <1>10, <1>11, OneCell
  <2> QED BY <1>6, <2>1 DEF CellIs
<1>14. ASSUME NEW j \in 1 .. L - 1
       PROVE  arr2[A][j] = (IF j = I THEN arr[A][L] ELSE arr[A][j]) /\ arr2[A][j].name \in Procs
  <2>1. j \in 1 .. L /\ j \in 1 .. Len(arr[A])
    BY <1>3, <1>8, <1>9
  <2> QED BY <1>8, <1>10, <1>13, <2>1
<1>15. Resized(scn, arr, scn2, arr2, n, i, A)
  <2>1. A \in 1 .. Len(arr2) /\ Len(arr) <= Len(arr2)
    BY <1>1, <1>8, <1>13
  <2>2. L - 1 <= Len(arr2[A])
    <3>1. Len(arr2[A]) = Len(arr[A])
      BY <1>8, <1>13
    <3> QED BY <1>3, <1>8, <1>9, <3>1
  <2>3. \A a \in 1 .. Len(arr) : a # x.array => arr2[a] = arr[a]
    BY <1>13 DEF A
  <2>4. A = x.array
    BY DEF A
  <2>5. \A j \in 1 .. L - 1 : arr2[A][j].name \in Procs
    BY <1>14
  <2> QED BY <1>4, <1>12, <1>13, <2>1, <2>2, <2>3, <2>4, <2>5 DEF Resized, x
<1>16. Pulled(scn, arr, scn2, arr2, n, i, I)
  BY <1>4, <1>12, <1>14 DEF Pulled, A, L, x
<1>17. CellsStay(arr, arr2)
  <2> SUFFICES ASSUME NEW a \in 1 .. Len(arr), NEW j \in 1 .. Len(arr[a])
               PROVE  j \in 1 .. Len(arr2[a]) /\ (arr[a][j].name \in Procs => arr2[a][j].name \in Procs)
    BY <1>1, <1>13 DEF CellsStay
  <2> QED BY <1>10, <1>13
<1> QED BY <1>15, <1>16, <1>17 DEF A, x

\* What a list of processes shows after a push and after a pull.
Longer(x, y, item) ==
  /\ y.name = x.name /\ y.netChar = x.netChar /\ Len(y.procs) = Len(x.procs) + 1
  /\ \A j \in 1 .. Len(x.procs) : y.procs[j] = x.procs[j]
  /\ y.procs[Len(x.procs) + 1] = item

Shorter(x, y, I) ==
  /\ y.name = x.name /\ y.netChar = x.netChar /\ Len(y.procs) = Len(x.procs) - 1
  /\ \A j \in 1 .. Len(x.procs) - 1 : y.procs[j] = IF j = I THEN x.procs[Len(x.procs)] ELSE x.procs[j]

\* An append shows one process more, ...
LEMMA PushShows ==
  ASSUME NEW scn, NEW arr, NEW scn2, NEW arr2, Memory(scn, arr), Memory(scn2, arr2),
         NEW m \in NLs, NEW k \in 1 .. Len(scn[m]), NEW A, NEW item,
         Resized(scn, arr, scn2, arr2, m, k, A), Pushed(scn, arr, scn2, arr2, m, k, item)
  PROVE  Longer(Showing(scn[m][k], arr), Showing(scn2[m][k], arr2), item)
<1> DEFINE x == scn[m][k]
           y == scn2[m][k]
<1>1. x \in PhyLoc /\ Len(Showing(x, arr).procs) = x.len
      /\ \A j \in 1 .. x.len : Showing(x, arr).procs[j] = arr[x.array][j]
  BY ShowingType
<1>2. Len(Showing(y, arr2).procs) = y.len
      /\ \A j \in 1 .. y.len : Showing(y, arr2).procs[j] = arr2[y.array][j]
  <2>1. k \in 1 .. Len(scn2[m])
    BY DEF Resized
  <2> QED BY <2>1, ShowingType
<1>3. /\ y.len = x.len + 1 /\ arr2[y.array][x.len + 1] = item
      /\ \A j \in 1 .. x.len : arr2[y.array][j] = arr[x.array][j]
  BY DEF Pushed
<1>4. y.name = x.name /\ y.netChar = x.netChar
  BY DEF Resized
<1> HIDE DEF x, y
<1>5. x.len \in Nat
  BY <1>1 DEF PhyLoc
<1>6. /\ x.len + 1 \in 1 .. y.len
      /\ \A j \in 1 .. x.len : j \in 1 .. y.len
  BY <1>3, <1>5
<1>7. Longer(Showing(x, arr), Showing(y, arr2), item)
  BY <1>1, <1>2, <1>3, <1>4, <1>6, ShowingIs DEF Longer
<1> QED BY <1>7 DEF x, y

\* ... and a swap-remove one less.
LEMMA PullShows ==
  ASSUME NEW scn, NEW arr, NEW scn2, NEW arr2, Memory(scn, arr), Memory(scn2, arr2),
         NEW n \in NLs, NEW i \in 1 .. Len(scn[n]), NEW A, NEW I \in 1 .. scn[n][i].len,
         Resized(scn, arr, scn2, arr2, n, i, A), Pulled(scn, arr, scn2, arr2, n, i, I)
  PROVE  Shorter(Showing(scn[n][i], arr), Showing(scn2[n][i], arr2), I)
<1> DEFINE x == scn[n][i]
           y == scn2[n][i]
<1>1. x \in PhyLoc /\ Len(Showing(x, arr).procs) = x.len
      /\ \A j \in 1 .. x.len : Showing(x, arr).procs[j] = arr[x.array][j]
  BY ShowingType
<1>2. Len(Showing(y, arr2).procs) = y.len
      /\ \A j \in 1 .. y.len : Showing(y, arr2).procs[j] = arr2[y.array][j]
  <2>1. i \in 1 .. Len(scn2[n])
    BY DEF Resized
  <2> QED BY <2>1, ShowingType
<1>3. /\ y.len = x.len - 1 /\ y.array = x.array
      /\ \A j \in 1 .. x.len - 1 : arr2[x.array][j] = IF j = I THEN arr[x.array][x.len] ELSE arr[x.array][j]
  BY DEF Pulled
<1>4. y.name = x.name /\ y.netChar = x.netChar
  BY DEF Resized
<1>0. I \in 1 .. x.len
  OBVIOUS
<1> HIDE DEF x, y
<1>5. x.len \in Nat
  BY <1>1 DEF PhyLoc
<1>6. /\ x.len \in 1 .. x.len
      /\ \A j \in 1 .. x.len - 1 : j \in 1 .. x.len
  BY <1>0, <1>5
<1>7. Shorter(Showing(x, arr), Showing(y, arr2), I)
  BY <1>1, <1>2, <1>3, <1>4, <1>6, ShowingIs DEF Shorter
<1> QED BY <1>7 DEF x, y

\* A process goes from one list to another.
Transferred(d, d2, n, i, m, k, item, I) ==
  /\ \A q \in NLs :
       /\ Len(d2[q]) = Len(d[q])
       /\ \A r \in 1 .. Len(d[q]) : ~(q = n /\ r = i) /\ ~(q = m /\ r = k) => d2[q][r] = d[q][r]
  /\ Longer(d[m][k], d2[m][k], item) /\ Shorter(d[n][i], d2[n][i], I)

\* The lengths of the slices, where one entry went from one to another.
Lens(scn, scn2, n, i, m, k) ==
  /\ \A q \in NLs :
       /\ Len(scn2[q]) = Len(scn[q])
       /\ \A r \in 1 .. Len(scn[q]) :
            /\ scn2[q][r].name = scn[q][r].name
            /\ ~(q = n /\ r = i) /\ ~(q = m /\ r = k) => scn2[q][r].len = scn[q][r].len
  /\ scn2[m][k].len = scn[m][k].len + 1 /\ scn2[n][i].len = scn[n][i].len - 1

\* An append to one location and a swap-remove in another transfer an entry: memory
\* stays right, no pointer loses its target, the other lists are as they were.
LEMMA TransferIs ==
  ASSUME NEW scn, NEW arr, NEW scn1, NEW arr1, NEW scn2, NEW arr2, Memory(scn, arr),
         NEW n \in NLs, NEW i \in 1 .. Len(scn[n]), NEW m \in NLs, NEW k \in 1 .. Len(scn[m]), ~(n = m /\ i = k),
         NEW item \in Item, item.name \in Procs,
         InPlace(scn, arr, scn1, arr1, m, k, item) \/ Copied(scn, arr, scn1, arr1, m, k, item),
         NEW I \in 1 .. scn[n][i].len, Pulls(scn1, arr1, scn2, arr2, n, i, I)
  PROVE  /\ Memory(scn2, arr2) /\ CellsStay(arr, arr2) /\ Lens(scn, scn2, n, i, m, k)
         /\ Transferred(Document(scn, arr), Document(scn2, arr2), n, i, m, k, item, I)
<1>1. PICK A : /\ Resized(scn, arr, scn1, arr1, m, k, A)
               /\ Pushed(scn, arr, scn1, arr1, m, k, item) /\ CellsStay(arr, arr1)
  <2>1. CASE InPlace(scn, arr, scn1, arr1, m, k, item)
    BY <2>1, PushInPlace
  <2>2. CASE Copied(scn, arr, scn1, arr1, m, k, item)
    BY <2>2, PushCopied
  <2> QED BY <2>1, <2>2
<1>2. Memory(scn1, arr1) /\ OthersShow(scn, arr, scn1, arr1, m, k)
  BY <1>1, ResizedMemory
<1>3. scn1[n][i] = scn[n][i] /\ \A q \in NLs : Len(scn1[q]) = Len(scn[q])
  BY <1>1 DEF Resized
<1>4. i \in 1 .. Len(scn1[n]) /\ I \in 1 .. scn1[n][i].len /\ k \in 1 .. Len(scn1[m])
  BY <1>3
<1>5. PICK B : /\ Resized(scn1, arr1, scn2, arr2, n, i, B)
               /\ Pulled(scn1, arr1, scn2, arr2, n, i, I) /\ CellsStay(arr1, arr2)
  BY <1>2, <1>4, PullIs
<1>6. Memory(scn2, arr2) /\ OthersShow(scn1, arr1, scn2, arr2, n, i)
  BY <1>2, <1>4, <1>5, ResizedMemory
<1>7. CellsStay(arr, arr2)
  <2>1. Len(arr) \in Nat /\ Len(arr1) \in Nat /\ Len(arr2) \in Nat
    BY <1>2, <1>6 DEF Memory
  <2>2. Len(arr) <= Len(arr1) /\ Len(arr1) <= Len(arr2)
    BY <1>1, <1>5 DEF CellsStay
  <2>3. ASSUME NEW a \in 1 .. Len(arr), NEW j \in 1 .. Len(arr[a])
        PROVE  j \in 1 .. Len(arr2[a]) /\ (arr[a][j].name \in Procs => arr2[a][j].name \in Procs)
    <3>1. a \in 1 .. Len(arr1)
      BY <2>1, <2>2
    <3>2. j \in 1 .. Len(arr1[a]) /\ (arr[a][j].name \in Procs => arr1[a][j].name \in Procs)
      BY <1>1 DEF CellsStay
    <3>3. j \in 1 .. Len(arr2[a]) /\ (arr1[a][j].name \in Procs => arr2[a][j].name \in Procs)
      BY <1>5, <3>1, <3>2 DEF CellsStay
    <3> QED BY <3>2, <3>3
  <2>4. Len(arr) <= Len(arr2)
    BY <2>1, <2>2
  <2> QED BY <2>3, <2>4 DEF CellsStay
<1>8. Lens(scn, scn2, n, i, m, k)
  <2>1. \A q \in NLs : \A r \in 1 .. Len(scn[q]) :
          /\ ~(q = m /\ r = k) => scn1[q][r] = scn[q][r]
          /\ scn1[q][r].name = scn[q][r].name
    BY <1>1 DEF Resized
  <2>2. \A q \in NLs : /\ Len(scn2[q]) = Len(scn1[q])
                       /\ \A r \in 1 .. Len(scn1[q]) :
                            /\ ~(q = n /\ r = i) => scn2[q][r] = scn1[q][r]
                            /\ scn2[q][r].name = scn1[q][r].name
    BY <1>5 DEF Resized
  <2>3. scn1[m][k].len = scn[m][k].len + 1 /\ scn2[n][i].len = scn1[n][i].len - 1
    BY <1>1, <1>5 DEF Pushed, Pulled
  <2>4. scn2[m][k] = scn1[m][k]
    BY <1>4, <2>2
  <2> QED BY <1>3, <2>1, <2>2, <2>3, <2>4 DEF Lens
<1> DEFINE d == Document(scn, arr)
           d2 == Document(scn2, arr2)
<1>9. \A q \in NLs : /\ Len(d[q]) = Len(scn[q])
                     /\ \A r \in 1 .. Len(scn[q]) : d[q][r] = Showing(scn[q][r], arr)
  BY DocumentShows
<1>10. \A q \in NLs : /\ Len(d2[q]) = Len(scn2[q])
                      /\ \A r \in 1 .. Len(scn2[q]) : d2[q][r] = Showing(scn2[q][r], arr2)
  BY <1>6, DocumentShows
<1>11. \A q \in NLs : Len(scn2[q]) = Len(scn[q])
  BY <1>8 DEF Lens
<1> HIDE DEF d, d2
<1>12. Longer(d[m][k], d2[m][k], item)
  <2>1. Longer(Showing(scn[m][k], arr), Showing(scn1[m][k], arr1), item)
    BY <1>1, <1>2, PushShows
  <2>2. Showing(scn2[m][k], arr2) = Showing(scn1[m][k], arr1)
    BY <1>4, <1>6 DEF OthersShow
  <2>3. d[m][k] = Showing(scn[m][k], arr) /\ d2[m][k] = Showing(scn2[m][k], arr2)
    BY <1>9, <1>10, <1>11
  <2> QED BY <2>1, <2>2, <2>3
<1>13. Shorter(d[n][i], d2[n][i], I)
  <2>1. Shorter(Showing(scn1[n][i], arr1), Showing(scn2[n][i], arr2), I)
    BY <1>2, <1>4, <1>5, <1>6, PullShows
  <2>2. Showing(scn1[n][i], arr1) = Showing(scn[n][i], arr)
    BY <1>2 DEF OthersShow
  <2>3. d[n][i] = Showing(scn[n][i], arr) /\ d2[n][i] = Showing(scn2[n][i], arr2)
    BY <1>9, <1>10, <1>11
  <2> QED BY <2>1, <2>2, <2>3
<1>14. ASSUME NEW q \in NLs, NEW r \in 1 .. Len(d[q]), ~(q = n /\ r = i), ~(q = m /\ r = k)
       PROVE  d2[q][r] = d[q][r]
  <2>1. r \in 1 .. Len(scn[q]) /\ r \in 1 .. Len(scn1[q]) /\ r \in 1 .. Len(scn2[q])
    BY <1>3, <1>9, <1>11
  <2>2. Showing(scn1[q][r], arr1) = Showing(scn[q][r], arr)
    BY <1>2, <1>14, <2>1 DEF OthersShow
  <2>3. Showing(scn2[q][r], arr2) = Showing(scn1[q][r], arr1)
    BY <1>6, <1>14, <2>1 DEF OthersShow
  <2> QED BY <1>9, <1>10, <2>1, <2>2, <2>3
<1>15. \A q \in NLs : Len(d2[q]) = Len(d[q])
  BY <1>9, <1>10, <1>11
<1>16. Transferred(d, d2, n, i, m, k, item, I)
  BY <1>12, <1>13, <1>14, <1>15 DEF Transferred
<1> QED BY <1>6, <1>7, <1>8, <1>16 DEF d, d2

-----------------------------------------------------------------------------
(* The move of a process.                                                  *)

\* There are no more elements in S than L: the count that Room is about.
Injects(S, L) == \E f \in [S -> 1 .. L] : \A x, y \in S : f[x] = f[y] => x = y

\* One element less needs one place less, ...
LEMMA InjectLess ==
  ASSUME NEW S, NEW L \in Nat, Injects(S, L), NEW e \in S
  PROVE  L >= 1 /\ Injects(S \ {e}, L - 1)
<1>1. PICK f \in [S -> 1 .. L] : \A x, y \in S : f[x] = f[y] => x = y
  BY DEF Injects
<1>2. f[e] \in 1 .. L /\ L >= 1
  BY <1>1
<1> DEFINE T == S \ {e}
           h(x) == IF f[x] = L THEN f[e] ELSE f[x]
           g == [x \in T |-> h(x)]
<1>3. ASSUME NEW x \in T PROVE h(x) \in 1 .. L - 1
  <2>1. f[x] \in 1 .. L /\ f[x] # f[e]
    BY <1>1
  <2> QED BY <1>2, <2>1
<1>4. ASSUME NEW x \in T, NEW y \in T, h(x) = h(y) PROVE x = y
  BY <1>1, <1>4
<1> HIDE DEF h
<1>5. g \in [T -> 1 .. L - 1]
  BY <1>3
<1>6. \A x, y \in T : g[x] = g[y] => x = y
  BY <1>4
<1> HIDE DEF g, T
<1>7. Injects(T, L - 1)
  BY <1>5, <1>6 DEF Injects
<1> QED BY <1>2, <1>7 DEF T

\* ... and one more one more.
LEMMA InjectMore ==
  ASSUME NEW S, NEW L \in Nat, Injects(S, L), NEW e, e \notin S
  PROVE  Injects(S \cup {e}, L + 1)
<1>1. PICK f \in [S -> 1 .. L] : \A x, y \in S : f[x] = f[y] => x = y
  BY DEF Injects
<1> DEFINE T == S \cup {e}
           h(x) == IF x = e THEN L + 1 ELSE f[x]
           g == [x \in T |-> h(x)]
<1>2. ASSUME NEW x \in T PROVE h(x) \in 1 .. L + 1
  <2>1. CASE x = e
    BY <2>1
  <2>2. CASE x # e
    <3>1. f[x] \in 1 .. L
      BY <1>1, <2>2
    <3> QED BY <2>2, <3>1
  <2> QED BY <2>1, <2>2
<1>3. ASSUME NEW x \in T, NEW y \in T, h(x) = h(y) PROVE x = y
  <2>1. \A z \in S : f[z] \in 1 .. L /\ f[z] # L + 1
    BY <1>1
  <2>2. CASE x \in S /\ y \in S
    BY <1>1, <1>3, <2>2
  <2>3. CASE ~(x \in S /\ y \in S)
    BY <1>3, <2>1, <2>3
  <2> QED BY <2>2, <2>3
<1> HIDE DEF h
<1>4. g \in [T -> 1 .. L + 1]
  BY <1>2
<1>5. \A x, y \in T : g[x] = g[y] => x = y
  BY <1>3
<1> HIDE DEF g, T
<1>6. Injects(T, L + 1)
  BY <1>4, <1>5 DEF Injects
<1> QED BY <1>6 DEF T

\* The node of the process that moved has another parent.
Reparented(map, map2, e, p) == map2 = [map EXCEPT ![e].parent = p]

\* The nodes stay right when a process goes where its node says: the old location
\* has one entry and one process less, the new one one more.
LEMMA TransferNodes ==
  ASSUME NEW scn, NEW arr, NEW map, NEW scn2, NEW arr2, NEW map2, Memory(scn, arr), Memory(scn2, arr2),
         Nodes(scn, arr, map), NamesApart, CellsStay(arr, arr2),
         NEW n \in NLs, NEW i \in 1 .. Len(scn[n]), NEW m \in NLs, NEW k \in 1 .. Len(scn[m]), ~(n = m /\ i = k),
         Lens(scn, scn2, n, i, m, k), NEW e \in DOMAIN map \cap Procs, map[e].parent = <<n, i>>,
         Reparented(map, map2, e, <<m, k>>)
  PROVE  Nodes(scn2, arr2, map2)
<1>1. map \in [DOMAIN map -> NodeType] /\ DOMAIN map \subseteq Elems /\ LocNodes(scn, map)
      /\ ProcNodes(scn, arr, map) /\ Room(scn, map)
  BY DEF Nodes
<1>2. map[e] \in NodeType /\ k \in Nat
  BY <1>1
<1> DEFINE y == [map[e] EXCEPT !.parent = <<m, k>>]
<1>3. y \in NodeType /\ y.object = map[e].object /\ y.parent = <<m, k>>
  BY <1>2 DEF NodeType
<1>4. map2 = [map EXCEPT ![e] = y]
  BY DEF Reparented
<1> HIDE DEF y
<1>5. /\ map2 \in [DOMAIN map2 -> NodeType] /\ DOMAIN map2 = DOMAIN map
      /\ map2[e] = y /\ \A x \in DOMAIN map : x # e => map2[x] = map[x]
  BY <1>1, <1>3, <1>4
<1>6. /\ \A q \in NLs : /\ Len(scn2[q]) = Len(scn[q])
                        /\ \A r \in 1 .. Len(scn[q]) : scn2[q][r].name = scn[q][r].name
  BY DEF Lens
<1>7. LocNodes(scn2, map2)
  <2>1. ASSUME NEW p \in DOMAIN map2 \cap PLs
        PROVE  LocAt(scn2, p, map2[p])
    <3>1. p \in DOMAIN map \cap PLs /\ map2[p] = map[p]
      BY <1>5 DEF NamesApart
    <3>2. LocAt(scn, p, map[p])
      BY <1>1, <3>1 DEF LocNodes
    <3>3. PICK q \in NLs : \E r \in 1 .. Len(scn[q]) :
             scn[q][r].name = p /\ map[p].object = <<q, r>> /\ map[p].parent = q
      BY <3>2 DEF LocAt
    <3>4. \E r \in 1 .. Len(scn2[q]) :
             scn2[q][r].name = p /\ map2[p].object = <<q, r>> /\ map2[p].parent = q
      BY <1>6, <3>1, <3>3
    <3> QED BY <3>4 DEF LocAt
  <2>2. ASSUME NEW q \in NLs, NEW r \in 1 .. Len(scn2[q])
        PROVE  scn2[q][r].name \in DOMAIN map2
    <3>1. r \in 1 .. Len(scn[q]) /\ scn2[q][r].name = scn[q][r].name
      BY <1>6
    <3> QED BY <1>1, <1>5, <3>1 DEF LocNodes
  <2> QED BY <2>1, <2>2 DEF LocNodes
<1>8. ProcNodes(scn2, arr2, map2)
  <2> SUFFICES ASSUME NEW x \in DOMAIN map2 \cap Procs
               PROVE  /\ \E a \in 1 .. Len(arr2) : \E j \in 1 .. Len(arr2[a]) :
                           arr2[a][j].name \in Procs /\ map2[x].object = <<a, j>>
                      /\ \E q \in NLs : \E r \in 1 .. Len(scn2[q]) : map2[x].parent = <<q, r>>
    BY DEF ProcNodes
  <2>1. x \in DOMAIN map \cap Procs /\ map2[x].object = map[x].object
    BY <1>3, <1>5
  <2>2. /\ \E a \in 1 .. Len(arr) : \E j \in 1 .. Len(arr[a]) :
             arr[a][j].name \in Procs /\ map[x].object = <<a, j>>
        /\ \E q \in NLs : \E r \in 1 .. Len(scn[q]) : map[x].parent = <<q, r>>
    BY <1>1, <2>1 DEF ProcNodes
  <2>3. PICK a \in 1 .. Len(arr) : \E j \in 1 .. Len(arr[a]) :
             arr[a][j].name \in Procs /\ map[x].object = <<a, j>>
    BY <2>2
  <2>4. PICK j \in 1 .. Len(arr[a]) : arr[a][j].name \in Procs /\ map[x].object = <<a, j>>
    BY <2>3
  <2>5. a \in 1 .. Len(arr2)
    <3>1. Len(arr) \in Nat /\ Len(arr2) \in Nat /\ Len(arr) <= Len(arr2)
      BY DEF Memory, CellsStay
    <3> QED BY <3>1
  <2>6. j \in 1 .. Len(arr2[a]) /\ arr2[a][j].name \in Procs
    BY <2>4 DEF CellsStay
  <2>7. \E q \in NLs : \E r \in 1 .. Len(scn2[q]) : map2[x].parent = <<q, r>>
    <3>1. CASE x = e
      <4>1. k \in 1 .. Len(scn2[m])
        BY <1>6
      <4> QED BY <1>3, <1>5, <3>1, <4>1
    <3>2. CASE x # e
      BY <1>5, <1>6, <2>1, <2>2, <3>2
    <3> QED BY <3>1, <3>2
  <2> QED BY <2>1, <2>4, <2>5, <2>6, <2>7
<1>9. Room(scn2, map2)
  <2>0. SUFFICES ASSUME NEW q \in NLs, NEW r \in 1 .. Len(scn2[q])
                 PROVE  Injects(Parented(map2, <<q, r>>), scn2[q][r].len)
    BY DEF Room, Injects
  <2>1. r \in 1 .. Len(scn[q])
    BY <1>6
  <2>2. Injects(Parented(map, <<q, r>>), scn[q][r].len)
    BY <1>1, <2>1 DEF Room, Injects
  <2>3. scn[q][r].len \in Nat
    BY <2>1, ShowingType DEF PhyLoc
  <2>4. /\ scn2[m][k].len = scn[m][k].len + 1 /\ scn2[n][i].len = scn[n][i].len - 1
        /\ ~(q = n /\ r = i) /\ ~(q = m /\ r = k) => scn2[q][r].len = scn[q][r].len
    BY <2>1 DEF Lens
  <2>5. \A x : x \in Parented(map2, <<q, r>>) <=>
               IF x = e THEN <<q, r>> = <<m, k>> ELSE x \in Parented(map, <<q, r>>)
    BY <1>3, <1>5 DEF Parented
  <2>6. \A x : x = e => (x \in Parented(map, <<q, r>>) <=> <<q, r>> = <<n, i>>)
    BY DEF Parented
  <2>7. CASE q = n /\ r = i
    <3>1. e \in Parented(map, <<q, r>>) /\ Parented(map2, <<q, r>>) = Parented(map, <<q, r>>) \ {e}
      BY <2>5, <2>6, <2>7
    <3>2. Injects(Parented(map2, <<q, r>>), scn[q][r].len - 1)
      BY <2>2, <2>3, <3>1, InjectLess
    <3> QED BY <2>4, <2>7, <3>2
  <2>8. CASE q = m /\ r = k
    <3>1. e \notin Parented(map, <<q, r>>) /\ Parented(map2, <<q, r>>) = Parented(map, <<q, r>>) \cup {e}
      BY <2>5, <2>6, <2>8
    <3>2. Injects(Parented(map2, <<q, r>>), scn[q][r].len + 1)
      BY <2>2, <2>3, <3>1, InjectMore
    <3> QED BY <2>4, <2>8, <3>2
  <2>9. CASE ~(q = n /\ r = i) /\ ~(q = m /\ r = k)
    <3>1. Parented(map2, <<q, r>>) = Parented(map, <<q, r>>)
      BY <2>5, <2>6, <2>9
    <3> QED BY <2>2, <2>4, <2>9, <3>1
  <2> QED BY <2>7, <2>8, <2>9
<1> QED BY <1>1, <1>5, <1>7, <1>8, <1>9 DEF Nodes

\* What append makes of the slice.
LEMMA AppendedIs ==
  ASSUME Inv, NEW m \in NLs, NEW k \in 1 .. Len(scenario[m]), NEW item, NEW ptr, ptr = <<m, k>>
  PROVE  \/ InPlace(scenario, arrays, Appended(ptr, item).scenario, Appended(ptr, item).arrays, m, k, item)
         \/ Copied(scenario, arrays, Appended(ptr, item).scenario, Appended(ptr, item).arrays, m, k, item)
<1> DEFINE slice == scenario[m][k]
           old == Behind(scenario, arrays, m, k)
<1>1. ptr[1] = m /\ ptr[2] = k /\ Deref(ptr) = slice
  BY DEF Deref
<1>2. old = IF slice.array = 0 THEN <<>> ELSE arrays[slice.array]
  BY DEF Behind
<1>3. slice.len \in Nat
  BY ShowingType DEF Inv, PhyLoc
<1>4. CASE slice.len < Len(old)
  <2>1. slice.array # 0 /\ old = arrays[slice.array]
    BY <1>2, <1>3, <1>4
  <2> DEFINE X == [arrays EXCEPT ![slice.array][slice.len + 1] = item]
             Y == [scenario EXCEPT ![m][k].len = @ + 1]
  <2>2. Appended(ptr, item) = [arrays |-> X, scenario |-> Y]
    BY <1>1, <1>2, <1>4, Zenon DEF Appended
  <2> HIDE DEF X, Y
  <2>3. Appended(ptr, item).arrays = X /\ Appended(ptr, item).scenario = Y
    BY <2>2
  <2> QED BY <1>4, <2>1, <2>3, Zenon DEF InPlace, X, Y
<1>5. CASE ~(slice.len < Len(old))
  <2> DEFINE X == Append(arrays, Append(old, item) \o Free(IF Len(old) = 0 THEN 0 ELSE Len(old) - 1))
             Y == [scenario EXCEPT ![m][k].len = @ + 1, ![m][k].array = Len(arrays) + 1]
  <2>1. Appended(ptr, item) = [arrays |-> X, scenario |-> Y]
    BY <1>1, <1>2, <1>5, Zenon DEF Appended
  <2> HIDE DEF X, Y
  <2>2. Appended(ptr, item).arrays = X /\ Appended(ptr, item).scenario = Y
    BY <2>1
  <2> QED BY <1>5, <2>2, Zenon DEF Copied, X, Y
<1> QED BY <1>4, <1>5

\* The entry of a process that the removal loop stops at.
First(loc, e) == Index({j \in 1 .. Len(loc.procs) : loc.procs[j].name = e})

\* In a list that is not empty there is one, and it is the process if it is there.
LEMMA FirstIs ==
  ASSUME NEW loc \in Shown, NEW e, Len(loc.procs) >= 1
  PROVE  /\ First(loc, e) \in 1 .. Len(loc.procs)
         /\ (\E j \in 1 .. Len(loc.procs) : loc.procs[j].name = e) => loc.procs[First(loc, e)].name = e
<1> DEFINE M == {j \in 1 .. Len(loc.procs) : loc.procs[j].name = e}
<1>1. Len(loc.procs) \in Nat /\ M \in SUBSET Nat /\ M \subseteq 1 .. Len(loc.procs)
  BY DEF Shown
<1>2. /\ M = {} => Index(M) = 1
      /\ M # {} => Index(M) \in M
  <2> HIDE DEF M
  <2> QED BY <1>1, IndexIs DEF Index
<1>3. First(loc, e) = Index(M)
  BY DEF First
<1>4. CASE M = {}
  <2>1. \A j \in 1 .. Len(loc.procs) : loc.procs[j].name # e
    BY <1>4
  <2> QED BY <1>1, <1>2, <1>3, <1>4, <2>1
<1>5. CASE M # {}
  <2>1. Index(M) \in M
    BY <1>2, <1>5
  <2> QED BY <1>3, <2>1
<1> QED BY <1>4, <1>5

\* The move of a process: from location i of n to location k of m.
Hands(e, dest, n, i, m, k, scn1, arr1) ==
  /\ ~(n = m /\ i = k) /\ scenario[m][k].name = dest
  /\ e \in DOMAIN nodeMap \cap Procs /\ nodeMap[e].parent = <<n, i>>
  /\ DerefProc(nodeMap[e].object) \in Item /\ DerefProc(nodeMap[e].object).name \in Procs
  /\ \/ InPlace(scenario, arrays, scn1, arr1, m, k, DerefProc(nodeMap[e].object))
     \/ Copied(scenario, arrays, scn1, arr1, m, k, DerefProc(nodeMap[e].object))
  /\ scenario[n][i].len >= 1
  /\ Pulls(scn1, arr1, scenario', arrays', n, i, First(Showing(scenario[n][i], arrays), e))
  /\ Reparented(nodeMap, nodeMap', e, <<m, k>>)
  /\ published' = Document(scenario', arrays')

\* MoveNode of an edge application, stale pointers or not: an append of the cell
\* that the pointer leads to, and a swap-remove where the parent pointer leads.
LEMMA MoveProcIs ==
  ASSUME Inv, NamesApart, NEW e, NEW dest, MoveProc(e, dest)
  PROVE  \E n \in NLs : \E i \in 1 .. Len(scenario[n]) :
         \E m \in NLs : \E k \in 1 .. Len(scenario[m]) :
         \E scn1, arr1 : Hands(e, dest, n, i, m, k, scn1, arr1)
<1>1. e \in DOMAIN nodeMap \cap Procs /\ dest \in DOMAIN nodeMap \cap PLs
  BY DEF MoveProc, PLs
<1>2. /\ \E a \in 1 .. Len(arrays) : \E j \in 1 .. Len(arrays[a]) :
           arrays[a][j].name \in Procs /\ nodeMap[e].object = <<a, j>>
      /\ \E n \in NLs : \E i \in 1 .. Len(scenario[n]) : nodeMap[e].parent = <<n, i>>
  BY <1>1 DEF Inv, Nodes, ProcNodes
<1>3. DerefProc(nodeMap[e].object) \in Item /\ DerefProc(nodeMap[e].object).name \in Procs
  <2>1. PICK a \in 1 .. Len(arrays) : \E j \in 1 .. Len(arrays[a]) :
           arrays[a][j].name \in Procs /\ nodeMap[e].object = <<a, j>>
    BY <1>2
  <2>2. PICK j \in 1 .. Len(arrays[a]) : arrays[a][j].name \in Procs /\ nodeMap[e].object = <<a, j>>
    BY <2>1
  <2>3. DerefProc(nodeMap[e].object) = arrays[a][j]
    BY <2>2 DEF DerefProc
  <2>4. arrays \in Seq(Seq(Item))
    BY DEF Inv, Memory
  <2>5. arrays[a][j] \in Item
    BY <2>4
  <2> QED BY <2>2, <2>3, <2>5
<1>4. PICK n \in NLs : \E i \in 1 .. Len(scenario[n]) : nodeMap[e].parent = <<n, i>>
  BY <1>2
<1>5. PICK i \in 1 .. Len(scenario[n]) : nodeMap[e].parent = <<n, i>>
  BY <1>4
<1>6. PICK m \in NLs : \E k \in 1 .. Len(scenario[m]) :
         scenario[m][k].name = dest /\ nodeMap[dest].object = <<m, k>> /\ nodeMap[dest].parent = m
  BY <1>1, NodeOfLocation DEF Inv
<1>7. PICK k \in 1 .. Len(scenario[m]) : scenario[m][k].name = dest /\ nodeMap[dest].object = <<m, k>>
  BY <1>6
<1> DEFINE item == DerefProc(nodeMap[e].object)
           grown == Appended(nodeMap[dest].object, item)
           slice == grown.scenario[n][i]
           entries == SubSeq(grown.arrays[slice.array], 1, slice.len)
           matches == {j \in DOMAIN entries : entries[j].name = e}
<1>8. /\ <<n, i>> # <<m, k>>
      /\ arrays' = [grown.arrays EXCEPT ![slice.array][Index(matches)] = entries[slice.len]]
      /\ scenario' = [grown.scenario EXCEPT ![n][i].len = @ - 1]
      /\ nodeMap' = [nodeMap EXCEPT ![e].parent = <<m, k>>]
      /\ published' = Document(scenario', arrays')
  <2> DEFINE proc == DerefProc(nodeMap[e].object)
             old == nodeMap[e].parent
             new == nodeMap[dest].object
             more == Appended(new, proc)
             list == more.scenario[old[1]][old[2]]
             shown == SubSeq(more.arrays[list.array], 1, list.len)
             found == {j \in DOMAIN shown : shown[j].name = e}
  <2>1. /\ old # new
        /\ arrays' = [more.arrays EXCEPT ![list.array][Index(found)] = shown[list.len]]
        /\ scenario' = [more.scenario EXCEPT ![old[1]][old[2]].len = @ - 1]
        /\ nodeMap' = [nodeMap EXCEPT ![e].parent = new]
        /\ published' = Document(scenario', arrays')
    BY Zenon DEF MoveProc, Refresh
  <2>2. old = <<n, i>> /\ new = <<m, k>> /\ old[1] = n /\ old[2] = i
    BY <1>5, <1>7
  <2> QED BY <2>1, <2>2, Zenon
<1>9. ~(n = m /\ i = k)
  BY <1>8
<1>10. \/ InPlace(scenario, arrays, grown.scenario, grown.arrays, m, k, item)
       \/ Copied(scenario, arrays, grown.scenario, grown.arrays, m, k, item)
  BY <1>7, AppendedIs
<1> HIDE DEF grown, item
<1>11. Reparented(nodeMap, nodeMap', e, <<m, k>>)
  BY <1>8, Zenon DEF Reparented
<1>12. scenario[n][i].len \in Nat /\ scenario[n][i].len >= 1
  <2>1. scenario[n][i].len \in Nat
    BY ShowingType DEF Inv, PhyLoc
  <2>2. e \in Parented(nodeMap, <<n, i>>)
    BY <1>1, <1>5 DEF Parented
  <2>3. Injects(Parented(nodeMap, <<n, i>>), scenario[n][i].len)
    BY DEF Inv, Nodes, Room, Injects
  <2> QED BY <2>1, <2>2, <2>3, InjectLess
<1>13. PICK A : Resized(scenario, arrays, grown.scenario, grown.arrays, m, k, A)
  <2>1. CASE InPlace(scenario, arrays, grown.scenario, grown.arrays, m, k, item)
    BY <1>3, <2>1, PushInPlace DEF Inv, item
  <2>2. CASE Copied(scenario, arrays, grown.scenario, grown.arrays, m, k, item)
    BY <1>3, <2>2, PushCopied DEF Inv, item
  <2> QED BY <1>10, <2>1, <2>2
<1>14. slice = scenario[n][i] /\ Showing(slice, grown.arrays) = Showing(scenario[n][i], arrays)
  <2>1. slice = scenario[n][i]
    BY <1>9, <1>13 DEF Resized
  <2>2. OthersShow(scenario, arrays, grown.scenario, grown.arrays, m, k)
    BY <1>13, ResizedMemory DEF Inv
  <2> QED BY <1>9, <2>1, <2>2 DEF OthersShow
<1>15. slice.array # 0 /\ entries = Showing(scenario[n][i], arrays).procs
  <2>1. Fits(scenario[n][i], arrays)
    BY DEF Inv, Memory, Slices
  <2>2. slice.array # 0
    BY <1>12, <1>14, <2>1 DEF Fits
  <2>3. Showing(slice, grown.arrays).procs = entries
    <3> HIDE DEF slice
    <3> QED BY <2>2 DEF Showing
  <2> QED BY <1>14, <2>2, <2>3
<1>16. Index(matches) = First(Showing(scenario[n][i], arrays), e)
  <2>1. Showing(scenario[n][i], arrays).procs \in Seq(Visible)
    BY ShowingType DEF Inv, Shown
  <2>2. DOMAIN entries = 1 .. Len(Showing(scenario[n][i], arrays).procs)
    <3> HIDE DEF entries
    <3> QED BY <1>15, <2>1
  <2>3. matches = {j \in 1 .. Len(Showing(scenario[n][i], arrays).procs) :
                      Showing(scenario[n][i], arrays).procs[j].name = e}
    <3> HIDE DEF entries
    <3> QED BY <1>15, <2>2
  <2> QED BY <2>3, Zenon DEF First
<1>17. Pulls(grown.scenario, grown.arrays, scenario', arrays', n, i, First(Showing(scenario[n][i], arrays), e))
  BY <1>8, <1>16, Zenon DEF Pulls
<1>18. Hands(e, dest, n, i, m, k, grown.scenario, grown.arrays)
  BY <1>1, <1>3, <1>5, <1>7, <1>8, <1>9, <1>10, <1>11, <1>12, <1>17, Zenon DEF Hands, item
<1> QED BY <1>18

\* It keeps the invariant, whatever process it finds behind the pointer.
LEMMA HandsKeep ==
  ASSUME Inv, NamesApart, NEW e, NEW dest, NEW n \in NLs, NEW i \in 1 .. Len(scenario[n]),
         NEW m \in NLs, NEW k \in 1 .. Len(scenario[m]), NEW scn1, NEW arr1,
         Hands(e, dest, n, i, m, k, scn1, arr1)
  PROVE  /\ Inv'
         /\ Transferred(Document(scenario, arrays), Document(scenario', arrays'), n, i, m, k,
                        DerefProc(nodeMap[e].object), First(Showing(scenario[n][i], arrays), e))
<1> DEFINE item == DerefProc(nodeMap[e].object)
           loc == Showing(scenario[n][i], arrays)
           I == First(loc, e)
<1>1. /\ ~(n = m /\ i = k) /\ e \in DOMAIN nodeMap \cap Procs /\ nodeMap[e].parent = <<n, i>>
      /\ item \in Item /\ item.name \in Procs /\ scenario[n][i].len >= 1
      /\ InPlace(scenario, arrays, scn1, arr1, m, k, item) \/ Copied(scenario, arrays, scn1, arr1, m, k, item)
      /\ Pulls(scn1, arr1, scenario', arrays', n, i, I)
      /\ Reparented(nodeMap, nodeMap', e, <<m, k>>)
      /\ published' = Document(scenario', arrays')
  BY Zenon DEF Hands
<1>2. loc \in Shown /\ Len(loc.procs) = scenario[n][i].len
  BY ShowingType DEF Inv
<1>3. Memory(scenario, arrays) /\ Nodes(scenario, arrays, nodeMap)
  BY DEF Inv
<1> HIDE DEF loc, item
<1>4. I \in 1 .. scenario[n][i].len
  BY <1>1, <1>2, FirstIs
<1> HIDE DEF I
<1>5. /\ Memory(scenario', arrays') /\ CellsStay(arrays, arrays') /\ Lens(scenario, scenario', n, i, m, k)
      /\ Transferred(Document(scenario, arrays), Document(scenario', arrays'), n, i, m, k, item, I)
  BY <1>1, <1>3, <1>4, TransferIs
<1>6. Nodes(scenario', arrays', nodeMap')
  BY <1>1, <1>3, <1>5, TransferNodes
<1> QED BY <1>1, <1>5, <1>6 DEF Inv, item, I, loc

-----------------------------------------------------------------------------
(* The move of a process, as the view shows it.                            *)

\* The row of a process at a known location.
LEMMA RowAt ==
  ASSUME NEW doc \in DocType, Distinct(doc), NamesApart, NEW x \in Procs, NEW r \in Rows(doc, x),
         NEW n \in NLs, NEW i \in 1 .. Len(doc[n]), r[1] = doc[n][i].name
  PROVE  /\ r = <<r[1], r[2], r[3]>> /\ r[2] \in 1 .. Len(doc[n][i].procs)
         /\ doc[n][i].procs[r[2]].name = x /\ doc[n][i].procs[r[2]].netChar = r[3]
<1>1. \E m \in NLs : \E k \in 1 .. Len(doc[m]) :
           /\ r = <<r[1], r[2], r[3]>> /\ r[1] = doc[m][k].name
           /\ r[2] \in 1 .. Len(doc[m][k].procs)
           /\ doc[m][k].procs[r[2]] \in Visible /\ doc[m][k].procs[r[2]].name = x
           /\ doc[m][k].procs[r[2]].netChar = r[3]
  BY RowIs, Zenon
<1>2. PICK m \in NLs : \E k \in 1 .. Len(doc[m]) :
           /\ r = <<r[1], r[2], r[3]>> /\ r[1] = doc[m][k].name
           /\ r[2] \in 1 .. Len(doc[m][k].procs)
           /\ doc[m][k].procs[r[2]] \in Visible /\ doc[m][k].procs[r[2]].name = x
           /\ doc[m][k].procs[r[2]].netChar = r[3]
  BY <1>1, Zenon
<1>3. PICK k \in 1 .. Len(doc[m]) :
           /\ r = <<r[1], r[2], r[3]>> /\ r[1] = doc[m][k].name
           /\ r[2] \in 1 .. Len(doc[m][k].procs)
           /\ doc[m][k].procs[r[2]].name = x
           /\ doc[m][k].procs[r[2]].netChar = r[3]
  BY <1>2, Zenon
<1>4. m = n /\ k = i
  <2>1. doc[m][k].name = doc[n][i].name
    BY <1>3
  <2> QED BY <2>1 DEF Distinct
<1> QED BY <1>3, <1>4

\* Entry I of list old goes to row new, the last entry L takes its place.
Shift(r, old, I, L, new) ==
  IF r[1] = old /\ r[2] = I THEN new
  ELSE IF r[1] = old /\ r[2] = L THEN <<old, I, r[3]>> ELSE r

\* The row that the append adds.
NewRow(d, m, k, item) == <<d[m][k].name, Len(d[m][k].procs) + 1, item.netChar>>

\* The rows of before are there after the transfer, shifted, ...
LEMMA ShiftKeeps ==
  ASSUME NEW d \in DocType, NEW d2 \in DocType, Distinct(d), Distinct(d2), NamesApart,
         NEW n \in NLs, NEW i \in 1 .. Len(d[n]), NEW m \in NLs, NEW k \in 1 .. Len(d[m]), ~(n = m /\ i = k),
         NEW item, NEW I \in 1 .. Len(d[n][i].procs), d[n][i].procs[I].name = item.name,
         Transferred(d, d2, n, i, m, k, item, I), NEW x \in Procs, NEW r \in Rows(d, x)
  PROVE  Shift(r, d[n][i].name, I, Len(d[n][i].procs), NewRow(d, m, k, item)) \in Rows(d2, x)
<1> DEFINE P == d[n][i].procs
           Q == d[m][k].procs
           P2 == d2[n][i].procs
           Q2 == d2[m][k].procs
           old == d[n][i].name
           new == d[m][k].name
           L == Len(P)
           K == Len(Q)
<1>1. L \in Nat /\ K \in Nat /\ old # new
  <2>1. d[n][i] \in Shown /\ d[m][k] \in Shown
    BY EntryIs
  <2>2. old # new
    BY DEF Distinct
  <2> QED BY <2>1, <2>2 DEF Shown
<1>2. /\ d2[n][i].name = old /\ Len(P2) = L - 1
      /\ \A j \in 1 .. L - 1 : P2[j] = IF j = I THEN P[L] ELSE P[j]
  BY DEF Transferred, Shorter
<1>3. /\ d2[m][k].name = new /\ Len(Q2) = K + 1
      /\ \A j \in 1 .. K : Q2[j] = Q[j]
      /\ Q2[K + 1] = item
  BY DEF Transferred, Longer
<1>4. \A q \in NLs :
       /\ Len(d2[q]) = Len(d[q])
       /\ \A s \in 1 .. Len(d[q]) : ~(q = n /\ s = i) /\ ~(q = m /\ s = k) => d2[q][s] = d[q][s]
  BY DEF Transferred
<1>5. i \in 1 .. Len(d2[n]) /\ k \in 1 .. Len(d2[m])
  BY <1>4
<1>6. /\ \A j \in 1 .. L : P[j].name = x => <<old, j, P[j].netChar>> \in Rows(d, x)
      /\ \A j \in 1 .. K : Q[j].name = x => <<new, j, Q[j].netChar>> \in Rows(d, x)
  BY RowOf
<1>7. /\ \A j \in 1 .. Len(P2) : P2[j].name = x => <<old, j, P2[j].netChar>> \in Rows(d2, x)
      /\ \A j \in 1 .. Len(Q2) : Q2[j].name = x => <<new, j, Q2[j].netChar>> \in Rows(d2, x)
  <2>1. \A j \in 1 .. Len(P2) : P2[j].name = x => <<d2[n][i].name, j, P2[j].netChar>> \in Rows(d2, x)
    BY <1>5, RowOf
  <2>2. \A j \in 1 .. Len(Q2) : Q2[j].name = x => <<d2[m][k].name, j, Q2[j].netChar>> \in Rows(d2, x)
    BY <1>5, RowOf
  <2> QED BY <1>2, <1>3, <2>1, <2>2
<1>0. I \in 1 .. L /\ P[I].name = item.name /\ NewRow(d, m, k, item) = <<new, K + 1, item.netChar>>
  BY DEF NewRow
<1>8. r[1] = old => /\ r = <<r[1], r[2], r[3]>> /\ r[2] \in 1 .. L
                    /\ P[r[2]].name = x /\ P[r[2]].netChar = r[3]
  BY RowAt
<1>9. r[1] # old => r \in Rows(d2, x)
  <2>0. SUFFICES ASSUME r[1] # old PROVE r \in Rows(d2, x)
    OBVIOUS
  <2>1. PICK q \in NLs : \E s \in 1 .. Len(d[q]) :
           /\ r = <<r[1], r[2], r[3]>> /\ r[1] = d[q][s].name
           /\ r[2] \in 1 .. Len(d[q][s].procs)
           /\ d[q][s].procs[r[2]] \in Visible /\ d[q][s].procs[r[2]].name = x
           /\ d[q][s].procs[r[2]].netChar = r[3]
    BY RowIs, Zenon
  <2>2. PICK s \in 1 .. Len(d[q]) :
           /\ r = <<r[1], r[2], r[3]>> /\ r[1] = d[q][s].name
           /\ r[2] \in 1 .. Len(d[q][s].procs)
           /\ d[q][s].procs[r[2]].name = x
           /\ d[q][s].procs[r[2]].netChar = r[3]
    BY <2>1
  <2>3. CASE q = m /\ s = k
    <3>1. r[1] = new /\ r[2] \in 1 .. K /\ Q[r[2]].name = x /\ Q[r[2]].netChar = r[3]
      BY <2>2, <2>3
    <3> HIDE DEF P, Q, P2, Q2, old, new, L, K
    <3>2. r[2] \in 1 .. Len(Q2) /\ Q2[r[2]] = Q[r[2]]
      BY <1>1, <1>3, <3>1
    <3>3. <<new, r[2], r[3]>> \in Rows(d2, x)
      BY <1>7, <3>1, <3>2
    <3> QED BY <2>2, <3>1, <3>3
  <2>4. CASE ~(q = m /\ s = k)
    <3>1. ~(q = n /\ s = i)
      BY <2>0, <2>2
    <3>2. s \in 1 .. Len(d2[q]) /\ d2[q][s] = d[q][s]
      BY <1>4, <2>4, <3>1
    <3>3. <<d2[q][s].name, r[2], d2[q][s].procs[r[2]].netChar>> \in Rows(d2, x)
      <4>1. r[2] \in 1 .. Len(d2[q][s].procs) /\ d2[q][s].procs[r[2]].name = x
        BY <2>2, <3>2
      <4> HIDE DEF P, Q, P2, Q2, old, new, L, K
      <4> QED BY <3>2, <4>1, RowOf
    <3> QED BY <2>2, <3>2, <3>3
  <2> QED BY <2>3, <2>4
<1> HIDE DEF P, Q, P2, Q2, old, new, L, K
<1> DEFINE row == Shift(r, old, I, L, NewRow(d, m, k, item))
<1>10. row \in Rows(d2, x)
  <2>1. CASE r[1] = old /\ r[2] = I
    <3>1. row = <<new, K + 1, item.netChar>>
      BY <1>0, <2>1 DEF Shift
    <3>2. K + 1 \in 1 .. Len(Q2) /\ Q2[K + 1].name = x /\ Q2[K + 1].netChar = item.netChar
      BY <1>0, <1>1, <1>3, <1>8, <2>1
    <3> HIDE DEF row
    <3> QED BY <1>7, <3>1, <3>2
  <2>2. CASE r[1] = old /\ r[2] # I /\ r[2] = L
    <3>1. row = <<old, I, r[3]>>
      BY <2>2 DEF Shift
    <3>2. I \in 1 .. Len(P2) /\ P2[I] = P[L]
      BY <1>0, <1>1, <1>2, <2>2
    <3>3. P2[I].name = x /\ P2[I].netChar = r[3]
      BY <1>8, <2>2, <3>2
    <3> HIDE DEF row
    <3> QED BY <1>7, <3>1, <3>2, <3>3
  <2>3. CASE r[1] = old /\ r[2] # I /\ r[2] # L
    <3>1. row = <<old, r[2], r[3]>>
      BY <1>8, <2>3 DEF Shift
    <3>2. r[2] \in 1 .. Len(P2) /\ P2[r[2]] = P[r[2]]
      BY <1>1, <1>2, <1>8, <2>3
    <3>3. P2[r[2]].name = x /\ P2[r[2]].netChar = r[3]
      BY <1>8, <2>3, <3>2
    <3> HIDE DEF row
    <3> QED BY <1>7, <3>1, <3>2, <3>3
  <2>4. CASE r[1] # old
    BY <1>9, <2>4 DEF Shift
  <2> QED BY <2>1, <2>2, <2>3, <2>4
<1> QED BY <1>10 DEF row, old, L, P

\* A row that some row of before was shifted to.
Shifted(d, x, t, old, I, L, new) == \E r \in Rows(d, x) : t = Shift(r, old, I, L, new)

\* ... and there are no others, ...
LEMMA ShiftFinds ==
  ASSUME NEW d \in DocType, NEW d2 \in DocType, Distinct(d), Distinct(d2), NamesApart,
         NEW n \in NLs, NEW i \in 1 .. Len(d[n]), NEW m \in NLs, NEW k \in 1 .. Len(d[m]), ~(n = m /\ i = k),
         NEW item, NEW I \in 1 .. Len(d[n][i].procs), d[n][i].procs[I].name = item.name,
         Transferred(d, d2, n, i, m, k, item, I), NEW x \in Procs, NEW t \in Rows(d2, x)
  PROVE  Shifted(d, x, t, d[n][i].name, I, Len(d[n][i].procs), NewRow(d, m, k, item))
<1> DEFINE P == d[n][i].procs
           Q == d[m][k].procs
           P2 == d2[n][i].procs
           Q2 == d2[m][k].procs
           old == d[n][i].name
           new == d[m][k].name
           L == Len(P)
           K == Len(Q)
<1>1. L \in Nat /\ K \in Nat /\ old # new
  <2>1. d[n][i] \in Shown /\ d[m][k] \in Shown
    BY EntryIs
  <2>2. old # new
    BY DEF Distinct
  <2> QED BY <2>1, <2>2 DEF Shown
<1>2. /\ d2[n][i].name = old /\ Len(P2) = L - 1
      /\ \A j \in 1 .. L - 1 : P2[j] = IF j = I THEN P[L] ELSE P[j]
  BY DEF Transferred, Shorter
<1>3. /\ d2[m][k].name = new /\ Len(Q2) = K + 1
      /\ \A j \in 1 .. K : Q2[j] = Q[j]
      /\ Q2[K + 1] = item
  BY DEF Transferred, Longer
<1>4. \A q \in NLs :
       /\ Len(d2[q]) = Len(d[q])
       /\ \A s \in 1 .. Len(d[q]) : ~(q = n /\ s = i) /\ ~(q = m /\ s = k) => d2[q][s] = d[q][s]
  BY DEF Transferred
<1>5. i \in 1 .. Len(d2[n]) /\ k \in 1 .. Len(d2[m])
  BY <1>4
<1>6. /\ \A j \in 1 .. L : P[j].name = x => <<old, j, P[j].netChar>> \in Rows(d, x)
      /\ \A j \in 1 .. K : Q[j].name = x => <<new, j, Q[j].netChar>> \in Rows(d, x)
  BY RowOf
<1>7. /\ \A j \in 1 .. Len(P2) : P2[j].name = x => <<old, j, P2[j].netChar>> \in Rows(d2, x)
      /\ \A j \in 1 .. Len(Q2) : Q2[j].name = x => <<new, j, Q2[j].netChar>> \in Rows(d2, x)
  <2>1. \A j \in 1 .. Len(P2) : P2[j].name = x => <<d2[n][i].name, j, P2[j].netChar>> \in Rows(d2, x)
    BY <1>5, RowOf
  <2>2. \A j \in 1 .. Len(Q2) : Q2[j].name = x => <<d2[m][k].name, j, Q2[j].netChar>> \in Rows(d2, x)
    BY <1>5, RowOf
  <2> QED BY <1>2, <1>3, <2>1, <2>2
<1>0. I \in 1 .. L /\ P[I].name = item.name /\ NewRow(d, m, k, item) = <<new, K + 1, item.netChar>>
  BY DEF NewRow
<1>8. t[1] = old => /\ t = <<t[1], t[2], t[3]>> /\ t[2] \in 1 .. Len(P2)
                    /\ P2[t[2]].name = x /\ P2[t[2]].netChar = t[3]
  <2>1. d2[n][i].name = old
    BY <1>2
  <2>2. t[1] = d2[n][i].name => /\ t = <<t[1], t[2], t[3]>> /\ t[2] \in 1 .. Len(P2)
                              /\ P2[t[2]].name = x /\ P2[t[2]].netChar = t[3]
    <3>0. SUFFICES ASSUME t[1] = d2[n][i].name
                   PROVE  /\ t = <<t[1], t[2], t[3]>> /\ t[2] \in 1 .. Len(d2[n][i].procs)
                          /\ d2[n][i].procs[t[2]].name = x /\ d2[n][i].procs[t[2]].netChar = t[3]
      OBVIOUS
    <3> HIDE DEF P, Q, P2, Q2, old, new, L, K
    <3>1. i \in 1 .. Len(d2[n])
      BY <1>5
    <3> QED BY <3>0, <3>1, RowAt, SMTT(30)
  <2> HIDE DEF P, Q, P2, Q2, old, new, L, K
  <2> QED BY <2>1, <2>2
<1>9. t[1] = new => /\ t = <<t[1], t[2], t[3]>> /\ t[2] \in 1 .. Len(Q2)
                    /\ Q2[t[2]].name = x /\ Q2[t[2]].netChar = t[3]
  <2>1. d2[m][k].name = new
    BY <1>3
  <2>2. t[1] = d2[m][k].name => /\ t = <<t[1], t[2], t[3]>> /\ t[2] \in 1 .. Len(Q2)
                              /\ Q2[t[2]].name = x /\ Q2[t[2]].netChar = t[3]
    <3>0. SUFFICES ASSUME t[1] = d2[m][k].name
                   PROVE  /\ t = <<t[1], t[2], t[3]>> /\ t[2] \in 1 .. Len(d2[m][k].procs)
                          /\ d2[m][k].procs[t[2]].name = x /\ d2[m][k].procs[t[2]].netChar = t[3]
      OBVIOUS
    <3> HIDE DEF P, Q, P2, Q2, old, new, L, K
    <3>1. k \in 1 .. Len(d2[m])
      BY <1>5
    <3> QED BY <3>0, <3>1, RowAt, SMTT(30)
  <2> HIDE DEF P, Q, P2, Q2, old, new, L, K
  <2> QED BY <2>1, <2>2
<1>10. t[1] # old /\ t[1] # new => t \in Rows(d, x)
  <2>0. SUFFICES ASSUME t[1] # old, t[1] # new PROVE t \in Rows(d, x)
    OBVIOUS
  <2>1. PICK q \in NLs : \E s \in 1 .. Len(d2[q]) :
           /\ t = <<t[1], t[2], t[3]>> /\ t[1] = d2[q][s].name
           /\ t[2] \in 1 .. Len(d2[q][s].procs)
           /\ d2[q][s].procs[t[2]] \in Visible /\ d2[q][s].procs[t[2]].name = x
           /\ d2[q][s].procs[t[2]].netChar = t[3]
    BY RowIs, Zenon
  <2>2. PICK s \in 1 .. Len(d2[q]) :
           /\ t = <<t[1], t[2], t[3]>> /\ t[1] = d2[q][s].name
           /\ t[2] \in 1 .. Len(d2[q][s].procs)
           /\ d2[q][s].procs[t[2]].name = x
           /\ d2[q][s].procs[t[2]].netChar = t[3]
    BY <2>1
  <2>3. ~(q = n /\ s = i) /\ ~(q = m /\ s = k)
    <3>1. d2[n][i].name = old /\ d2[m][k].name = new
      BY <1>2, <1>3
    <3> HIDE DEF P, Q, P2, Q2, old, new, L, K
    <3> QED BY <2>0, <2>2, <3>1
  <2>4. s \in 1 .. Len(d[q]) /\ d2[q][s] = d[q][s]
    BY <1>4, <2>3
  <2>5. <<d[q][s].name, t[2], d[q][s].procs[t[2]].netChar>> \in Rows(d, x)
    <3>1. t[2] \in 1 .. Len(d[q][s].procs) /\ d[q][s].procs[t[2]].name = x
      BY <2>2, <2>4
    <3> HIDE DEF P, Q, P2, Q2, old, new, L, K
    <3> QED BY <2>4, <3>1, RowOf
  <2> QED BY <2>2, <2>4, <2>5
<1> HIDE DEF P, Q, P2, Q2, old, new, L, K
<1> DEFINE to(r) == Shift(r, old, I, L, NewRow(d, m, k, item))
<1>11. \E r \in Rows(d, x) : t = to(r)
  <2>1. CASE t[1] = old /\ t[2] = I
    <3>1. L \in 1 .. L /\ I # L /\ P2[I] = P[L]
      BY <1>0, <1>1, <1>2, <1>8, <2>1
    <3>2. <<old, L, t[3]>> \in Rows(d, x)
      BY <1>6, <1>8, <2>1, <3>1
    <3>3. to(<<old, L, t[3]>>) = <<old, I, t[3]>>
      BY <3>1 DEF Shift
    <3> QED BY <1>8, <2>1, <3>2, <3>3
  <2>2. CASE t[1] = old /\ t[2] # I
    <3>1. t[2] \in 1 .. L /\ t[2] # L /\ P2[t[2]] = P[t[2]]
      BY <1>0, <1>1, <1>2, <1>8, <2>2
    <3>2. <<old, t[2], t[3]>> \in Rows(d, x)
      BY <1>6, <1>8, <2>2, <3>1
    <3>3. to(t) = t
      BY <2>2, <3>1 DEF Shift
    <3> QED BY <1>8, <2>2, <3>2, <3>3
  <2>3. CASE t[1] = new /\ t[2] = K + 1
    <3>1. item.name = x /\ t = <<new, K + 1, item.netChar>>
      BY <1>3, <1>9, <2>3
    <3>2. <<old, I, P[I].netChar>> \in Rows(d, x)
      BY <1>0, <1>6, <3>1
    <3>3. to(<<old, I, P[I].netChar>>) = <<new, K + 1, item.netChar>>
      BY <1>0 DEF Shift
    <3> QED BY <3>1, <3>2, <3>3
  <2>4. CASE t[1] = new /\ t[2] # K + 1
    <3>1. t[2] \in 1 .. K /\ Q2[t[2]] = Q[t[2]]
      BY <1>1, <1>3, <1>9, <2>4
    <3>2. <<new, t[2], t[3]>> \in Rows(d, x)
      BY <1>6, <1>9, <2>4, <3>1
    <3>3. to(t) = t
      BY <1>1, <2>4 DEF Shift
    <3> QED BY <1>9, <2>4, <3>2, <3>3
  <2>5. CASE t[1] # old /\ t[1] # new
    BY <1>10, <2>5 DEF Shift
  <2> QED BY <2>1, <2>2, <2>3, <2>4, <2>5
<1> QED BY <1>11, Zenon DEF Shifted, to, old, L, P

\* ... nor do two of them become one.
LEMMA ShiftApart ==
  ASSUME NEW d \in DocType, Distinct(d), NamesApart,
         NEW n \in NLs, NEW i \in 1 .. Len(d[n]), NEW m \in NLs, NEW k \in 1 .. Len(d[m]), ~(n = m /\ i = k),
         NEW item, NEW I \in 1 .. Len(d[n][i].procs), NEW x \in Procs,
         NEW r \in Rows(d, x), NEW t \in Rows(d, x),
         Shift(r, d[n][i].name, I, Len(d[n][i].procs), NewRow(d, m, k, item)) =
           Shift(t, d[n][i].name, I, Len(d[n][i].procs), NewRow(d, m, k, item))
  PROVE  r = t
<1> DEFINE P == d[n][i].procs
           Q == d[m][k].procs
           old == d[n][i].name
           new == d[m][k].name
           L == Len(P)
           K == Len(Q)
           row == NewRow(d, m, k, item)
<1>1. K \in Nat /\ old # new
  <2>1. d[m][k] \in Shown
    BY EntryIs
  <2>2. old # new
    BY DEF Distinct
  <2> QED BY <2>1, <2>2 DEF Shown
<1>2. row = <<new, K + 1, item.netChar>>
  BY DEF NewRow
<1>3. /\ r[1] = old => r = <<r[1], r[2], r[3]>> /\ P[r[2]].netChar = r[3]
      /\ t[1] = old => t = <<t[1], t[2], t[3]>> /\ P[t[2]].netChar = t[3]
  BY RowAt
<1>4. /\ r[1] = new => r[2] \in 1 .. K
      /\ t[1] = new => t[2] \in 1 .. K
  BY RowAt
<1>5. Shift(r, old, I, L, row) = Shift(t, old, I, L, row)
  OBVIOUS
<1> HIDE DEF P, Q, old, new, L, K, row
<1>6. K + 1 \notin 1 .. K
  BY <1>1
<1>7. r # row /\ t # row
  <2>1. row[1] = new /\ row[2] = K + 1
    BY <1>2
  <2> QED BY <1>4, <1>6, <2>1
<1>8. CASE r[1] = old /\ r[2] = I
  <2>1. Shift(t, old, I, L, row) = row
    BY <1>5, <1>8 DEF Shift
  <2>2. t[1] = old /\ t[2] = I
    <3>1. <<old, I, t[3]>> # row
      BY <1>1, <1>2
    <3> QED BY <1>7, <2>1, <3>1 DEF Shift
  <2> QED BY <1>3, <1>8, <2>2
<1>9. CASE t[1] = old /\ t[2] = I
  <2>1. Shift(r, old, I, L, row) = row
    BY <1>5, <1>9 DEF Shift
  <2>2. r[1] = old /\ r[2] = I
    <3>1. <<old, I, r[3]>> # row
      BY <1>1, <1>2
    <3> QED BY <1>7, <2>1, <3>1 DEF Shift
  <2> QED BY <1>3, <1>9, <2>2
<1>10. CASE ~(r[1] = old /\ r[2] = I) /\ ~(t[1] = old /\ t[2] = I)
  <2>1. /\ Shift(r, old, I, L, row) = IF r[1] = old /\ r[2] = L THEN <<old, I, r[3]>> ELSE r
        /\ Shift(t, old, I, L, row) = IF t[1] = old /\ t[2] = L THEN <<old, I, t[3]>> ELSE t
    BY <1>10 DEF Shift
  <2>2. r # <<old, I, t[3]>> /\ t # <<old, I, r[3]>>
    BY <1>10
  <2>3. CASE r[1] = old /\ r[2] = L /\ t[1] = old /\ t[2] = L
    BY <1>3, <2>3
  <2> QED BY <1>5, <2>1, <2>2, <2>3
<1> QED BY <1>8, <1>9, <1>10

\* One row stays one row.
Shifts(d, d2, x, old, I, L, new) ==
  /\ \A r : Rows(d, x) = {r} => Rows(d2, x) = {Shift(r, old, I, L, new)}
  /\ (\A r : Rows(d, x) # {r}) => \A t : Rows(d2, x) # {t}

\* So what was there once is there once.
LEMMA ShiftedRows ==
  ASSUME NEW d \in DocType, NEW d2 \in DocType, Distinct(d), Distinct(d2), NamesApart,
         NEW n \in NLs, NEW i \in 1 .. Len(d[n]), NEW m \in NLs, NEW k \in 1 .. Len(d[m]), ~(n = m /\ i = k),
         NEW item, NEW I \in 1 .. Len(d[n][i].procs), d[n][i].procs[I].name = item.name,
         Transferred(d, d2, n, i, m, k, item, I), NEW x \in Procs
  PROVE  Shifts(d, d2, x, d[n][i].name, I, Len(d[n][i].procs), NewRow(d, m, k, item))
<1> DEFINE to(r) == Shift(r, d[n][i].name, I, Len(d[n][i].procs), NewRow(d, m, k, item))
           S == Rows(d, x)
           T == Rows(d2, x)
<1>1. \A r \in S : to(r) \in T
  BY ShiftKeeps
<1>2. ASSUME NEW t \in T PROVE \E r \in S : t = to(r)
  <2>1. Shifted(d, x, t, d[n][i].name, I, Len(d[n][i].procs), NewRow(d, m, k, item))
    BY ShiftFinds
  <2> QED BY <2>1, Zenon DEF Shifted
<1>3. ASSUME NEW r \in S, NEW t \in S, to(r) = to(t) PROVE r = t
  BY <1>3, ShiftApart, Zenon
<1> HIDE DEF to, S, T
<1>4. ASSUME NEW r, S = {r} PROVE T = {to(r)}
  BY <1>1, <1>2, <1>4
<1>5. ASSUME NEW t, T = {t} PROVE \E r : S = {r}
  <2>1. PICK r \in S : t = to(r)
    BY <1>2, <1>5
  <2>2. \A q \in S : to(q) = t
    BY <1>1, <1>5
  <2>3. S = {r}
    BY <1>3, <2>1, <2>2
  <2> QED BY <2>3
<1>6. /\ \A r : S = {r} => T = {to(r)}
      /\ (\A r : S # {r}) => \A t : T # {t}
  BY <1>4, <1>5
<1> QED BY <1>6, Zenon DEF Shifts, to, S, T

\* The pointer led to the entry of the process: its move is one of the tree,
\* or, where the name is there more than once, none that the view shows.
LEMMA TransferredView ==
  ASSUME NEW d \in DocType, NEW d2 \in DocType, Distinct(d), Distinct(d2), NamesApart,
         NEW n \in NLs, NEW i \in 1 .. Len(d[n]), NEW m \in NLs, NEW k \in 1 .. Len(d[m]), ~(n = m /\ i = k),
         NEW item, NEW I \in 1 .. Len(d[n][i].procs), d[n][i].procs[I].name = item.name,
         NEW j \in 1 .. Len(d[n][i].procs), d[n][i].procs[j] = item, item.name \in Procs,
         Transferred(d, d2, n, i, m, k, item, I)
  PROVE  \/ Tree!Move(View(d), View(d2), item.name, d[m][k].name)
         \/ View(d2) = View(d)
<1> DEFINE old == d[n][i].name
           new == d[m][k].name
           P == d[n][i].procs
           L == Len(P)
           row == NewRow(d, m, k, item)
           e == item.name
<1>1. ASSUME NEW x \in Procs
      PROVE  /\ \A r : Rows(d, x) = {r} => Rows(d2, x) = {Shift(r, old, I, L, row)}
             /\ (\A r : Rows(d, x) # {r}) => \A t : Rows(d2, x) # {t}
  <2>1. Shifts(d, d2, x, d[n][i].name, I, Len(d[n][i].procs), NewRow(d, m, k, item))
    BY ShiftedRows
  <2> QED BY <2>1, Zenon DEF Shifts
<1>2. ASSUME NEW x \in PLs
      PROVE  View(d2).at[x] = View(d).at[x] /\ View(d2).netChar[x] = View(d).netChar[x]
  <2>1. \A q \in NLs :
          /\ Len(d2[q]) = Len(d[q])
          /\ \A s \in 1 .. Len(d[q]) : d2[q][s].name = d[q][s].name /\ d2[q][s].netChar = d[q][s].netChar
    BY DEF Transferred, Longer, Shorter
  <2>2. Keeps(d, d2, NoProc) /\ Keeps(d2, d, NoProc)
    BY <2>1 DEF Keeps
  <2>3. CASE x # NoProc
    BY <2>2, <2>3, KeepsView
  <2>4. CASE x = NoProc
    <3>1. Keeps(d, d2, e) /\ Keeps(d2, d, e)
      BY <2>1 DEF Keeps
    <3>2. x # e
      BY DEF NamesApart
    <3> QED BY <3>1, <3>2, KeepsView
  <2> QED BY <2>3, <2>4
<1>3. e \in Procs /\ e \in Elems /\ P[I].name = e /\ P[j] = item
  BY DEF Elems
<1>4. /\ <<old, I, P[I].netChar>> \in Rows(d, e)
      /\ <<old, j, item.netChar>> \in Rows(d, e)
  BY <1>3, RowOf
<1>5. row = <<new, row[2], item.netChar>> /\ row[1] = new /\ row[3] = item.netChar
  BY DEF NewRow
<1>6. \A x \in Procs : \A r \in Rows(d, x) : r[1] = old => P[r[2]].name = x
  BY RowAt
<1> HIDE DEF old, new, P, L, row, e
<1>7. ASSUME NEW x \in Procs, x # e
      PROVE  View(d2).at[x] = View(d).at[x] /\ View(d2).netChar[x] = View(d).netChar[x]
  <2>1. CASE \E r : Rows(d, x) = {r}
    <3>1. PICK r : Rows(d, x) = {r}
      BY <2>1
    <3>2. ~(r[1] = old /\ r[2] = I)
      BY <1>3, <1>6, <1>7, <3>1
    <3> DEFINE t == Shift(r, old, I, L, row)
    <3>3. t[1] = r[1] /\ t[3] = r[3]
      BY <3>2 DEF Shift
    <3>4. Rows(d2, x) = {t}
      BY <1>1, <3>1
    <3> HIDE DEF t
    <3>5. View(d).at[x] = r[1] /\ View(d).netChar[x] = r[3]
      BY <3>1, RowView
    <3>6. View(d2).at[x] = t[1] /\ View(d2).netChar[x] = t[3]
      BY <3>4, RowView
    <3> QED BY <3>3, <3>5, <3>6
  <2>2. CASE \A r : Rows(d, x) # {r}
    <3>1. \A t : Rows(d2, x) # {t}
      BY <1>1, <2>2
    <3>2. View(d).at[x] = NoPlace /\ View(d).netChar[x] = Value0
      BY <2>2, RowView
    <3>3. View(d2).at[x] = NoPlace /\ View(d2).netChar[x] = Value0
      BY <3>1, RowView
    <3> QED BY <3>2, <3>3
  <2> QED BY <2>1, <2>2
<1>8. OthersAlike(d, d2, e)
  BY <1>2, <1>7 DEF OthersAlike, Elems
<1>9. CASE \E r : Rows(d, e) = {r}
  <2>1. PICK r : Rows(d, e) = {r}
    BY <1>9
  <2>2. r = <<old, I, P[I].netChar>> /\ r = <<old, j, item.netChar>>
    BY <1>4, <2>1
  <2>3. r[1] = old /\ r[2] = I /\ r[3] = item.netChar
    BY <2>2
  <2>4. Shift(r, old, I, L, row) = row
    BY <2>3 DEF Shift
  <2>5. Rows(d2, e) = {row}
    BY <1>1, <1>3, <2>1, <2>4
  <2>6. View(d2).at[e] = new /\ View(d2).netChar[e] = item.netChar
    BY <1>3, <1>5, <2>5, RowView
  <2>7. View(d).at[e] = old /\ View(d).netChar[e] = item.netChar
    BY <1>3, <2>1, <2>3, RowView
  <2>8. old # NoPlace
    <3>1. d[n][i] \in Shown
      BY EntryIs
    <3> QED BY <3>1, ModelAssumption DEF ModelAssumption, Shown, old
  <2>9. Tree!Move(View(d), View(d2), e, new)
    BY <1>3, <1>8, <2>6, <2>7, <2>8, ViewChanged
  <2> QED BY <2>9 DEF e, new
<1>10. CASE \A r : Rows(d, e) # {r}
  <2>1. \A t : Rows(d2, e) # {t}
    BY <1>1, <1>3, <1>10
  <2>2. View(d).at[e] = NoPlace /\ View(d).netChar[e] = Value0
    BY <1>3, <1>10, RowView
  <2>3. View(d2).at[e] = NoPlace /\ View(d2).netChar[e] = Value0
    BY <1>3, <2>1, RowView
  <2>4. \A x \in Elems : View(d2).at[x] = View(d).at[x] /\ View(d2).netChar[x] = View(d).netChar[x]
    BY <1>8, <2>2, <2>3 DEF OthersAlike
  <2> QED BY <2>4, ViewSame
<1> QED BY <1>9, <1>10

\* The move of a process keeps the invariant; with fresh nodes, the view shows
\* the move or nothing.
LEMMA MoveProcStep ==
  ASSUME Inv, NamesApart, NEW e, NEW dest, MoveProc(e, dest)
  PROVE  /\ Inv'
         /\ NodeMapFresh =>
              Tree!MoveSome(View(Document(scenario, arrays)), View(Document(scenario', arrays')))
<1>1. PICK n \in NLs : \E i \in 1 .. Len(scenario[n]) :
         \E m \in NLs : \E k \in 1 .. Len(scenario[m]) :
         \E scn1, arr1 : Hands(e, dest, n, i, m, k, scn1, arr1)
  BY MoveProcIs
<1>2. PICK i \in 1 .. Len(scenario[n]) :
         \E m \in NLs : \E k \in 1 .. Len(scenario[m]) :
         \E scn1, arr1 : Hands(e, dest, n, i, m, k, scn1, arr1)
  BY <1>1
<1>3. PICK m \in NLs : \E k \in 1 .. Len(scenario[m]) :
         \E scn1, arr1 : Hands(e, dest, n, i, m, k, scn1, arr1)
  BY <1>2
<1>4. PICK k \in 1 .. Len(scenario[m]) : \E scn1, arr1 : Hands(e, dest, n, i, m, k, scn1, arr1)
  BY <1>3
<1>5. PICK scn1, arr1 : Hands(e, dest, n, i, m, k, scn1, arr1)
  BY <1>4
<1> DEFINE item == DerefProc(nodeMap[e].object)
           loc == Showing(scenario[n][i], arrays)
           I == First(loc, e)
           d == Document(scenario, arrays)
           d2 == Document(scenario', arrays')
<1>6. Inv' /\ Transferred(d, d2, n, i, m, k, item, I)
  BY <1>5, HandsKeep
<1>7. /\ ~(n = m /\ i = k) /\ scenario[m][k].name = dest
      /\ e \in DOMAIN nodeMap \cap Procs /\ nodeMap[e].parent = <<n, i>>
      /\ scenario[n][i].len >= 1
  BY <1>5, Zenon DEF Hands
<1>8. Memory(scenario, arrays) /\ Memory(scenario', arrays')
  BY <1>6 DEF Inv
<1>9. d \in DocType /\ d2 \in DocType /\ Distinct(d) /\ Distinct(d2)
  BY <1>8, DocumentOf
<1>10. /\ i \in 1 .. Len(d[n]) /\ d[n][i] = loc
       /\ k \in 1 .. Len(d[m]) /\ d[m][k].name = dest
  <2>1. \A q \in NLs : /\ Len(d[q]) = Len(scenario[q])
                       /\ \A s \in 1 .. Len(scenario[q]) : d[q][s] = Showing(scenario[q][s], arrays)
    BY <1>8, DocumentShows
  <2>2. Showing(scenario[m][k], arrays).name = dest
    BY <1>7, ShowingIs
  <2> HIDE DEF d
  <2> QED BY <2>1, <2>2
<1>11. /\ loc \in Shown /\ Len(loc.procs) = scenario[n][i].len
       /\ \A j \in 1 .. scenario[n][i].len : loc.procs[j] = arrays[scenario[n][i].array][j]
  BY <1>8, ShowingType
<1>12. ASSUME NodeMapFresh
       PROVE  \E j \in 1 .. Len(loc.procs) : loc.procs[j] = item /\ item.name = e
  <2>1. ProcAt(scenario, arrays, e, nodeMap[e])
    BY <1>7, <1>8, <1>12, ParsedEntry DEF NodeMapFresh
  <2>2. PICK q \in NLs : \E s \in 1 .. Len(scenario[q]) : \E j \in 1 .. scenario[q][s].len :
          /\ arrays[scenario[q][s].array][j].name = e
          /\ nodeMap[e].object = <<scenario[q][s].array, j>> /\ nodeMap[e].parent = <<q, s>>
    BY <2>1, Zenon DEF ProcAt
  <2>3. PICK s \in 1 .. Len(scenario[q]) : \E j \in 1 .. scenario[q][s].len :
          /\ arrays[scenario[q][s].array][j].name = e
          /\ nodeMap[e].object = <<scenario[q][s].array, j>> /\ nodeMap[e].parent = <<q, s>>
    BY <2>2
  <2>4. PICK j \in 1 .. scenario[q][s].len :
          /\ arrays[scenario[q][s].array][j].name = e
          /\ nodeMap[e].object = <<scenario[q][s].array, j>> /\ nodeMap[e].parent = <<q, s>>
    BY <2>3
  <2>5. q = n /\ s = i
    BY <1>7, <2>4
  <2>6. item = arrays[scenario[n][i].array][j] /\ j \in 1 .. scenario[n][i].len
    BY <2>4, <2>5 DEF DerefProc
  <2>7. loc.procs[j] = item /\ item.name = e
    BY <1>11, <2>4, <2>5, <2>6
  <2> HIDE DEF loc, item
  <2> QED BY <1>11, <2>6, <2>7
<1> HIDE DEF item, loc, d, d2
<1>13. I \in 1 .. Len(loc.procs) /\ ((\E j \in 1 .. Len(loc.procs) : loc.procs[j].name = e) => loc.procs[I].name = e)
  BY <1>7, <1>11, FirstIs
<1> HIDE DEF I
<1>14. ASSUME NodeMapFresh
       PROVE  Tree!MoveSome(View(d), View(d2))
  <2>1. PICK j \in 1 .. Len(loc.procs) : loc.procs[j] = item /\ item.name = e
    BY <1>12, <1>14
  <2>2. loc.procs[I].name = item.name
    BY <1>13, <2>1
  <2>3. \/ Tree!Move(View(d), View(d2), item.name, d[m][k].name)
        \/ View(d2) = View(d)
    BY <1>6, <1>7, <1>9, <1>10, <1>13, <2>1, <2>2, TransferredView
  <2>4. CASE Tree!Move(View(d), View(d2), item.name, d[m][k].name)
    <3>1. e \in Elems /\ dest \in NLs \cup PLs
      <4>1. d[m][k] \in Shown
        BY <1>9, <1>10, EntryIs
      <4> QED BY <1>7, <1>10, <4>1 DEF Elems, Shown
    <3>2. Tree!Move(View(d), View(d2), e, dest)
      BY <1>10, <2>1, <2>4
    <3> QED BY <3>1, <3>2, Zenon DEF Tree!MoveSome
  <2>5. CASE View(d2) = View(d)
    BY <1>8, <2>5, SelfMove DEF d
  <2> QED BY <2>3, <2>4, <2>5
<1> QED BY <1>6, <1>14 DEF d, d2

-----------------------------------------------------------------------------
(* The document that SetScenario unmarshals.                               *)

\* The records of the document for one location, and the location and the array
\* that json.Unmarshal makes of them.
Host(p) == {k \in 1 .. Len(Hosted) : Hosted[k].pl = p}

Stored(p) ==
  LET array == IF Host(p) = {} THEN 0 ELSE CHOOSE k \in Host(p) : TRUE
  IN  [name |-> p, netChar |-> Value0, array |-> array,
       len |-> IF Host(p) = {} THEN 0 ELSE Len(Hosted[array].procs)]

StoredProcs(k) ==
  [j \in 1 .. Len(Hosted[k].procs) |-> Proc(Hosted[k].procs[j])]
    \o Free(Capacity - Len(Hosted[k].procs))

\* What SetScenario makes of the document.
LEMMA UnmarshalledIs ==
  /\ Unmarshalled.scenario = [n \in NLs |-> [i \in 1 .. Len(Layout[n]) |-> Stored(Layout[n][i])]]
  /\ Unmarshalled.arrays = [k \in 1 .. Len(Hosted) |-> StoredProcs(k)]
<1> DEFINE X == [n \in NLs |-> [i \in 1 .. Len(Layout[n]) |-> Stored(Layout[n][i])]]
           Y == [k \in 1 .. Len(Hosted) |-> StoredProcs(k)]
<1>1. Unmarshalled = [scenario |-> X, arrays |-> Y]
  BY Zenon DEF Unmarshalled, Stored, StoredProcs, Host
<1> HIDE DEF X, Y
<1> QED BY <1>1 DEF X, Y

\* The arrays hold the processes and have room for them.
LEMMA StoredProcsAre ==
  ASSUME NEW k \in 1 .. Len(Hosted)
  PROVE  /\ Hosted[k].pl \in PLs /\ Len(Hosted[k].procs) \in Nat
         /\ StoredProcs(k) \in Seq(Item)
         /\ Len(Hosted[k].procs) <= Len(StoredProcs(k))
         /\ \A j \in 1 .. Len(Hosted[k].procs) : StoredProcs(k)[j].name \in Procs
<1> DEFINE procs == Hosted[k].procs
           L == Len(procs)
<1>1. Hosted[k] \in [pl : PLs, procs : Seq(Procs)] /\ Len(Hosted[k].procs) \in 1 .. Capacity /\ Capacity \in Nat
  <2>1. Hosted \in Seq([pl : PLs, procs : Seq(Procs)]) /\ Capacity \in Nat
    BY ModelAssumption DEF ModelAssumption
  <2>2. Len(Hosted[k].procs) \in 1 .. Capacity
    BY ModelAssumption, Zenon DEF ModelAssumption
  <2>3. Hosted[k] \in [pl : PLs, procs : Seq(Procs)]
    <3> DEFINE S == [pl : PLs, procs : Seq(Procs)]
    <3>1. Hosted \in Seq(S)
      BY <2>1
    <3> HIDE DEF S
    <3>2. Hosted[k] \in S
      BY <3>1, ElementOfSeq
    <3> QED BY <3>2 DEF S
  <2> QED BY <2>1, <2>2, <2>3
<1>2. procs \in Seq(Procs) /\ Hosted[k].pl \in PLs /\ L \in Nat /\ L <= Capacity
  BY <1>1
<1> HIDE DEF procs
<1>3. \A j \in 1 .. L : procs[j] \in Procs
  BY <1>2
<1> DEFINE x == [j \in 1 .. L |-> Proc(procs[j])]
           y == Free(Capacity - L)
<1>4. \A j \in 1 .. L : Proc(procs[j]) \in Item /\ Proc(procs[j]).name = procs[j]
  BY <1>3, ModelAssumption DEF ModelAssumption, Proc, Item
<1>5. x \in Seq(Item) /\ Len(x) = L /\ \A j \in 1 .. L : x[j].name \in Procs
  BY <1>2, <1>3, <1>4
<1>6. y \in Seq(Item)
  <2>1. Capacity - L \in Nat
    BY <1>1, <1>2
  <2> QED BY <2>1, FreeIs
<1> HIDE DEF x, y, L
<1>7. /\ x \o y \in Seq(Item) /\ Len(x) <= Len(x \o y)
      /\ \A j \in 1 .. Len(x) : (x \o y)[j] = x[j]
  BY <1>5, <1>6
<1>8. StoredProcs(k) = x \o y
  BY Zenon DEF StoredProcs, x, y, L, procs
<1> QED BY <1>2, <1>5, <1>7, <1>8 DEF L, procs

\* A location has the slice of its own record, or none.
LEMMA StoredIs ==
  ASSUME NEW p \in PLs
  PROVE  /\ Stored(p) \in PhyLoc /\ Stored(p).name = p
         /\ Stored(p).array = 0 => Stored(p).len = 0
         /\ Stored(p).array # 0 => /\ Stored(p).array \in 1 .. Len(Hosted)
                                   /\ Hosted[Stored(p).array].pl = p
                                   /\ Stored(p).len = Len(Hosted[Stored(p).array].procs)
<1> DEFINE a == IF Host(p) = {} THEN 0 ELSE CHOOSE k \in Host(p) : TRUE
           l == IF Host(p) = {} THEN 0 ELSE Len(Hosted[a].procs)
<1>1. Stored(p) = [name |-> p, netChar |-> Value0, array |-> a, len |-> l]
  BY Zenon DEF Stored
<1>2. Host(p) # {} => a \in 1 .. Len(Hosted) /\ Hosted[a].pl = p
  <2>1. Host(p) # {} => a \in Host(p)
    OBVIOUS
  <2> HIDE DEF a
  <2> QED BY <2>1 DEF Host
<1>3. Len(Hosted) \in Nat /\ Value0 \in Values
  BY ModelAssumption DEF ModelAssumption
<1>4. Host(p) = {} => a = 0 /\ l = 0
  OBVIOUS
<1>5. Host(p) # {} => l = Len(Hosted[a].procs)
  OBVIOUS
<1> HIDE DEF a, l
<1>6. a \in Nat /\ l \in Nat /\ (Host(p) # {} => a # 0)
  <2>1. CASE Host(p) = {}
    BY <1>4, <2>1
  <2>2. CASE Host(p) # {}
    <3>1. a \in 1 .. Len(Hosted) /\ Len(Hosted[a].procs) \in Nat
      BY <1>2, <2>2, StoredProcsAre
    <3> QED BY <1>3, <1>5, <2>2, <3>1
  <2> QED BY <2>1, <2>2
<1>7. Stored(p) \in PhyLoc
  BY <1>1, <1>3, <1>6 DEF PhyLoc
<1>8. Stored(p).name = p /\ Stored(p).array = a /\ Stored(p).len = l
  BY <1>1
<1> QED BY <1>2, <1>4, <1>5, <1>6, <1>7, <1>8

\* Memory is right after it.
LEMMA UnmarshalledMemory ==
  ASSUME NamesApart
  PROVE  Memory(Unmarshalled.scenario, Unmarshalled.arrays)
<1> DEFINE scn == Unmarshalled.scenario
           arr == Unmarshalled.arrays
<1>1. /\ scn = [n \in NLs |-> [i \in 1 .. Len(Layout[n]) |-> Stored(Layout[n][i])]]
      /\ arr = [k \in 1 .. Len(Hosted) |-> StoredProcs(k)]
  BY UnmarshalledIs
<1> HIDE DEF scn, arr
<1>2. ASSUME NEW n \in NLs
      PROVE  /\ Len(Layout[n]) \in Nat /\ scn[n] = [i \in 1 .. Len(Layout[n]) |-> Stored(Layout[n][i])]
             /\ \A i \in 1 .. Len(Layout[n]) : Layout[n][i] \in PLs
  BY <1>1, ModelAssumption DEF ModelAssumption
<1>3. ASSUME NEW n \in NLs
      PROVE  /\ scn[n] \in Seq(PhyLoc) /\ Len(scn[n]) = Len(Layout[n])
             /\ \A i \in 1 .. Len(scn[n]) : scn[n][i] = Stored(Layout[n][i]) /\ Layout[n][i] \in PLs
  <2> DEFINE K == Len(Layout[n])
             loc(i) == Stored(Layout[n][i])
  <2>1. \A i \in 1 .. K : loc(i) \in PhyLoc
    BY <1>2, StoredIs
  <2>2. K \in Nat /\ scn[n] = [i \in 1 .. K |-> loc(i)]
    BY <1>2, Zenon
  <2> HIDE DEF K, loc
  <2>3. scn[n] \in Seq(PhyLoc) /\ Len(scn[n]) = K /\ \A i \in 1 .. K : scn[n][i] = loc(i)
    BY <2>1, <2>2
  <2> QED BY <1>2, <2>3 DEF K, loc
<1>4. scn \in [NLs -> Seq(PhyLoc)]
  BY <1>1, <1>3
<1>5. Len(Hosted) \in Nat /\ arr \in Seq(Seq(Item)) /\ Len(arr) = Len(Hosted)
      /\ \A k \in 1 .. Len(Hosted) : arr[k] = StoredProcs(k)
  <2>1. Len(Hosted) \in Nat
    BY ModelAssumption DEF ModelAssumption
  <2>2. \A k \in 1 .. Len(Hosted) : StoredProcs(k) \in Seq(Item)
    BY StoredProcsAre
  <2> QED BY <1>1, <2>1, <2>2
<1>6. Slices(scn, arr)
  <2> SUFFICES ASSUME NEW n \in NLs, NEW i \in 1 .. Len(scn[n])
               PROVE  Fits(scn[n][i], arr)
    BY DEF Slices
  <2> DEFINE loc == scn[n][i]
  <2>1. loc = Stored(Layout[n][i]) /\ Layout[n][i] \in PLs
    BY <1>3
  <2>2. /\ loc \in PhyLoc
        /\ loc.array = 0 => loc.len = 0
        /\ loc.array # 0 => loc.array \in 1 .. Len(Hosted) /\ loc.len = Len(Hosted[loc.array].procs)
    BY <2>1, StoredIs
  <2> HIDE DEF loc
  <2>3. loc.array # 0 => /\ loc.len <= Len(arr[loc.array])
                         /\ \A j \in 1 .. loc.len : arr[loc.array][j].name \in Procs
    BY <1>5, <2>2, StoredProcsAre
  <2>4. loc.array \in 0 .. Len(arr)
    BY <1>5, <2>2
  <2>5. loc.array = 0 => \A j \in 1 .. loc.len : arr[loc.array][j].name \in Procs
    BY <2>2
  <2>6. Fits(loc, arr)
    BY <2>2, <2>3, <2>4, <2>5 DEF Fits
  <2> QED BY <2>6 DEF loc
<1>7. Apart(scn)
  <2>0. SUFFICES ASSUME NEW n \in NLs, NEW m \in NLs, NEW i \in 1 .. Len(scn[n]), NEW k \in 1 .. Len(scn[m]),
                        \/ scn[n][i].name = scn[m][k].name
                        \/ scn[n][i].array = scn[m][k].array /\ scn[n][i].array # 0
                 PROVE  n = m /\ i = k
    BY DEF Apart
  <2>1. /\ scn[n][i] = Stored(Layout[n][i]) /\ Layout[n][i] \in PLs /\ i \in 1 .. Len(Layout[n])
        /\ scn[m][k] = Stored(Layout[m][k]) /\ Layout[m][k] \in PLs /\ k \in 1 .. Len(Layout[m])
    BY <1>3
  <2>2. /\ scn[n][i].name = Layout[n][i] /\ scn[m][k].name = Layout[m][k]
        /\ scn[n][i].array # 0 => Hosted[scn[n][i].array].pl = Layout[n][i]
        /\ scn[m][k].array # 0 => Hosted[scn[m][k].array].pl = Layout[m][k]
    BY <2>1, StoredIs
  <2>3. Layout[n][i] = Layout[m][k]
    BY <2>0, <2>2
  <2> QED BY <2>1, <2>3 DEF NamesApart
<1> QED BY <1>4, <1>5, <1>6, <1>7 DEF Memory, scn, arr

-----------------------------------------------------------------------------
(* The specification.                                                      *)

\* SetScenario starts with the invariant and nodes that were just parsed.
LEMMA Starts ==
  ASSUME Init, NamesApart
  PROVE  Inv /\ NodeMapFresh
<1>1. Memory(scenario, arrays)
  BY UnmarshalledMemory DEF Init
<1>2. Nodes(scenario, arrays, nodeMap)
  BY <1>1, ParsedNodes DEF Init
<1> QED BY <1>1, <1>2 DEF Init, Inv, NodeMapFresh

\* What a request does, as the view shows it.
Answered ==
  Tree!Request(View(Document(scenario, arrays)), View(Document(scenario', arrays')))

MovedSome ==
  Tree!MoveSome(View(Document(scenario, arrays)), View(Document(scenario', arrays')))

\* Every method keeps the invariant; if the nodes are fresh it does what the tree
\* has for it, and only the move of an edge application makes them stale.
LEMMA Steps ==
  ASSUME Inv, NamesApart, NoFogMoves, Next
  PROVE  /\ Inv'
         /\ NodeMapFresh => Answered
         /\ NodeMapFresh /\ ~NodeMapFresh' => MovedSome /\ \E p \in Procs, d \in Fogs : MoveProc(p, d)
<1>1. ASSUME NEW e \in Elems, NEW d \in NLs, MovePL(e, d)
      PROVE  Inv' /\ NodeMapFresh' /\ Answered
  <2>1. /\ Inv' /\ NodeMapFresh' /\ e \in Elems /\ d \in NLs \cup PLs
        /\ Tree!Move(View(Document(scenario, arrays)), View(Document(scenario', arrays')), e, d)
    BY <1>1, MovePLStep
  <2>2. MovedSome
    BY <2>1, Zenon DEF MovedSome, Tree!MoveSome
  <2> QED BY <2>1, <2>2 DEF Answered, MovedSome, Tree!Request
<1>2. ASSUME NEW e \in Elems, NEW d \in Fogs, MoveProc(e, d)
      PROVE  /\ Inv' /\ (NodeMapFresh => MovedSome /\ Answered)
             /\ \E p \in Procs, q \in Fogs : MoveProc(p, q)
  <2>1. Inv' /\ (NodeMapFresh => MovedSome)
    BY <1>2, MoveProcStep DEF MovedSome
  <2>2. e \in Procs
    BY <1>2, Zenon DEF MoveProc
  <2> QED BY <1>2, <2>1, <2>2 DEF Answered, MovedSome, Tree!Request
<1>3. ASSUME NEW e \in Elems, NEW v \in Values, UpdateNetChar(e, v)
      PROVE  Inv' /\ (NodeMapFresh => NodeMapFresh' /\ Answered)
  <2>1. /\ Inv' /\ (NodeMapFresh => NodeMapFresh') /\ e \in Elems
        /\ NodeMapFresh =>
             \/ Tree!Tune(View(Document(scenario, arrays)), View(Document(scenario', arrays')), e, v)
             \/ Tree!MoveSome(View(Document(scenario, arrays)), View(Document(scenario', arrays')))
    BY <1>3, UpdateStep
  <2>2. NodeMapFresh => Answered
    BY <2>1, Zenon DEF Answered, Tree!Request
  <2> QED BY <2>1, <2>2
<1>4. ASSUME NEW u \in UEs, NEW n \in NLs, NEW v \in Values, AddScenarioNode(u, n, v)
      PROVE  Inv' /\ NodeMapFresh' /\ Answered
  <2>1. /\ Inv' /\ NodeMapFresh' /\ u \in Elems /\ n \in NLs \cup PLs
        /\ Tree!Add(View(Document(scenario, arrays)), View(Document(scenario', arrays')), u, n, v)
    BY <1>4, AddStep
  <2>2. Answered
    BY <2>1, Zenon DEF Answered, Tree!Request
  <2> QED BY <2>1, <2>2
<1>5. ASSUME NEW u \in UEs, RemoveScenarioNode(u)
      PROVE  Inv' /\ NodeMapFresh' /\ Answered
  <2>1. /\ Inv' /\ NodeMapFresh' /\ u \in Elems
        /\ Tree!Remove(View(Document(scenario, arrays)), View(Document(scenario', arrays')), u, Value0)
    BY <1>5, RemoveStep
  <2>2. Value0 \in Values
    BY ModelAssumption DEF ModelAssumption
  <2>3. Answered
    BY <2>1, <2>2, Zenon DEF Answered, Tree!Request
  <2> QED BY <2>1, <2>3
<1> QED BY <1>1, <1>2, <1>3, <1>4, <1>5, Zenon DEF Next

\* Nothing happens.
LEMMA StutterKeeps ==
  ASSUME Inv, UNCHANGED vars
  PROVE  Inv' /\ (NodeMapFresh => NodeMapFresh') /\ UNCHANGED Tree!vars
<1>1. scenario' = scenario /\ arrays' = arrays /\ nodeMap' = nodeMap /\ published' = published
  BY DEF vars
<1>2. Inv' /\ (NodeMapFresh => NodeMapFresh')
  BY <1>1 DEF Inv, NodeMapFresh
<1>3. UNCHANGED Tree!vars
  BY <1>1 DEF Tree!vars, NodeMapFresh
<1> QED BY <1>2, <1>3

\* The Model object: the slices never overlap, never show a cell that no process
\* has, and no pointer of the node map, stale ones included, leads out of memory
\* (MoveNode, AddScenarioNode, RemoveScenarioNode, UpdateNetChar of model.go).
THEOREM ModelInvariant ==
  ASSUME NamesApart, NoFogMoves
  PROVE  Spec => []Inv
<1>1. Init => Inv
  BY Starts
<1>2. Inv /\ [Next]_vars => Inv'
  BY Steps, StutterKeeps
<1> QED BY <1>1, <1>2, PTL DEF Spec

\* GetNode, GetNodeParent and GetNodeContext answer for the element asked for until
\* an edge application moves: no other method leaves a pointer stale, for any
\* document, any capacities and any number of elements.
THEOREM OnlyEdgeMovesStale ==
  ASSUME NamesApart, NoFogMoves
  PROVE  Spec => StaleAfterEdgeMove
<1>1. Inv /\ [Next]_vars => [NodeMapFresh /\ ~NodeMapFresh' => \E p \in Procs, d \in Fogs : MoveProc(p, d)]_vars
  BY Steps
<1>2. Spec => []Inv
  BY ModelInvariant
<1> QED BY <1>1, <1>2, PTL DEF Spec, StaleAfterEdgeMove

\* Model implements ScenarioTree: a method that finds its pointers fresh does to the
\* document what it says and nothing else, and what it leaves is published.
THEOREM Refinement ==
  ASSUME NamesApart, NoFogMoves
  PROVE  Spec => RefinesTree
<1>1. Init => Tree!Init
  <2> SUFFICES ASSUME Init PROVE Tree!Init
    OBVIOUS
  <2>1. Inv /\ NodeMapFresh
    BY Starts
  <2>2. View(Document(scenario, arrays)) \in Tree!Document
    BY <2>1, DocumentOf, ViewType DEF Inv
  <2> QED BY <2>1, <2>2 DEF Tree!Init, Inv
<1>2. Inv /\ [Next]_vars => [Tree!Next]_(Tree!vars)
  <2> SUFFICES ASSUME Inv, [Next]_vars PROVE [Tree!Next]_(Tree!vars)
    OBVIOUS
  <2>1. CASE UNCHANGED vars
    BY <2>1, StutterKeeps
  <2>2. CASE Next
    <3> DEFINE old == View(Document(scenario, arrays))
               new == View(Document(scenario', arrays'))
    <3>1. /\ Inv'
          /\ NodeMapFresh => Tree!Request(old, new)
          /\ NodeMapFresh /\ ~NodeMapFresh' => Tree!MoveSome(old, new)
      BY <2>2, Steps DEF Answered, MovedSome
    <3>2. new \in Tree!Document
      BY <3>1, DocumentOf, ViewType DEF Inv
    <3>3. View(published') = new
      BY <3>1 DEF Inv
    <3>4. NodeMapFresh' \in BOOLEAN
      BY DEF NodeMapFresh
    <3>5. Tree!Next
      BY <3>1, <3>2, <3>3, <3>4, Zenon DEF Tree!Next
    <3> QED BY <3>5
  <2> QED BY <2>1, <2>2
<1>3. Spec => []Inv
  BY ModelInvariant
<1> QED BY <1>1, <1>2, <1>3, PTL DEF Spec, RefinesTree, Tree!Spec

=============================================================================

--------------------------- MODULE MgManagerProofs ----------------------------
(***************************************************************************)
(* The mobility group manager, for any groups, applications, elements,     *)
(* scenarios, number of goroutines and of requests.                        *)
(***************************************************************************)
EXTENDS MgManager, FiniteSetTheorems, TLAPS

(* Part one: types.                                                        *)

Answer == Apps \cup {NoApp}
Served == Answer \cup {Unset}
Maps   == [Locs -> Answer]

TriggerNames == {"NET-LOC-IN-RANGE"} \cup {s.trigger : s \in Settings}
Algorithms   == {"HOP-COUNT"} \cup {s.lb : s \in Settings}

Group == [trigger : TriggerNames, lb : Algorithms, apps : SUBSET Apps, ues : SUBSET PLs,
          inRange : [PLs -> SUBSET Answer], appMap : Maps, dflt : Maps \cup {Unset}]

Element == [phy : PLs, net : Locs, range : SUBSET Locs, map : [Groups -> Served],
            transfer : BOOLEAN]

Fields == {"at", "as", "obj", "from", "unknown", "locs", "whole", "els", "elem", "grps", "grp",
           "best", "ranged", "flag", "list"}
Places == {"idle", "fill", "pass", "write", "move", "decide", "flag", "store", "clear", "defaults"}

\* A goroutine with m group objects and n element objects to choose from.
Fits(j, m, n) ==
  /\ DOMAIN j = Fields /\ j.at \in Places /\ j.flag \in BOOLEAN
  /\ j.from \subseteq Apps /\ j.locs \subseteq Locs
  /\ j.els \subseteq 1 .. n /\ j.elem \in 0 .. n /\ j.grps \subseteq Groups
  /\ j.grps # {} => j.elem # 0
  /\ j.at \in {"write", "move", "decide", "flag"} =>
       j.elem # 0 /\ j.grp \in Groups /\ j.best \in Answer
  /\ j.at \in {"fill", "move", "decide", "flag"} => j.obj \in 1 .. m

GroupsTyped ==
  /\ active \in Docs \cup {NoDoc} /\ svcs \in [Groups -> SUBSET Apps]
  /\ mgs \in Seq(Group) /\ mgInfoMap \in [Groups -> 0 .. Len(mgs)]
ElementsTyped ==
  /\ objs \in Seq(Element)
  /\ DOMAIN netElems \subseteq Elems /\ \A e \in DOMAIN netElems : netElems[e] \in 1 .. Len(objs)
JobsTyped ==
  /\ DOMAIN job = Threads /\ \A t \in Threads : Fits(job[t], Len(mgs), Len(objs))
TalesTyped ==
  /\ open \subseteq (1 .. Len(objs)) \X Groups
  /\ late \subseteq (1 .. Len(objs)) \X Groups /\ passed \subseteq (1 .. Len(objs)) \X Groups
  /\ outdated \in [Threads -> BOOLEAN]

Typed == GroupsTyped /\ ElementsTyped /\ JobsTyped /\ TalesTyped
-----------------------------------------------------------------------------
LEMMA EmptyTuple == DOMAIN <<>> = {} /\ Len(<<>>) = 0
OBVIOUS

LEMMA NoMapIsAMap == NoMap \in Maps
BY DEF NoMap, Maps, Answer

LEMMA NoJobFits == \A m, n \in Nat : Fits(NoJob, m, n) /\ NoJob.at = "idle" /\ NoJob.as = "nobody"
BY DEF Fits, NoJob, Fields, Places, Answer

\* More objects: nothing is lost.
LEMMA FitsMore ==
  ASSUME NEW j, NEW m \in Nat, NEW n \in Nat, NEW k \in Nat, NEW l \in Nat, Fits(j, m, n), m <= k, n <= l
  PROVE  Fits(j, k, l)
BY DEF Fits

LEMMA NewGroupIs ==
  ASSUME NEW trigger \in TriggerNames, NEW lb \in Algorithms
  PROVE  NewGroup(trigger, lb) \in Group
BY NoMapIsAMap DEF NewGroup, Group

\* What a goroutine does with its own job, and with nobody else's.
LEMMA DoesIs ==
  ASSUME DOMAIN job = Threads, NEW t \in Threads, NEW j, Does(t, j)
  PROVE  /\ DOMAIN job' = Threads /\ job'[t] = j
         /\ \A u \in Threads : u # t => job'[u] = job[u]
BY DEF Does

\* A job with some fields of NoJob replaced.
FillShaped(j, as, k, apps, locs) ==
  /\ DOMAIN j = Fields /\ j.at = "fill" /\ j.as = as /\ j.obj = k /\ j.from = apps
  /\ j.locs = locs /\ j.els = {} /\ j.elem = 0 /\ j.grps = {} /\ j.flag = FALSE

LEMMA FillShape ==
  ASSUME NEW as, NEW k, NEW apps, NEW unknown, NEW locs, NEW whole, NEW j,
         j = [NoJob EXCEPT !.at = "fill", !.as = as, !.obj = k, !.from = apps,
                           !.unknown = unknown, !.locs = locs, !.whole = whole]
  PROVE  FillShaped(j, as, k, apps, locs)
BY DEF NoJob, Fields, FillShaped

Filled(j, as, k, apps) ==
  /\ Fits(j, Len(mgs), Len(objs)) /\ j.at = "fill" /\ j.as = as /\ j.obj = k /\ j.from = apps
  /\ j.elem = 0

LEMMA FillingIs ==
  ASSUME Typed, NEW as, NEW k \in 1 .. Len(mgs), NEW apps \in SUBSET Apps, NEW alone
  PROVE  Filled(Filling(as, k, apps, alone), as, k, apps)
<1> DEFINE j == Filling(as, k, apps, alone)
           ls == IF loaded THEN Locs ELSE {}
<1>1. FillShaped(j, as, k, apps, ls)
  <2>1. PICK un : un = (\E a \in apps : ~Known(a))
    OBVIOUS
  <2>2. PICK wh : wh = (loaded /\ alone)
    OBVIOUS
  <2>3. j = [NoJob EXCEPT !.at = "fill", !.as = as, !.obj = k, !.from = apps,
                          !.unknown = un, !.locs = ls, !.whole = wh]
    BY <2>1, <2>2, Zenon DEF Filling
  <2> HIDE DEF j, ls
  <2> QED BY <2>3, FillShape
<1>2. Len(mgs) \in Nat /\ Len(objs) \in Nat
  BY DEF Typed, GroupsTyped, ElementsTyped
<1>3. ls \subseteq Locs
  OBVIOUS
<1> HIDE DEF j, ls
<1>4. Fits(j, Len(mgs), Len(objs))
  <2>1. DOMAIN j = Fields /\ j.at \in Places /\ j.flag \in BOOLEAN
    BY <1>1 DEF FillShaped, Places
  <2>2. j.from \subseteq Apps /\ j.locs \subseteq Locs /\ j.grps \subseteq Groups /\ (j.grps # {} => j.elem # 0)
    BY <1>1, <1>3 DEF FillShaped
  <2>3. j.els \subseteq 1 .. Len(objs) /\ j.elem \in 0 .. Len(objs)
    BY <1>1, <1>2 DEF FillShaped
  <2>4. j.at = "fill" /\ j.obj \in 1 .. Len(mgs)
    BY <1>1 DEF FillShaped
  <2> QED BY <2>1, <2>2, <2>3, <2>4 DEF Fits
<1> QED BY <1>1, <1>4 DEF j, FillShaped, Filled

PassShaped(j, as, els) ==
  /\ DOMAIN j = Fields /\ j.at = "pass" /\ j.as = as /\ j.els = els /\ j.elem = 0
  /\ j.grps = {} /\ j.flag = FALSE /\ j.from = {} /\ j.locs = {}

LEMMA PassShape ==
  ASSUME NEW as, NEW els, NEW j, j = [NoJob EXCEPT !.at = "pass", !.as = as, !.els = els]
  PROVE  PassShaped(j, as, els)
BY DEF NoJob, Fields, PassShaped

LEMMA PassingIs ==
  ASSUME Typed, NEW j
  PROVE  /\ Fits(Passing(j), Len(mgs), Len(objs))
         /\ Passing(j).at = "pass" /\ Passing(j).as = j.as /\ Passing(j).grps = {}
         /\ Passing(j).elem = 0
         /\ Passing(j).els = {netElems[e] : e \in DOMAIN netElems}
<1> DEFINE p == Passing(j)
           els == {netElems[e] : e \in DOMAIN netElems}
<1>0. p = [NoJob EXCEPT !.at = "pass", !.as = j.as, !.els = els]
  BY DEF Passing
<1>2. Len(mgs) \in Nat /\ Len(objs) \in Nat
  BY DEF Typed, GroupsTyped, ElementsTyped
<1>3. els \subseteq 1 .. Len(objs)
  BY DEF Typed, ElementsTyped
<1> HIDE DEF p, els
<1>1. PassShaped(p, j.as, els)
  BY <1>0, PassShape
<1>4. Fits(p, Len(mgs), Len(objs))
  <2>1. DOMAIN p = Fields /\ p.at \in Places /\ p.flag \in BOOLEAN
    BY <1>1 DEF PassShaped, Places
  <2>2. p.from \subseteq Apps /\ p.locs \subseteq Locs /\ p.grps \subseteq Groups /\ (p.grps # {} => p.elem # 0)
    BY <1>1 DEF PassShaped
  <2>3. p.els \subseteq 1 .. Len(objs) /\ p.elem \in 0 .. Len(objs)
    BY <1>1, <1>2, <1>3 DEF PassShaped
  <2>4. p.at = "pass"
    BY <1>1 DEF PassShaped
  <2> QED BY <2>1, <2>2, <2>3, <2>4 DEF Fits
<1> QED BY <1>1, <1>4 DEF p, els, PassShaped

LEMMA LeftIs ==
  ASSUME Typed, NEW t \in Threads, NEW i \in DOMAIN objs, NEW g \in Groups, At(t, "pass")
  PROVE  /\ Fits(Left(t, i, g), Len(mgs), Len(objs))
         /\ Left(t, i, g).at = "pass" /\ Left(t, i, g).as = job[t].as
         /\ Left(t, i, g).elem = i /\ Left(t, i, g).els = job[t].els \ {i}
         /\ Left(t, i, g).grps = {h \in Groups : <<i, h>> \in Due(job[t]) /\ h # g}
<1> DEFINE j == job[t]
           hs == {h \in Groups : <<i, h>> \in Due(job[t]) /\ h # g}
           l == [[[j EXCEPT !.elem = i] EXCEPT !.els = j.els \ {i}] EXCEPT !.grps = hs]
<1>1. Fits(j, Len(mgs), Len(objs)) /\ j.at = "pass"
  BY DEF Typed, JobsTyped, At
<1>2. i \in 1 .. Len(objs) /\ Len(objs) \in Nat
  BY DEF Typed, ElementsTyped
<1>3. Left(t, i, g) = l
  BY <1>1 DEF Left, Fits, Fields
<1> HIDE DEF hs
<1>4. hs \subseteq Groups
  BY DEF hs
<1>5. DOMAIN l = Fields /\ l.elem = i /\ l.els = j.els \ {i} /\ l.grps = hs /\ l.at = j.at /\ l.as = j.as
      /\ l.flag = j.flag /\ l.from = j.from /\ l.locs = j.locs
  BY <1>1 DEF Fits, Fields
<1> HIDE DEF l, j
<1>6. Fits(l, Len(mgs), Len(objs))
  BY <1>1, <1>2, <1>4, <1>5 DEF Fits
<1> QED BY <1>1, <1>3, <1>5, <1>6 DEF j, hs

LEMMA VisitedIs ==
  ASSUME NEW j, NEW m \in Nat, NEW n \in Nat, Fits(j, m, n)
  PROVE  /\ Fits(Visited(j), m, n) /\ Visited(j).at = "pass" /\ Visited(j).as = j.as
         /\ Visited(j).els = j.els /\ Visited(j).grps = j.grps
         /\ Visited(j).elem = IF j.grps = {} THEN 0 ELSE j.elem
BY DEF Visited, Fits, Fields, Places, Answer

-----------------------------------------------------------------------------
(* Every step keeps the types.                                             *)

\* One member of a sequence is replaced.
LEMMA Replaced ==
  ASSUME NEW S, NEW s \in Seq(S), NEW k \in 1 .. Len(s), NEW x \in S,
         NEW r, r = [s EXCEPT ![k] = x]
  PROVE  /\ r \in Seq(S) /\ Len(r) = Len(s) /\ r[k] = x
         /\ \A i \in 1 .. Len(s) : i # k => r[i] = s[i]
OBVIOUS

\* The goroutine of a step has a job that fits, and nothing disappears.
LEMMA JobsStayTyped ==
  ASSUME Typed, NEW t \in Threads, NEW j, Does(t, j),
         Len(mgs') \in Nat, Len(objs') \in Nat, Len(mgs) <= Len(mgs'), Len(objs) <= Len(objs'),
         Fits(j, Len(mgs'), Len(objs'))
  PROVE  JobsTyped'
<1>1. Len(mgs) \in Nat /\ Len(objs) \in Nat
  BY DEF Typed, GroupsTyped, ElementsTyped
<1>2. /\ DOMAIN job' = Threads /\ job'[t] = j
      /\ \A u \in Threads : u # t => job'[u] = job[u]
  BY DoesIs DEF Typed, JobsTyped
<1>3. ASSUME NEW u \in Threads
      PROVE  Fits(job'[u], Len(mgs'), Len(objs'))
  <2>1. CASE u = t
    BY <1>2, <2>1
  <2>2. CASE u # t
    <3>1. Fits(job[u], Len(mgs), Len(objs)) /\ job'[u] = job[u]
      BY <1>2, <2>2 DEF Typed, JobsTyped
    <3> QED BY <1>1, <3>1, FitsMore
  <2> QED BY <2>1, <2>2
<1> QED BY <1>2, <1>3 DEF JobsTyped

\* Nobody has another job, and nothing disappears.
LEMMA JobsFitMore ==
  ASSUME Typed, UNCHANGED job,
         Len(mgs') \in Nat, Len(objs') \in Nat, Len(mgs) <= Len(mgs'), Len(objs) <= Len(objs')
  PROVE  JobsTyped'
<1>1. Len(mgs) \in Nat /\ Len(objs) \in Nat
  BY DEF Typed, GroupsTyped, ElementsTyped
<1>2. ASSUME NEW u \in Threads
      PROVE  Fits(job'[u], Len(mgs'), Len(objs'))
  <2>1. Fits(job[u], Len(mgs), Len(objs)) /\ job'[u] = job[u]
    BY DEF Typed, JobsTyped
  <2> QED BY <1>1, <2>1, FitsMore
<1> QED BY <1>2 DEF Typed, JobsTyped

Lengths == Len(mgs) \in Nat /\ Len(objs) \in Nat /\ Len(mgs) = Len(mgs') /\ Len(objs) = Len(objs')

LEMMA LengthsStay ==
  ASSUME Typed, UNCHANGED <<mgs, objs>>
  PROVE  Lengths
BY DEF Typed, GroupsTyped, ElementsTyped, Lengths

\* A step that only touches the job of its goroutine, and the tales.
LEMMA JobOnly ==
  ASSUME Typed, NEW t \in Threads, NEW j, Does(t, j), Fits(j, Len(mgs), Len(objs)),
         active' \in Docs \cup {NoDoc},
         UNCHANGED <<svcs, mgs, mgInfoMap, objs, netElems>>, TalesTyped'
  PROVE  Typed'
<1>1. Lengths
  BY LengthsStay
<1>2. JobsTyped'
  BY <1>1, JobsStayTyped DEF Lengths
<1> QED BY <1>2 DEF Typed, GroupsTyped, ElementsTyped

LEMMA TalesStay ==
  ASSUME Typed, UNCHANGED <<objs, open, late, passed, outdated>>
  PROVE  TalesTyped'
BY DEF Typed, TalesTyped

\* The goroutine goes idle.
LEMMA IdleTyped ==
  ASSUME Typed, NEW t \in Threads, Does(t, NoJob), active' = active,
         UNCHANGED <<svcs, mgs, mgInfoMap, objs, netElems, open, late, passed, outdated>>
  PROVE  Typed'
<1>1. Fits(NoJob, Len(mgs), Len(objs))
  BY LengthsStay, NoJobFits DEF Lengths
<1> QED BY <1>1, JobOnly, TalesStay DEF Typed, GroupsTyped

LEMMA OutdateTyped ==
  ASSUME Outdate, Typed
  PROVE  outdated' \in [Threads -> BOOLEAN]
BY DEF Outdate, Typed, TalesTyped

\* One group is replaced, perhaps the job of a goroutine, and nothing else.
LEMMA GroupReplaced ==
  ASSUME Typed, NEW k \in 1 .. Len(mgs), NEW G \in Group, mgs' = [mgs EXCEPT ![k] = G],
         UNCHANGED <<active, svcs, mgInfoMap, objs, netElems, open, late, passed, outdated>>
  PROVE  GroupsTyped' /\ ElementsTyped' /\ TalesTyped' /\ Lengths
<1>1. mgs' \in Seq(Group) /\ Len(mgs') = Len(mgs) /\ Len(mgs) \in Nat
  BY Replaced DEF Typed, GroupsTyped
<1>2. GroupsTyped'
  BY <1>1 DEF Typed, GroupsTyped
<1> QED BY <1>1, <1>2, TalesStay DEF Typed, ElementsTyped, Lengths

\* Leave: a goroutine that has done with the map of a group.
LEMMA LeaveFits ==
  ASSUME Typed, NEW t \in Threads, NEW well, Leave(t, well)
  PROVE  \E j : Does(t, j) /\ Fits(j, Len(mgs), Len(objs))
<1>1. Fits(NoJob, Len(mgs), Len(objs))
  BY NoJobFits DEF Typed, GroupsTyped, ElementsTyped
<1>2. Fits(Passing(job[t]), Len(mgs), Len(objs))
  BY PassingIs
<1> DEFINE j == IF job[t].as = "app" THEN Passing(job[t]) ELSE NoJob
<1>3. Does(t, j)
  BY DEF Leave
<1>4. Fits(j, Len(mgs), Len(objs))
  BY <1>1, <1>2
<1> QED BY <1>3, <1>4

LEMMA ClosestIsAnswer ==
  ASSUME NEW S \in SUBSET Apps, NEW l, NEW a \in Closest(S, l)
  PROVE  a \in Answer
BY DEF Closest, Answer

LEMMA FillLocTyped == ASSUME Typed, NEW t \in Threads, FillLoc(t) PROVE Typed'
<1> DEFINE k == job[t].obj
<1>0. PICK l \in job[t].locs : \E a \in Closest(job[t].from, l) :
        /\ mgs' = [mgs EXCEPT ![k].appMap[l] = a]
        /\ IF job[t].locs = {l} THEN Leave(t, job[t].whole)
           ELSE /\ Does(t, [job[t] EXCEPT !.locs = @ \ {l}])
                /\ UNCHANGED <<patchy, risky>>
  BY DEF FillLoc
<1>1. PICK a \in Closest(job[t].from, l) :
        /\ mgs' = [mgs EXCEPT ![k].appMap[l] = a]
        /\ IF job[t].locs = {l} THEN Leave(t, job[t].whole)
           ELSE /\ Does(t, [job[t] EXCEPT !.locs = @ \ {l}])
                /\ UNCHANGED <<patchy, risky>>
  BY <1>0
<1>2. Fits(job[t], Len(mgs), Len(objs)) /\ job[t].at = "fill"
  BY DEF Typed, JobsTyped, FillLoc, At
<1>3. k \in 1 .. Len(mgs) /\ l \in Locs /\ a \in Answer
  BY <1>2, ClosestIsAnswer DEF Fits
<1>4. mgs[k] \in Group /\ mgs \in Seq(Group)
  BY <1>3 DEF Typed, GroupsTyped
<1> DEFINE m == [mgs[k].appMap EXCEPT ![l] = a]
           G == [mgs[k] EXCEPT !.appMap = m]
<1>5. m \in Maps
  BY <1>3, <1>4 DEF Group, Maps
<1>6. mgs' = [mgs EXCEPT ![k] = G]
  BY <1>1
<1> HIDE DEF m
<1>7. G \in Group
  BY <1>4, <1>5 DEF Group
<1> HIDE DEF G
<1>8. GroupsTyped' /\ ElementsTyped' /\ TalesTyped' /\ Lengths
  BY <1>3, <1>6, <1>7, GroupReplaced DEF FillLoc
<1>9. Fits([job[t] EXCEPT !.locs = @ \ {l}], Len(mgs), Len(objs))
  BY <1>2 DEF Fits, Fields
<1>10. \E j : Does(t, j) /\ Fits(j, Len(mgs), Len(objs))
  BY <1>1, <1>9, LeaveFits
<1>11. JobsTyped'
  BY <1>8, <1>10, JobsStayTyped DEF Lengths
<1> QED BY <1>8, <1>11 DEF Typed

LEMMA FillPanicsTyped == ASSUME Typed, NEW t \in Threads, FillPanics(t) PROVE Typed'
BY IdleTyped DEF FillPanics

LEMMA LeaveMapTyped == ASSUME Typed, NEW t \in Threads, LeaveMap(t) PROVE Typed'
<1>1. PICK j : Does(t, j) /\ Fits(j, Len(mgs), Len(objs))
  BY LeaveFits DEF LeaveMap
<1>2. TalesTyped'
  BY TalesStay DEF LeaveMap
<1> QED BY <1>1, <1>2, JobOnly DEF LeaveMap, Typed, GroupsTyped

LEMMA PassOverTyped ==
  ASSUME Typed, NEW t \in Threads, NEW i \in DOMAIN objs, NEW g \in Groups, PassOver(t, i, g)
  PROVE  Typed'
<1>1. Fits(Left(t, i, g), Len(mgs), Len(objs))
  BY LeftIs DEF PassOver, Visits
<1>2. TalesTyped'
  BY DEF Typed, TalesTyped, PassOver, ElementsTyped
<1> QED BY <1>1, <1>2, JobOnly DEF PassOver, Typed, GroupsTyped

\* A goroutine in a visit.
LEMMA VisitFits ==
  ASSUME NEW j, NEW m \in Nat, NEW n \in Nat, Fits(j, m, n), j.elem # 0,
         NEW at \in Places, NEW g \in Groups, NEW b \in Answer, NEW k \in 1 .. m, NEW r,
         NEW v, v = [j EXCEPT !.at = at, !.obj = k, !.grp = g, !.best = b, !.ranged = r]
  PROVE  Fits(v, m, n)
<1>1. /\ DOMAIN v = Fields /\ v.at = at /\ v.obj = k /\ v.grp = g /\ v.best = b
      /\ v.flag = j.flag /\ v.from = j.from /\ v.locs = j.locs /\ v.els = j.els
      /\ v.elem = j.elem /\ v.grps = j.grps
  BY DEF Fits, Fields
<1> QED BY <1>1 DEF Fits

LEMMA LookFits ==
  ASSUME NEW j, NEW m \in Nat, NEW n \in Nat, Fits(j, m, n), j.elem # 0,
         NEW g \in Groups, NEW b \in Answer,
         NEW v, v = [j EXCEPT !.at = "write", !.grp = g, !.best = b]
  PROVE  Fits(v, m, n)
<1>1. /\ DOMAIN v = Fields /\ v.at = "write" /\ v.grp = g /\ v.best = b
      /\ v.flag = j.flag /\ v.from = j.from /\ v.locs = j.locs /\ v.els = j.els
      /\ v.elem = j.elem /\ v.grps = j.grps
  BY DEF Fits, Fields
<1> QED BY <1>1 DEF Fits, Places

\* A goroutine goes on to another place of the same visit.
LEMMA GoesOnFits ==
  ASSUME NEW j, NEW m \in Nat, NEW n \in Nat, Fits(j, m, n), j.at \in {"move", "decide"},
         NEW at \in {"decide", "flag"}, NEW f \in BOOLEAN,
         NEW v, v = [j EXCEPT !.at = at, !.flag = f]
  PROVE  Fits(v, m, n)
<1>1. /\ DOMAIN v = Fields /\ v.at = at /\ v.grp = j.grp /\ v.best = j.best /\ v.obj = j.obj
      /\ v.flag = f /\ v.from = j.from /\ v.locs = j.locs /\ v.els = j.els
      /\ v.elem = j.elem /\ v.grps = j.grps
  BY DEF Fits, Fields
<1> QED BY <1>1 DEF Fits, Places

LEMMA LengthsAre ==
  ASSUME Typed
  PROVE  Len(mgs) \in Nat /\ Len(objs) \in Nat /\ DOMAIN mgs = 1 .. Len(mgs) /\ DOMAIN objs = 1 .. Len(objs)
BY DEF Typed, GroupsTyped, ElementsTyped

LEMMA AppAtIsAnswer ==
  ASSUME NEW mg \in Group, NEW l \in Locs
  PROVE  AppAt(mg, l) \in Answer
<1>1. CASE mg.dflt = Unset
  BY <1>1 DEF AppAt, Group, Maps, Answer
<1>2. CASE mg.dflt # Unset
  BY <1>2 DEF AppAt, Group, Maps, Answer
<1> QED BY <1>1, <1>2

LEMMA LookTyped ==
  ASSUME Typed, NEW t \in Threads, NEW i \in DOMAIN objs, NEW g \in Groups, Look(t, i, g)
  PROVE  Typed'
<1> DEFINE j == Left(t, i, g)
           b == AppAt(mgs[mgInfoMap[g]], objs[i].net)
           v == [j EXCEPT !.at = "write", !.grp = g, !.best = b]
<1>1. Fits(j, Len(mgs), Len(objs)) /\ j.elem = i
  BY LeftIs DEF Look, Visits
<1>2. Len(mgs) \in Nat /\ Len(objs) \in Nat /\ i # 0
  BY LengthsAre
<1>3. mgs[mgInfoMap[g]] \in Group /\ objs[i].net \in Locs
  <2>1. mgInfoMap[g] \in 1 .. Len(mgs) /\ i \in 1 .. Len(objs)
    BY LengthsAre DEF Look, Typed, GroupsTyped
  <2>2. mgs[mgInfoMap[g]] \in Group
    BY <2>1 DEF Typed, GroupsTyped
  <2>3. objs[i] \in Element
    BY <2>1 DEF Typed, ElementsTyped
  <2> QED BY <2>2, <2>3 DEF Element
<1>4. b \in Answer
  BY <1>3, AppAtIsAnswer
<1>5. Does(t, v)
  BY DEF Look
<1> HIDE DEF j, b
<1>6. Fits(v, Len(mgs), Len(objs))
  BY <1>1, <1>2, <1>4, LookFits
<1>7. TalesTyped'
  BY TalesStay DEF Look, tales
<1> QED BY <1>5, <1>6, <1>7, JobOnly DEF Look, Typed, GroupsTyped

LEMMA TrackPanicsTyped ==
  ASSUME Typed, NEW t \in Threads, NEW i \in DOMAIN objs, NEW g \in Groups, TrackPanics(t, i, g)
  PROVE  Typed'
BY IdleTyped DEF TrackPanics

\* What a goroutine that tracks an element finds.
LEMMA TrackFinds ==
  ASSUME Typed, NEW t \in Threads, NEW i \in DOMAIN objs, NEW g \in Groups, Visits(t, i, g),
         Tracked(i, g)
  PROVE  /\ mgInfoMap[g] \in 1 .. Len(mgs) /\ mgs[mgInfoMap[g]] \in Group
         /\ i \in 1 .. Len(objs) /\ objs[i] \in Element
         /\ mgs[mgInfoMap[g]].appMap[objs[i].net] \in Answer
         /\ \A l \in objs[i].range : mgs[mgInfoMap[g]].appMap[l] \in Answer
<1>1. mgInfoMap[g] \in 1 .. Len(mgs) /\ i \in 1 .. Len(objs)
  BY LengthsAre DEF Tracked, Typed, GroupsTyped
<1>2. mgs[mgInfoMap[g]] \in Group /\ objs[i] \in Element
  BY <1>1 DEF Typed, GroupsTyped, ElementsTyped
<1> QED BY <1>1, <1>2 DEF Group, Element, Maps

LEMMA TrackTyped ==
  ASSUME Typed, NEW t \in Threads, NEW i \in DOMAIN objs, NEW g \in Groups, Track(t, i, g)
  PROVE  Typed'
<1> DEFINE k    == mgInfoMap[g]
           best == mgs[k].appMap[objs[i].net]
           near == {best} \cup {mgs[k].appMap[l] : l \in objs[i].range \ {objs[i].net}}
           both == mgs[k].trigger = "NET-LOC-IN-RANGE"
           ns   == [mgs[k].inRange EXCEPT ![objs[i].phy] = near]
           G    == [mgs[k] EXCEPT !.inRange = ns]
           at   == IF best # objs[i].map[g] THEN "move" ELSE "decide"
           v    == [Left(t, i, g) EXCEPT !.at = at, !.obj = k, !.grp = g, !.best = best, !.ranged = both]
<1>1. /\ k \in 1 .. Len(mgs) /\ mgs[k] \in Group /\ i \in 1 .. Len(objs) /\ objs[i] \in Element
      /\ best \in Answer
      /\ \A l \in objs[i].range : mgs[k].appMap[l] \in Answer
  BY TrackFinds DEF Track
<1>2. ns \in [PLs -> SUBSET Answer]
  <2>1. near \subseteq Answer
    BY <1>1
  <2> HIDE DEF near
  <2> QED BY <1>1, <2>1 DEF Group, Element
<1>3. mgs' = [mgs EXCEPT ![k] = G] \/ mgs' = mgs
  BY DEF Track
<1>4. Does(t, Left(t, i, g)) \/ Does(t, v)
  BY DEF Track
<1>5. TalesTyped'
  BY <1>1 DEF Track, Typed, TalesTyped
<1>6. Fits(Left(t, i, g), Len(mgs), Len(objs)) /\ Left(t, i, g).elem = i
  BY LeftIs DEF Track, Visits
<1>7. at \in Places /\ Len(mgs) \in Nat /\ Len(objs) \in Nat /\ i # 0
  BY <1>1, LengthsAre DEF Places
<1> HIDE DEF best, near, both, ns, at, k
<1>8. Fits(v, Len(mgs), Len(objs))
  BY <1>1, <1>6, <1>7, VisitFits
<1> HIDE DEF v
<1>9. G \in Group
  BY <1>1, <1>2 DEF Group
<1> HIDE DEF G
<1>10. mgs' \in Seq(Group) /\ Len(mgs') = Len(mgs)
  <2>1. CASE mgs' = [mgs EXCEPT ![k] = G]
    BY <1>1, <1>9, <2>1, Replaced DEF Typed, GroupsTyped
  <2>2. CASE mgs' = mgs
    BY <2>2 DEF Typed, GroupsTyped
  <2> QED BY <1>3, <2>1, <2>2
<1>11. GroupsTyped' /\ ElementsTyped'
  BY <1>10 DEF Track, Typed, GroupsTyped, ElementsTyped
<1>12. JobsTyped'
  <2>1. objs' = objs
    BY DEF Track
  <2> QED BY <1>4, <1>6, <1>7, <1>8, <1>10, <2>1, JobsStayTyped
<1> QED BY <1>5, <1>11, <1>12 DEF Typed

\* One element is replaced, and the job of the goroutine.
LEMMA ElementReplaced ==
  ASSUME Typed, NEW t \in Threads, NEW k \in 1 .. Len(objs), NEW E \in Element,
         objs' = [objs EXCEPT ![k] = E],
         NEW j, Does(t, j), Fits(j, Len(mgs), Len(objs)),
         UNCHANGED <<active, svcs, mgs, mgInfoMap, netElems>>,
         TalesTyped
  PROVE  GroupsTyped' /\ ElementsTyped' /\ JobsTyped' /\ Len(objs') = Len(objs)
<1>1. objs' \in Seq(Element) /\ Len(objs') = Len(objs) /\ Len(objs) \in Nat /\ Len(mgs) \in Nat
  BY Replaced DEF Typed, ElementsTyped, GroupsTyped
<1>2. JobsTyped'
  BY <1>1, JobsStayTyped
<1> QED BY <1>1, <1>2 DEF Typed, GroupsTyped, ElementsTyped

\* The job of a goroutine that visits an element.
LEMMA VisitorIs ==
  ASSUME Typed, NEW t \in Threads, job[t].at \in {"write", "move", "decide", "flag"}
  PROVE  /\ Fits(job[t], Len(mgs), Len(objs)) /\ Fits(Visited(job[t]), Len(mgs), Len(objs))
         /\ job[t].elem \in 1 .. Len(objs) /\ job[t].grp \in Groups /\ job[t].best \in Answer
         /\ job[t].flag \in BOOLEAN /\ objs[job[t].elem] \in Element
         /\ job[t].at # "write" => job[t].obj \in 1 .. Len(mgs) /\ mgs[job[t].obj] \in Group
<1>1. Fits(job[t], Len(mgs), Len(objs)) /\ Len(mgs) \in Nat /\ Len(objs) \in Nat
  BY LengthsAre DEF Typed, JobsTyped
<1>2. Fits(Visited(job[t]), Len(mgs), Len(objs))
  BY <1>1, VisitedIs
<1>3. job[t].elem \in 1 .. Len(objs) /\ job[t].grp \in Groups /\ job[t].best \in Answer /\ job[t].flag \in BOOLEAN
  BY <1>1 DEF Fits
<1>4. job[t].at # "write" => job[t].obj \in 1 .. Len(mgs)
  BY <1>1 DEF Fits
<1> QED BY <1>1, <1>2, <1>3, <1>4 DEF Typed, GroupsTyped, ElementsTyped

LEMMA NotedTyped ==
  ASSUME Typed, NEW t \in Threads, job[t].at \in {"write", "move"}, Noted(t)
  PROVE  late' \subseteq (1 .. Len(objs)) \X Groups
<1>1. job[t].elem \in 1 .. Len(objs) /\ job[t].grp \in Groups
  BY VisitorIs
<1> QED BY <1>1 DEF Noted, Typed, TalesTyped

LEMMA SetSvcMapTyped == ASSUME Typed, NEW t \in Threads, SetSvcMap(t) PROVE Typed'
<1> DEFINE k == job[t].elem
           m == [objs[k].map EXCEPT ![job[t].grp] = job[t].best]
           E == [objs[k] EXCEPT !.map = m]
<1>1. job[t].at = "write"
  BY DEF SetSvcMap, At
<1>2. /\ Fits(Visited(job[t]), Len(mgs), Len(objs))
      /\ k \in 1 .. Len(objs) /\ job[t].grp \in Groups /\ job[t].best \in Answer
      /\ objs[k] \in Element
  BY <1>1, VisitorIs
<1>3. m \in [Groups -> Served]
  BY <1>2 DEF Element, Served
<1>4. objs' = [objs EXCEPT ![k] = E]
  BY DEF SetSvcMap
<1> HIDE DEF m
<1>5. E \in Element
  BY <1>2, <1>3 DEF Element
<1> HIDE DEF E
<1>6. GroupsTyped' /\ ElementsTyped' /\ JobsTyped' /\ Len(objs') = Len(objs)
  BY <1>2, <1>4, <1>5, ElementReplaced DEF SetSvcMap, Typed
<1>7. late' \subseteq (1 .. Len(objs)) \X Groups
  BY <1>1, NotedTyped DEF SetSvcMap
<1>8. outdated' \in [Threads -> BOOLEAN]
  BY OutdateTyped DEF SetSvcMap
<1>9. TalesTyped'
  BY <1>6, <1>7, <1>8 DEF SetSvcMap, Typed, TalesTyped
<1> QED BY <1>6, <1>9 DEF Typed

LEMMA MoveTyped == ASSUME Typed, NEW t \in Threads, Move(t) PROVE Typed'
<1> DEFINE k == job[t].elem
           m == [objs[k].map EXCEPT ![job[t].grp] = job[t].best]
           E == [[objs[k] EXCEPT !.map = m] EXCEPT !.transfer = FALSE]
           v == [job[t] EXCEPT !.at = "decide", !.flag = job[t].flag]
           w == [job[t] EXCEPT !.at = "decide"]
<1>1. job[t].at = "move"
  BY DEF Move, At
<1>2. /\ Fits(Visited(job[t]), Len(mgs), Len(objs)) /\ Fits(job[t], Len(mgs), Len(objs))
      /\ k \in 1 .. Len(objs) /\ job[t].grp \in Groups /\ job[t].best \in Answer
      /\ objs[k] \in Element
  BY <1>1, VisitorIs
<1>3. m \in [Groups -> Served]
  BY <1>2 DEF Element, Served
<1>4. objs' = [objs EXCEPT ![k] = E]
  BY <1>2 DEF Move, Typed, ElementsTyped
<1> HIDE DEF m
<1>5. E \in Element
  BY <1>2, <1>3 DEF Element
<1> HIDE DEF E
<1>11. Fits(w, Len(mgs), Len(objs))
  <2>1. w = v
    BY <1>2 DEF Fits, Fields
  <2>2. job[t].flag \in BOOLEAN /\ Len(mgs) \in Nat /\ Len(objs) \in Nat
    BY <1>1, VisitorIs, LengthsAre
  <2>3. Fits(v, Len(mgs), Len(objs))
    BY <1>1, <1>2, <2>2, GoesOnFits
  <2> QED BY <2>1, <2>3
<1>12. Does(t, w) \/ Does(t, Visited(job[t]))
  BY DEF Move
<1> HIDE DEF w
<1>6. GroupsTyped' /\ ElementsTyped' /\ JobsTyped' /\ Len(objs') = Len(objs)
  BY <1>2, <1>4, <1>5, <1>11, <1>12, ElementReplaced DEF Move, Typed
<1>7. late' \subseteq (1 .. Len(objs)) \X Groups
  BY <1>1, NotedTyped DEF Move
<1>8. outdated' \in [Threads -> BOOLEAN]
  BY OutdateTyped DEF Move
<1>9. TalesTyped'
  BY <1>6, <1>7, <1>8 DEF Move, Typed, TalesTyped
<1> QED BY <1>6, <1>9 DEF Typed

LEMMA DecideTyped == ASSUME Typed, NEW t \in Threads, Decide(t) PROVE Typed'
<1> DEFINE mg   == mgs[job[t].obj]
           pair == <<job[t].elem, job[t].grp>>
           many == Cardinality(mg.inRange[objs[job[t].elem].phy]) > 1
           w    == [job[t] EXCEPT !.at = "flag", !.flag = many]
<1>1. job[t].at = "decide"
  BY DEF Decide, At
<1>2. /\ Fits(Visited(job[t]), Len(mgs), Len(objs)) /\ Fits(job[t], Len(mgs), Len(objs))
      /\ pair \in (1 .. Len(objs)) \X Groups
  BY <1>1, VisitorIs
<1>3. open' \subseteq open \cup {pair}
  BY DEF Decide
<1>4. Does(t, w) \/ Does(t, Visited(job[t]))
  BY DEF Decide
<1>5. many \in BOOLEAN
  OBVIOUS
<1> HIDE DEF many
<1>6. Fits(w, Len(mgs), Len(objs))
  BY <1>1, <1>2, <1>5, LengthsAre, GoesOnFits
<1>7. TalesTyped'
  BY <1>2, <1>3 DEF Decide, Typed, TalesTyped
<1> HIDE DEF w
<1> QED BY <1>2, <1>4, <1>6, <1>7, JobOnly DEF Decide, Typed, GroupsTyped

LEMMA SetFlagTyped == ASSUME Typed, NEW t \in Threads, SetFlag(t) PROVE Typed'
<1> DEFINE k == job[t].elem
           E == [objs[k] EXCEPT !.transfer = job[t].flag]
<1>1. job[t].at = "flag"
  BY DEF SetFlag, At
<1>2. /\ Fits(Visited(job[t]), Len(mgs), Len(objs)) /\ k \in 1 .. Len(objs)
      /\ job[t].flag \in BOOLEAN /\ objs[k] \in Element
  BY <1>1, VisitorIs
<1>4. objs' = [objs EXCEPT ![k] = E]
  BY DEF SetFlag
<1>5. E \in Element
  BY <1>2 DEF Element
<1> HIDE DEF E
<1>6. GroupsTyped' /\ ElementsTyped' /\ JobsTyped' /\ Len(objs') = Len(objs)
  BY <1>2, <1>4, <1>5, ElementReplaced DEF SetFlag, Typed
<1>9. TalesTyped'
  BY <1>6 DEF SetFlag, Typed, TalesTyped, tales
<1> QED BY <1>6, <1>9 DEF Typed

\* A goroutine outside of a visit.
Free(j) ==
  /\ DOMAIN j = Fields /\ j.at \in {"store", "clear", "defaults"} /\ j.els = {} /\ j.elem = 0
  /\ j.grps = {} /\ j.flag = FALSE /\ j.from = {} /\ j.locs = {}

LEMMA FreeFits ==
  ASSUME NEW m \in Nat, NEW n \in Nat, NEW j, Free(j)
  PROVE  Fits(j, m, n)
<1> USE DEF Free
<1>1. j.at \in Places
  BY DEF Places
<1>2. j.els \subseteq 1 .. n /\ j.elem \in 0 .. n /\ j.grps \subseteq Groups
  OBVIOUS
<1>3. ~(j.at \in {"write", "move", "decide", "flag"}) /\ ~(j.at \in {"fill", "move", "decide", "flag"})
  OBVIOUS
<1> QED BY <1>1, <1>2, <1>3 DEF Fits

LEMMA ListMappingTyped == ASSUME Typed, NEW t \in Threads, ListMapping(t) PROVE Typed'
<1> DEFINE j == [NoJob EXCEPT !.at = "store", !.as = job[t].as, !.list = Mapping]
<1>1. Free(j)
  BY DEF NoJob, Fields, Free
<1>2. Does(t, j)
  BY DEF ListMapping
<1> HIDE DEF j
<1>3. Fits(j, Len(mgs), Len(objs))
  BY <1>1, LengthsAre, FreeFits
<1>4. TalesTyped'
  BY DEF ListMapping, Typed, TalesTyped
<1> QED BY <1>2, <1>3, <1>4, JobOnly DEF ListMapping, Typed, GroupsTyped

LEMMA StoreMappingTyped == ASSUME Typed, NEW t \in Threads, StoreMapping(t) PROVE Typed'
BY IdleTyped DEF StoreMapping

LEMMA StayTyped ==
  ASSUME Typed, active' \in Docs \cup {NoDoc},
         UNCHANGED <<svcs, mgs, mgInfoMap, objs, netElems, job, open, late, passed, outdated>>
  PROVE  Typed'
BY DEF Typed, GroupsTyped, ElementsTyped, JobsTyped, TalesTyped

LEMMA NewsTyped == ASSUME Typed, ScenarioChange \/ Run \/ Notify \/ Idle PROVE Typed'
<1>1. active' \in Docs \cup {NoDoc}
  BY DEF Typed, GroupsTyped, ScenarioChange, Run, Notify, Idle, vars
<1> QED BY <1>1, StayTyped DEF ScenarioChange, Run, Notify, Idle, vars, tales

LEMMA ListenerIs == Listener \in Threads
BY DEF Threads

\* Maps that are emptied.
LEMMA NothingTyped ==
  /\ <<>> \in Seq(Group) /\ <<>> \in Seq(Element) /\ Len(<<>>) = 0 /\ DOMAIN <<>> = {}
  /\ [g \in Groups |-> 0] \in [Groups -> 0 .. 0] /\ [g \in Groups |-> {}] \in [Groups -> SUBSET Apps]
BY EmptyTuple

LEMMA ClearFits ==
  ASSUME NEW m \in Nat, NEW n \in Nat, NEW j, j = [NoJob EXCEPT !.at = "clear", !.as = "clear"]
  PROVE  Fits(j, m, n)
<1>1. Free(j)
  BY DEF NoJob, Fields, Free
<1> QED BY <1>1, FreeFits

LEMMA DefaultsFits ==
  ASSUME NEW m \in Nat, NEW n \in Nat, NEW as, NEW j, j = [NoJob EXCEPT !.at = "defaults", !.as = as]
  PROVE  Fits(j, m, n)
<1>1. Free(j)
  BY DEF NoJob, Fields, Free
<1> QED BY <1>1, FreeFits

LEMMA ClearScenarioTyped == ASSUME Typed, ClearScenario PROVE Typed'
<1> DEFINE j == [NoJob EXCEPT !.at = "clear", !.as = "clear"]
<1>1. Does(Listener, j)
  BY DEF ClearScenario
<1>2. Fits(j, Len(mgs), Len(objs))
  BY LengthsAre, ClearFits
<1> HIDE DEF j
<1>3. Lengths
  BY LengthsStay DEF ClearScenario
<1>4. JobsTyped'
  BY <1>1, <1>2, <1>3, ListenerIs, JobsStayTyped DEF Lengths
<1>5. GroupsTyped'
  BY NothingTyped DEF ClearScenario, Typed, GroupsTyped
<1>6. ElementsTyped' /\ TalesTyped'
  BY DEF ClearScenario, Typed, ElementsTyped, TalesTyped
<1> QED BY <1>4, <1>5, <1>6 DEF Typed

LEMMA ClearRulesTyped == ASSUME Typed, ClearRules PROVE Typed'
<1>1. JobsTyped'
  <2>1. Lengths
    BY LengthsStay DEF ClearRules
  <2>2. Fits(NoJob, Len(mgs), Len(objs))
    BY LengthsAre, NoJobFits
  <2> QED BY <2>1, <2>2, ListenerIs, JobsStayTyped DEF Lengths, ClearRules
<1>2. GroupsTyped'
  <2>1. mgInfoMap' \in [Groups -> 0 .. Len(mgs')]
    BY LengthsAre DEF ClearRules
  <2> QED BY <2>1 DEF ClearRules, Typed, GroupsTyped
<1>3. ElementsTyped'
  BY NothingTyped DEF ClearRules, Typed, ElementsTyped
<1>4. TalesTyped'
  BY OutdateTyped DEF ClearRules, Typed, TalesTyped
<1> QED BY <1>1, <1>2, <1>3, <1>4 DEF Typed

LEMMA DefaultsPanicTyped == ASSUME Typed, DefaultsPanic PROVE Typed'
BY IdleTyped, ListenerIs DEF DefaultsPanic, tales

LEMMA SetDefaultsTyped == ASSUME Typed, SetDefaults PROVE Typed'
<1>1. PICK d \in [Groups -> [Locs -> Apps \cup {NoApp}]] :
        mgs' = [k \in 1 .. Len(mgs) |->
                  IF \E g \in Undefault : mgInfoMap[g] = k
                  THEN [mgs[k] EXCEPT !.dflt = d[CHOOSE g \in Undefault : mgInfoMap[g] = k]]
                  ELSE mgs[k]]
  BY DEF SetDefaults
<1> DEFINE x(k) == IF \E g \in Undefault : mgInfoMap[g] = k
                   THEN [mgs[k] EXCEPT !.dflt = d[CHOOSE g \in Undefault : mgInfoMap[g] = k]]
                   ELSE mgs[k]
<1>2. ASSUME NEW k \in 1 .. Len(mgs)
      PROVE  x(k) \in Group
  <2>1. mgs[k] \in Group
    BY DEF Typed, GroupsTyped
  <2>2. CASE \E g \in Undefault : mgInfoMap[g] = k
    <3> DEFINE g == CHOOSE g \in Undefault : mgInfoMap[g] = k
    <3>1. g \in Groups
      BY <2>2 DEF Undefault
    <3>2. d[g] \in Maps
      BY <3>1 DEF Maps, Answer
    <3> HIDE DEF g
    <3>3. [mgs[k] EXCEPT !.dflt = d[g]] \in Group
      BY <2>1, <3>2 DEF Group
    <3> QED BY <2>2, <3>3 DEF g
  <2>3. CASE ~ \E g \in Undefault : mgInfoMap[g] = k
    BY <2>1, <2>3
  <2> QED BY <2>2, <2>3
<1>3. mgs' = [k \in 1 .. Len(mgs) |-> x(k)]
  BY <1>1
<1> HIDE DEF x
<1>4. mgs' \in Seq(Group) /\ Len(mgs') = Len(mgs) /\ Len(mgs) \in Nat /\ Len(objs) \in Nat
  BY <1>2, <1>3, LengthsAre
<1>5. Does(Listener, Passing(job[Listener])) /\ objs' = objs
  BY DEF SetDefaults
<1>6. JobsTyped'
  BY <1>4, <1>5, ListenerIs, PassingIs, JobsStayTyped
<1>7. GroupsTyped'
  BY <1>4 DEF SetDefaults, Typed, GroupsTyped
<1>8. ElementsTyped' /\ TalesTyped'
  BY DEF SetDefaults, Typed, ElementsTyped, TalesTyped, tales
<1> QED BY <1>6, <1>7, <1>8 DEF Typed

LEMMA RestartTyped == ASSUME Typed, Restart PROVE Typed'
<1>1. Len(mgs') = 0 /\ Len(objs') = 0
  BY NothingTyped DEF Restart
<1>2. JobsTyped'
  <2>1. \A t \in Threads : job'[t] = NoJob
    BY DEF Restart
  <2>2. DOMAIN job' = Threads
    BY DEF Restart
  <2> QED BY <1>1, <2>1, <2>2, NoJobFits DEF JobsTyped
<1>3. GroupsTyped'
  BY NothingTyped DEF Restart, Typed, GroupsTyped
<1>4. ElementsTyped'
  BY NothingTyped DEF Restart, Typed, ElementsTyped
<1>5. TalesTyped'
  BY DEF Restart, Typed, TalesTyped
<1> QED BY <1>2, <1>3, <1>4, <1>5 DEF Typed

\* The sequence of a finite set lists every member once.
LEMMA SetToSeqLists ==
  ASSUME NEW S, IsFiniteSet(S)
  PROVE  LET s == SetToSeq(S)
         IN  /\ Len(s) \in Nat /\ s \in [1 .. Len(s) -> S] /\ IsInjective(s)
             /\ \A x \in S : \E i \in 1 .. Len(s) : s[i] = x
<1> DEFINE n == Cardinality(S)
           s == SetToSeq(S)
<1>1. n \in Nat /\ ExistsBijection(1 .. n, S)
  BY FS_CardinalityType
<1>2. PICK f \in [1 .. n -> S] : IsInjective(f)
  BY <1>1 DEF ExistsBijection, Bijection, Injection
<1>3. s \in [1 .. n -> S] /\ IsInjective(s)
  BY <1>2 DEF SetToSeq
<1>4. s \in Surjection(1 .. n, S)
  <2>1. s \in Injection(1 .. n, S)
    BY <1>3 DEF Injection
  <2>2. Cardinality(1 .. n) = n
    BY <1>1, FS_Interval
  <2> QED BY <2>1, <2>2, FS_Injection
<1> HIDE DEF n, s
<1>5. Len(s) = n
  BY <1>1, <1>3
<1> QED BY <1>1, <1>3, <1>4, <1>5 DEF Surjection, s

\* The groups that a scenario adds come after the others, each in its place.
Longer(ms, S, mg) == ms \o [k \in 1 .. Len(SetToSeq(S)) |-> mg]

\* Where the groups are then found.
Index(ms, S, im) ==
  [g \in Groups |-> IF \E k \in 1 .. Len(SetToSeq(S)) : SetToSeq(S)[k] = g
                    THEN Len(ms) + CHOOSE k \in 1 .. Len(SetToSeq(S)) : SetToSeq(S)[k] = g
                    ELSE im[g]]

\* Every group has an object of its own.
Distinct(im) == \A g, h \in Groups : im[g] # 0 /\ im[g] = im[h] => g = h

\* The old groups stay where they were, the new ones come after them.
Appended(ms, S, im, mg, all, at) ==
  /\ all \in Seq(Group) /\ Len(all) >= Len(ms)
  /\ \A k \in 1 .. Len(ms) : all[k] = ms[k]
  /\ \A k \in 1 .. Len(all) : k > Len(ms) => all[k] = mg
  /\ at \in [Groups -> 0 .. Len(all)]
  /\ \A g \in S : at[g] > Len(ms)
  /\ \A g \in Groups \ S : at[g] = im[g]
  /\ Distinct(im) => Distinct(at)

\* Adding the groups of a scenario does that.
LEMMA Added ==
  ASSUME NEW S \in SUBSET Groups, NEW ms \in Seq(Group), NEW im \in [Groups -> 0 .. Len(ms)],
         NEW mg \in Group, \A g \in S : im[g] = 0
  PROVE  Appended(ms, S, im, mg, Longer(ms, S, mg), Index(ms, S, im))
<1> DEFINE new == SetToSeq(S)
           all == ms \o [k \in 1 .. Len(new) |-> mg]
           Place(g) == CHOOSE k \in 1 .. Len(new) : new[k] = g
           at  == [g \in Groups |-> IF \E k \in 1 .. Len(new) : new[k] = g THEN Len(ms) + Place(g) ELSE im[g]]
<1>1. /\ Len(new) \in Nat /\ new \in [1 .. Len(new) -> S]
      /\ \A x \in S : \E i \in 1 .. Len(new) : new[i] = x
  BY MgAssumption, FS_Subset, SetToSeqLists
<1> HIDE DEF new
<1>2. [k \in 1 .. Len(new) |-> mg] \in Seq(Group) /\ Len([k \in 1 .. Len(new) |-> mg]) = Len(new)
  BY <1>1
<1>3. /\ all \in Seq(Group) /\ Len(all) = Len(ms) + Len(new) /\ Len(ms) \in Nat
      /\ \A k \in 1 .. Len(ms) : all[k] = ms[k]
      /\ \A k \in 1 .. Len(all) : k > Len(ms) => all[k] = mg
  BY <1>1, <1>2
<1>4. ASSUME NEW g \in S
      PROVE  Place(g) \in 1 .. Len(new) /\ new[Place(g)] = g
  BY <1>1
<1>5. \A g \in Groups : (\E k \in 1 .. Len(new) : new[k] = g) <=> g \in S
  BY <1>1
<1> HIDE DEF Place
<1>6. /\ \A g \in S : at[g] = Len(ms) + Place(g)
      /\ \A g \in Groups \ S : at[g] = im[g]
  BY <1>5
<1>7. at \in [Groups -> 0 .. Len(all)]
  <2>1. ASSUME NEW g \in Groups
        PROVE  (IF \E k \in 1 .. Len(new) : new[k] = g THEN Len(ms) + Place(g) ELSE im[g]) \in 0 .. Len(all)
    <3> HIDE DEF all
    <3>1. CASE g \in S
      BY <1>1, <1>3, <1>4, <1>5, <3>1
    <3>2. CASE g \notin S
      BY <1>1, <1>3, <1>5, <3>2
    <3> QED BY <3>1, <3>2
  <2> HIDE DEF all
  <2> QED BY <2>1
<1> HIDE DEF at, all
<1>8. \A g \in S : at[g] > Len(ms)
  BY <1>1, <1>3, <1>4, <1>6
<1>9. ASSUME Distinct(im), NEW g \in Groups, NEW h \in Groups, at[g] # 0, at[g] = at[h]
      PROVE  g = h
  <2> USE DEF Distinct
  <2>1. CASE g \in S /\ h \in S
    <3>1. Place(g) = Place(h)
      BY <1>1, <1>3, <1>4, <1>6, <1>9, <2>1
    <3> QED BY <1>4, <2>1, <3>1
  <2>2. CASE g \notin S /\ h \notin S
    BY <1>6, <1>9, <2>2
  <2>3. CASE g \in S /\ h \notin S
    BY <1>3, <1>6, <1>8, <1>9, <2>3
  <2>4. CASE g \notin S /\ h \in S
    BY <1>3, <1>6, <1>8, <1>9, <2>4
  <2> QED BY <2>1, <2>2, <2>3, <2>4
<1>10. Len(all) >= Len(ms)
  BY <1>1, <1>3
<1>11. all = Longer(ms, S, mg) /\ at = Index(ms, S, im)
  BY Zenon DEF at, all, new, Place, Longer, Index
<1>13. Distinct(im) => Distinct(at)
  BY <1>9 DEF Distinct
<1>12. Appended(ms, S, im, mg, all, at)
  BY <1>3, <1>6, <1>7, <1>8, <1>10, <1>13, Zenon DEF Appended
<1> QED BY <1>11, <1>12, Zenon

\* One sequence after the other.
Behind(S, a, b, c) ==
  /\ c \in Seq(S) /\ Len(c) = Len(a) + Len(b)
  /\ \A i \in 1 .. Len(a) : c[i] = a[i]
  /\ \A k \in 1 .. Len(b) : c[Len(a) + k] = b[k]

LEMMA Joined == ASSUME NEW S, NEW a \in Seq(S), NEW b \in Seq(S) PROVE Behind(S, a, b, a \o b)
BY DEF Behind

\* The elements of a scenario that are there are moved, the others get an object.
LEMMA ElementsAdded ==
  ASSUME Typed, ProcessScenario
  PROVE  /\ objs' \in Seq(Element) /\ Len(objs') >= Len(objs)
         /\ DOMAIN netElems' = DOMAIN netElems \cup active.elems
         /\ \A e \in DOMAIN netElems : netElems'[e] = netElems[e]
         /\ \A e \in active.elems \ DOMAIN netElems :
              netElems'[e] \in Len(objs) + 1 .. Len(objs') /\ objs'[netElems'[e]] = NewElem(e)
         /\ \A i \in 1 .. Len(objs) :
              objs'[i] = IF \E e \in active.elems \cap DOMAIN netElems : netElems[e] = i
                         THEN [objs[i] EXCEPT !.net = active.net[objs[i].phy],
                                              !.range = active.range[objs[i].phy]]
                         ELSE objs[i]
         /\ \A i \in Len(objs) + 1 .. Len(objs') : \E e \in active.elems \ DOMAIN netElems :
              objs'[i] = NewElem(e)
<1> DEFINE S    == active.elems \ DOMAIN netElems
           els  == SetToSeq(S)
           here == {netElems[e] : e \in active.elems \cap DOMAIN netElems}
           moved(i) == IF i \in here THEN [objs[i] EXCEPT !.net = active.net[objs[i].phy],
                                                         !.range = active.range[objs[i].phy]]
                       ELSE objs[i]
           X    == [i \in 1 .. Len(objs) |-> moved(i)]
           Y    == [k \in 1 .. Len(els) |-> NewElem(els[k])]
           Place(e) == CHOOSE k \in 1 .. Len(els) : els[k] = e
<1>1. objs' = X \o Y
  BY DEF ProcessScenario
<1>2. netElems' = [e \in DOMAIN netElems \cup active.elems |->
                    IF e \in DOMAIN netElems THEN netElems[e] ELSE Len(objs) + Place(e)]
  BY DEF ProcessScenario
<1>3. active \in Docs /\ active.elems \subseteq Elems
  BY MgAssumption DEF ProcessScenario, Typed, GroupsTyped
<1>4. IsFiniteSet(S) /\ S \subseteq Elems
  BY <1>3, MgAssumption, FS_Subset
<1>5. /\ Len(els) \in Nat /\ els \in [1 .. Len(els) -> S]
      /\ \A x \in S : \E i \in 1 .. Len(els) : els[i] = x
  BY <1>4, SetToSeqLists
<1>6. ASSUME NEW e \in Elems
      PROVE  NewElem(e) \in Element
  <2>1. PhyOf[e] \in PLs /\ active.net[PhyOf[e]] \in Locs /\ active.range[PhyOf[e]] \in SUBSET Locs
    BY <1>3, MgAssumption
  <2> QED BY <2>1 DEF NewElem, Element, Served
<1> HIDE DEF els
<1>7. Len(objs) \in Nat /\ objs \in Seq(Element)
  BY DEF Typed, ElementsTyped
<1>8. ASSUME NEW i \in 1 .. Len(objs)
      PROVE  moved(i) \in Element
  <2>1. objs[i] \in Element
    BY <1>7
  <2>2. active.net[objs[i].phy] \in Locs /\ active.range[objs[i].phy] \in SUBSET Locs
    BY <1>3, <2>1, MgAssumption DEF Element
  <2> HIDE DEF here
  <2> QED BY <2>1, <2>2 DEF Element
<1> HIDE DEF moved
<1>9. X \in Seq(Element) /\ Len(X) = Len(objs) /\ \A i \in 1 .. Len(objs) : X[i] = moved(i)
  BY <1>7, <1>8
<1>10. \A k \in 1 .. Len(els) : NewElem(els[k]) \in Element
  BY <1>4, <1>5, <1>6
<1>11. Y \in Seq(Element) /\ Len(Y) = Len(els) /\ \A k \in 1 .. Len(els) : Y[k] = NewElem(els[k])
  BY <1>5, <1>10
<1> HIDE DEF X, Y
<1>12. /\ objs' \in Seq(Element) /\ Len(objs') = Len(objs) + Len(els)
       /\ \A i \in 1 .. Len(objs) : objs'[i] = moved(i)
       /\ \A k \in 1 .. Len(els) : objs'[Len(objs) + k] = NewElem(els[k])
  <2>1. /\ objs' \in Seq(Element) /\ Len(objs') = Len(X) + Len(Y)
        /\ \A i \in 1 .. Len(X) : objs'[i] = X[i]
        /\ \A k \in 1 .. Len(Y) : objs'[Len(X) + k] = Y[k]
    <3>1. Behind(Element, X, Y, X \o Y)
      BY <1>9, <1>11, Joined
    <3> QED BY <1>1, <3>1 DEF Behind
  <2> QED BY <1>9, <1>11, <2>1
<1>13. \A e \in S : Place(e) \in 1 .. Len(els) /\ els[Place(e)] = e
  BY <1>5
<1> HIDE DEF Place
<1>14. \A e \in S : netElems'[e] = Len(objs) + Place(e)
  BY <1>2
<1>15. \A e \in S : netElems'[e] \in Len(objs) + 1 .. Len(objs') /\ objs'[netElems'[e]] = NewElem(e)
  <2> TAKE e \in S
  <2>1. Place(e) \in 1 .. Len(els) /\ els[Place(e)] = e /\ netElems'[e] = Len(objs) + Place(e)
    BY <1>13, <1>14
  <2>2. objs'[netElems'[e]] = NewElem(e)
    BY <1>12, <2>1
  <2> QED BY <1>5, <1>7, <1>12, <2>1, <2>2
<1>16. \A i \in Len(objs) + 1 .. Len(objs') : \E e \in S : objs'[i] = NewElem(e)
  <2> TAKE i \in Len(objs) + 1 .. Len(objs')
  <2>1. i - Len(objs) \in 1 .. Len(els) /\ Len(objs) + (i - Len(objs)) = i
    BY <1>5, <1>7, <1>12
  <2>2. objs'[i] = NewElem(els[i - Len(objs)])
    BY <1>12, <2>1
  <2>3. els[i - Len(objs)] \in S
    BY <1>5, <2>1
  <2> QED BY <2>2, <2>3
<1>17. Len(objs') >= Len(objs)
  BY <1>5, <1>7, <1>12
<1>18. \A i \in 1 .. Len(objs) :
         objs'[i] = IF \E e \in active.elems \cap DOMAIN netElems : netElems[e] = i
                    THEN [objs[i] EXCEPT !.net = active.net[objs[i].phy],
                                         !.range = active.range[objs[i].phy]]
                    ELSE objs[i]
  <2> TAKE i \in 1 .. Len(objs)
  <2>1. (i \in here) <=> (\E e \in active.elems \cap DOMAIN netElems : netElems[e] = i)
    <3>1. (\E e \in active.elems \cap DOMAIN netElems : netElems[e] = i) => i \in here
      OBVIOUS
    <3>2. i \in here => \E e \in active.elems \cap DOMAIN netElems : netElems[e] = i
      OBVIOUS
    <3> HIDE DEF here
    <3> QED BY <3>1, <3>2
  <2>2. objs'[i] = moved(i)
    BY <1>12
  <2> HIDE DEF here
  <2> QED BY <2>1, <2>2 DEF moved
<1>19. /\ DOMAIN netElems' = DOMAIN netElems \cup active.elems
       /\ \A e \in DOMAIN netElems : netElems'[e] = netElems[e]
  BY <1>2
<1> QED BY <1>12, <1>15, <1>16, <1>17, <1>18, <1>19

\* The groups of a scenario that are not there are appended.
Added2 ==
  Appended(mgs, {g \in Groups : active.svcs[g] # {} /\ mgInfoMap[g] = 0}, mgInfoMap,
           NewGroup("NET-LOC-IN-RANGE", "HOP-COUNT"), mgs', mgInfoMap')

LEMMA GroupsAdded == ASSUME Typed, ProcessScenario PROVE Added2
<1> DEFINE S  == {g \in Groups : active.svcs[g] # {} /\ mgInfoMap[g] = 0}
           mg == NewGroup("NET-LOC-IN-RANGE", "HOP-COUNT")
<1>1. mg \in Group
  BY NewGroupIs DEF TriggerNames, Algorithms
<1>2. S \in SUBSET Groups /\ \A g \in S : mgInfoMap[g] = 0
  OBVIOUS
<1>3. mgs \in Seq(Group) /\ mgInfoMap \in [Groups -> 0 .. Len(mgs)]
  BY DEF Typed, GroupsTyped
<1>4. mgs' = Longer(mgs, S, mg) /\ mgInfoMap' = Index(mgs, S, mgInfoMap)
  BY Zenon DEF ProcessScenario, Longer, Index
<1> HIDE DEF S, mg
<1>5. Appended(mgs, S, mgInfoMap, mg, Longer(mgs, S, mg), Index(mgs, S, mgInfoMap))
  BY <1>1, <1>2, <1>3, Added
<1> QED BY <1>4, <1>5 DEF Added2, S, mg

LEMMA ProcessScenarioTyped == ASSUME Typed, ProcessScenario PROVE Typed'
<1>1. /\ mgs' \in Seq(Group) /\ Len(mgs') >= Len(mgs) /\ mgInfoMap' \in [Groups -> 0 .. Len(mgs')]
  BY GroupsAdded DEF Added2, Appended
<1>2. /\ objs' \in Seq(Element) /\ Len(objs') >= Len(objs)
      /\ DOMAIN netElems' = DOMAIN netElems \cup active.elems
      /\ \A e \in DOMAIN netElems : netElems'[e] = netElems[e]
      /\ \A e \in active.elems \ DOMAIN netElems : netElems'[e] \in Len(objs) + 1 .. Len(objs')
  BY ElementsAdded
<1>3. Len(mgs) \in Nat /\ Len(objs) \in Nat /\ Len(mgs') \in Nat /\ Len(objs') \in Nat
  BY <1>1, <1>2, LengthsAre
<1>4. JobsTyped'
  <2>1. PICK as : Does(Listener, [NoJob EXCEPT !.at = "defaults", !.as = as])
    BY DEF ProcessScenario
  <2>2. Fits([NoJob EXCEPT !.at = "defaults", !.as = as], Len(mgs'), Len(objs'))
    BY <1>3, DefaultsFits
  <2> QED BY <1>1, <1>2, <1>3, <2>1, <2>2, ListenerIs, JobsStayTyped
<1>5. active \in Docs /\ active' = active
  BY DEF ProcessScenario, Typed, GroupsTyped
<1>6. GroupsTyped'
  <2>1. svcs' \in [Groups -> SUBSET Apps]
    BY <1>5, MgAssumption DEF ProcessScenario, Typed, GroupsTyped
  <2> QED BY <1>1, <1>5, <2>1 DEF GroupsTyped
<1>7. ElementsTyped'
  <2>1. DOMAIN netElems' \subseteq Elems
    BY <1>2, <1>5, MgAssumption DEF Typed, ElementsTyped
  <2>2. ASSUME NEW e \in DOMAIN netElems'
        PROVE  netElems'[e] \in 1 .. Len(objs')
    <3>1. CASE e \in DOMAIN netElems
      BY <1>2, <1>3, <3>1 DEF Typed, ElementsTyped
    <3>2. CASE e \in active.elems \ DOMAIN netElems
      BY <1>2, <1>3, <3>2
    <3> QED BY <1>2, <3>1, <3>2
  <2> QED BY <1>2, <2>1, <2>2 DEF ElementsTyped
<1>8. TalesTyped'
  <2>1. outdated' \in [Threads -> BOOLEAN]
    BY OutdateTyped DEF ProcessScenario
  <2>2. UNCHANGED <<open, late, passed>>
    BY DEF ProcessScenario
  <2> QED BY <1>2, <1>3, <2>1, <2>2 DEF Typed, TalesTyped
<1> QED BY <1>4, <1>6, <1>7, <1>8 DEF Typed

\* Begin: the goroutine fills a map, and others do not fill it alone any more.
LEMMA BeginIs ==
  ASSUME Typed, NEW t \in Threads, NEW j, Begin(t, j)
  PROVE  /\ DOMAIN job' = Threads /\ job'[t] = j
         /\ \A u \in Threads : u # t =>
              job'[u] = IF u \in Fills(j.obj) THEN [job[u] EXCEPT !.whole = FALSE] ELSE job[u]
BY DEF Begin, Typed, JobsTyped

\* What a job is does not depend on whether it fills a map alone.
LEMMA NotWholeFits ==
  ASSUME NEW m \in Nat, NEW n \in Nat, NEW j, Fits(j, m, n), NEW v, v = [j EXCEPT !.whole = FALSE]
  PROVE  /\ Fits(v, m, n) /\ v.at = j.at /\ v.as = j.as /\ v.obj = j.obj /\ v.from = j.from
         /\ v.locs = j.locs /\ v.els = j.els /\ v.elem = j.elem /\ v.grps = j.grps /\ v.grp = j.grp
         /\ v.best = j.best /\ v.ranged = j.ranged /\ v.list = j.list /\ v.unknown = j.unknown
<1>1. /\ DOMAIN v = Fields /\ v.at = j.at /\ v.as = j.as /\ v.obj = j.obj /\ v.from = j.from
      /\ v.locs = j.locs /\ v.els = j.els /\ v.elem = j.elem /\ v.grps = j.grps /\ v.grp = j.grp
      /\ v.best = j.best /\ v.ranged = j.ranged /\ v.list = j.list /\ v.unknown = j.unknown
      /\ v.flag = j.flag
  BY DEF Fits, Fields
<1> QED BY <1>1 DEF Fits

LEMMA BeginTyped ==
  ASSUME Typed, NEW t \in Threads, NEW as, NEW k \in 1 .. Len(mgs), NEW apps \in SUBSET Apps,
         NEW alone, Begin(t, Filling(as, k, apps, alone)), Lengths
  PROVE  JobsTyped'
<1> DEFINE j == Filling(as, k, apps, alone)
<1>1. Fits(j, Len(mgs), Len(objs))
  BY FillingIs DEF Filled
<1>2. Begin(t, j)
  OBVIOUS
<1> HIDE DEF j
<1>3. /\ DOMAIN job' = Threads /\ job'[t] = j
      /\ \A u \in Threads : u # t =>
           job'[u] = IF u \in Fills(j.obj) THEN [job[u] EXCEPT !.whole = FALSE] ELSE job[u]
  BY <1>2, BeginIs
<1>4. ASSUME NEW u \in Threads
      PROVE  Fits(job'[u], Len(mgs'), Len(objs'))
  <2>1. Fits(job[u], Len(mgs), Len(objs)) /\ Len(mgs) \in Nat /\ Len(objs) \in Nat
    BY LengthsAre DEF Typed, JobsTyped
  <2>2. Fits([job[u] EXCEPT !.whole = FALSE], Len(mgs), Len(objs))
    BY <2>1, NotWholeFits
  <2>3. Fits(job'[u], Len(mgs), Len(objs))
    <3>1. CASE u = t
      BY <1>1, <1>3, <3>1
    <3>2. CASE u # t
      BY <1>3, <2>1, <2>2, <3>2
    <3> QED BY <3>1, <3>2
  <2> QED BY <2>3 DEF Lengths
<1> QED BY <1>3, <1>4 DEF JobsTyped

\* The group that a request names.
LEMMA TheGroup ==
  ASSUME Typed, NEW g \in Groups, mgInfoMap[g] # 0
  PROVE  /\ mgInfoMap[g] \in 1 .. Len(mgs) /\ mgs[mgInfoMap[g]] \in Group
         /\ mgs[mgInfoMap[g]].apps \subseteq Apps /\ mgs[mgInfoMap[g]].ues \subseteq PLs
<1>1. mgInfoMap[g] \in 1 .. Len(mgs)
  BY DEF Typed, GroupsTyped
<1>2. mgs[mgInfoMap[g]] \in Group
  BY <1>1 DEF Typed, GroupsTyped
<1> QED BY <1>1, <1>2 DEF Group

LEMMA MgCreateTyped ==
  ASSUME Typed, NEW t, NEW g \in Groups, NEW s \in Settings, MgCreate(t, g, s.trigger, s.lb)
  PROVE  Typed'
<1> DEFINE G == NewGroup(s.trigger, s.lb)
<1>1. G \in Group
  BY NewGroupIs DEF TriggerNames, Algorithms
<1>2. mgs' = Append(mgs, G)
  BY DEF MgCreate
<1> HIDE DEF G
<1>3. mgs' \in Seq(Group) /\ Len(mgs') = Len(mgs) + 1 /\ Len(mgs) \in Nat
  BY <1>1, <1>2 DEF Typed, GroupsTyped
<1>4. GroupsTyped'
  <2>1. mgInfoMap' \in [Groups -> 0 .. Len(mgs')]
    BY <1>3 DEF MgCreate, Typed, GroupsTyped
  <2> QED BY <1>3, <2>1 DEF MgCreate, Typed, GroupsTyped
<1>5. ElementsTyped' /\ TalesTyped'
  BY DEF MgCreate, Typed, ElementsTyped, TalesTyped
<1>6. JobsTyped'
  BY <1>3, LengthsAre, JobsFitMore DEF MgCreate
<1> QED BY <1>4, <1>5, <1>6 DEF Typed

LEMMA MgUpdateTyped ==
  ASSUME Typed, NEW t, NEW g \in Groups, NEW s \in Settings, MgUpdate(t, g, s.trigger, s.lb)
  PROVE  Typed'
<1> DEFINE k == mgInfoMap[g]
           G == [[mgs[k] EXCEPT !.trigger = s.trigger] EXCEPT !.lb = s.lb]
<1>1. k \in 1 .. Len(mgs) /\ mgs[k] \in Group
  BY TheGroup DEF MgUpdate
<1>2. s.trigger \in TriggerNames /\ s.lb \in Algorithms
  BY DEF TriggerNames, Algorithms
<1>3. G \in Group
  BY <1>1, <1>2 DEF Group
<1>4. mgs' = [mgs EXCEPT ![k] = G]
  BY <1>1 DEF MgUpdate, Typed, GroupsTyped
<1> HIDE DEF G, k
<1>5. GroupsTyped' /\ ElementsTyped' /\ TalesTyped' /\ Lengths
  BY <1>1, <1>3, <1>4, GroupReplaced DEF MgUpdate, tales
<1>6. JobsTyped'
  BY <1>5, JobsFitMore DEF MgUpdate, Lengths
<1> QED BY <1>5, <1>6 DEF Typed

LEMMA MgDeleteTyped == ASSUME Typed, NEW t, NEW g \in Groups, MgDelete(t, g) PROVE Typed'
<1>1. mgInfoMap' \in [Groups -> 0 .. Len(mgs)] /\ Len(mgs) \in Nat
  BY DEF MgDelete, Typed, GroupsTyped
<1> QED BY <1>1 DEF MgDelete, Typed, GroupsTyped, ElementsTyped, JobsTyped, TalesTyped

LEMMA MgAppTyped ==
  ASSUME Typed, NEW t \in RestThreads, NEW g \in Groups, NEW a \in Apps,
         MgAppCreate(t, g, a) \/ MgAppDelete(t, g, a)
  PROVE  Typed'
<1> DEFINE k == mgInfoMap[g]
<1>1. k \in 1 .. Len(mgs) /\ mgs[k] \in Group /\ mgs[k].apps \subseteq Apps
  BY TheGroup DEF MgAppCreate, MgAppDelete
<1>2. PICK apps \in {mgs[k].apps \cup {a}, mgs[k].apps \ {a}} :
        /\ mgs' = [mgs EXCEPT ![k].apps = apps, ![k].appMap = NoMap]
        /\ \E as : Begin(t, Filling(as, k, apps, Fills(k) = {}))
  BY DEF MgAppCreate, MgAppDelete
<1> DEFINE G == [[mgs[k] EXCEPT !.apps = apps] EXCEPT !.appMap = NoMap]
<1>3. apps \in SUBSET Apps
  BY <1>1, <1>2
<1>4. G \in Group
  BY <1>1, <1>3, NoMapIsAMap DEF Group
<1>5. mgs' = [mgs EXCEPT ![k] = G]
  BY <1>1, <1>2 DEF Typed, GroupsTyped
<1> HIDE DEF G
<1>6. UNCHANGED <<active, svcs, mgInfoMap, objs, netElems, open, late, passed, outdated>>
  BY DEF MgAppCreate, MgAppDelete
<1> HIDE DEF k
<1>7. GroupsTyped' /\ ElementsTyped' /\ TalesTyped' /\ Lengths
  BY <1>1, <1>4, <1>5, <1>6, GroupReplaced
<1>8. JobsTyped'
  <2>1. PICK as : Begin(t, Filling(as, k, apps, Fills(k) = {}))
    BY <1>2
  <2>2. t \in Threads
    BY DEF Threads
  <2>3. PICK b : b = (Fills(k) = {})
    OBVIOUS
  <2>4. Begin(t, Filling(as, k, apps, b))
    BY <2>1, <2>3, Zenon
  <2> QED BY <1>1, <1>3, <1>7, <2>2, <2>4, BeginTyped
<1> QED BY <1>7, <1>8 DEF Typed

LEMMA MgUeCreateTyped ==
  ASSUME Typed, NEW t \in RestThreads, NEW g \in Groups, NEW u \in PLs, MgUeCreate(t, g, u)
  PROVE  Typed'
<1> DEFINE k == mgInfoMap[g]
           ues == mgs[k].ues \cup {u}
           G == [mgs[k] EXCEPT !.ues = ues]
<1>1. k \in 1 .. Len(mgs) /\ mgs[k] \in Group /\ mgs[k].ues \subseteq PLs
  BY TheGroup DEF MgUeCreate
<1>2. ues \subseteq PLs
  BY <1>1
<1>3. mgs' = [mgs EXCEPT ![k] = G]
  BY DEF MgUeCreate
<1> HIDE DEF ues
<1>4. G \in Group
  BY <1>1, <1>2 DEF Group
<1> HIDE DEF G, k
<1>5. GroupsTyped' /\ ElementsTyped' /\ TalesTyped' /\ Lengths
  BY <1>1, <1>3, <1>4, GroupReplaced DEF MgUeCreate
<1>6. JobsTyped'
  <2>1. t \in Threads
    BY DEF Threads
  <2>2. Does(t, Passing([NoJob EXCEPT !.as = "ue"]))
    BY DEF MgUeCreate
  <2>3. Fits(Passing([NoJob EXCEPT !.as = "ue"]), Len(mgs), Len(objs))
    BY PassingIs
  <2> QED BY <1>5, <2>1, <2>2, <2>3, JobsStayTyped DEF Lengths
<1> QED BY <1>5, <1>6 DEF Typed

LEMMA InitTyped == Init => Typed
<1> SUFFICES ASSUME Init PROVE Typed
  OBVIOUS
<1>1. Len(mgs) = 0 /\ Len(objs) = 0 /\ mgs \in Seq(Group) /\ objs \in Seq(Element)
  BY NothingTyped DEF Init
<1>2. GroupsTyped
  BY <1>1 DEF Init, GroupsTyped
<1>3. ElementsTyped
  BY <1>1, NothingTyped DEF Init, ElementsTyped
<1>4. JobsTyped
  BY <1>1, NoJobFits DEF Init, JobsTyped
<1>5. TalesTyped
  BY DEF Init, TalesTyped
<1> QED BY <1>2, <1>3, <1>4, <1>5 DEF Typed

LEMMA NextTyped == ASSUME Typed, [Next]_vars PROVE Typed'
<1>1. CASE UNCHANGED vars
  BY <1>1, NewsTyped, StayTyped DEF vars, tales, Typed, GroupsTyped
<1>2. CASE \E t \in RestThreads, g \in Groups :
       \/ \E s \in Settings : MgCreate(t, g, s.trigger, s.lb) \/ MgUpdate(t, g, s.trigger, s.lb)
       \/ MgDelete(t, g)
       \/ \E a \in Apps : MgAppCreate(t, g, a) \/ MgAppDelete(t, g, a)
       \/ \E u \in PLs : MgUeCreate(t, g, u)
  BY <1>2, MgCreateTyped, MgUpdateTyped, MgDeleteTyped, MgAppTyped, MgUeCreateTyped
<1>3. CASE \E t \in Threads :
       \/ FillLoc(t) \/ FillPanics(t) \/ LeaveMap(t)
       \/ SetSvcMap(t) \/ Move(t) \/ Decide(t) \/ SetFlag(t) \/ ListMapping(t) \/ StoreMapping(t)
  BY <1>3, FillLocTyped, FillPanicsTyped, LeaveMapTyped, SetSvcMapTyped, MoveTyped, DecideTyped,
     SetFlagTyped, ListMappingTyped, StoreMappingTyped
<1>4. CASE \E t \in Threads : \E i \in DOMAIN objs, g \in Groups :
            PassOver(t, i, g) \/ Look(t, i, g) \/ TrackPanics(t, i, g) \/ Track(t, i, g)
  BY <1>4, PassOverTyped, LookTyped, TrackPanicsTyped, TrackTyped
<1>5. CASE \/ ScenarioChange \/ Run \/ ClearScenario \/ ClearRules \/ ProcessScenario \/ SetDefaults
           \/ DefaultsPanic \/ Notify \/ Restart \/ Idle
  BY <1>5, NewsTyped, ClearScenarioTyped, ClearRulesTyped, ProcessScenarioTyped, SetDefaultsTyped,
     DefaultsPanicTyped, RestartTyped
<1> QED BY <1>1, <1>2, <1>3, <1>4, <1>5 DEF Next

-----------------------------------------------------------------------------
(* Part two: what is stored.                                               *)

\* Goroutines that will store the mapping as it is.
Applying  == {"defaults", "pass", "write", "move", "decide", "flag"}
WillStore(u) == job[u].at \in Applying \/ (job[u].at = "store" /\ ~outdated[u])

\* A list that no step has made outdated is the mapping.
ListsAreLatest ==
  \A u \in Threads : job[u].at = "store" /\ ~outdated[u] => job[u].list = Mapping

\* The mapping is stored, or somebody will.
StoredOrDue ==
  ~crashed /\ ~wroteOld /\ ~lost => stored = Mapping \/ \E u \in Threads : WillStore(u)

Storing == ListsAreLatest /\ StoredOrDue

\* A step that leaves mapping and rules alone, and nobody goes away who will store.
LEMMA QuietStores ==
  ASSUME Storing, Mapping' = Mapping, UNCHANGED <<stored, outdated>>,
         \A u \in Threads : job'[u].at = "store" => job[u].at = "store" /\ job'[u].list = job[u].list,
         ~crashed' /\ ~wroteOld' /\ ~lost' =>
            /\ ~crashed /\ ~wroteOld /\ ~lost
            /\ \A u \in Threads : job[u].at \in Applying => job'[u].at \in Applying
            /\ \A u \in Threads : job[u].at = "store" => job'[u].at = "store"
  PROVE  Storing'
<1>1. ListsAreLatest'
  BY DEF Storing, ListsAreLatest
<1>2. StoredOrDue'
  <2> SUFFICES ASSUME ~crashed', ~wroteOld', ~lost', stored' # Mapping'
               PROVE  \E u \in Threads : WillStore(u)'
    BY DEF StoredOrDue
  <2>1. PICK u \in Threads : WillStore(u)
    BY DEF Storing, StoredOrDue
  <2>2. WillStore(u)'
    BY <2>1 DEF WillStore
  <2> QED BY <2>2
<1> QED BY <1>1, <1>2 DEF Storing

LEMMA MappingStays == ASSUME UNCHANGED <<objs, netElems>> PROVE Mapping' = Mapping
BY DEF Mapping

\* A step of one goroutine that leaves mapping and rules alone and goes on.
LEMMA OneStores ==
  ASSUME Typed, Storing, NEW t \in Threads, NEW j, Does(t, j),
         j.at # "store", job[t].at # "store",
         Mapping' = Mapping, UNCHANGED <<stored, outdated, wroteOld>>,
         ~crashed' /\ ~lost' =>
           ~crashed /\ ~lost /\ (job[t].at \in Applying => j.at \in Applying)
  PROVE  Storing'
<1>1. /\ DOMAIN job' = Threads /\ job'[t] = j
      /\ \A u \in Threads : u # t => job'[u] = job[u]
  BY DoesIs DEF Typed, JobsTyped
<1>2. \A u \in Threads : job'[u].at = "store" => job[u].at = "store" /\ job'[u].list = job[u].list
  BY <1>1
<1>3. ~crashed' /\ ~wroteOld' /\ ~lost' =>
        /\ ~crashed /\ ~wroteOld /\ ~lost
        /\ \A u \in Threads : job[u].at \in Applying => job'[u].at \in Applying
        /\ \A u \in Threads : job[u].at = "store" => job'[u].at = "store"
  BY <1>1
<1> QED BY <1>2, <1>3, QuietStores

\* A step after which its goroutine will store the mapping.
LEMMA ChangeStores ==
  ASSUME Typed, Storing, NEW t \in Threads, NEW j, Does(t, j), j.at \in Applying,
         Outdate
  PROVE  Storing'
<1>1. /\ DOMAIN job' = Threads /\ job'[t] = j
      /\ \A u \in Threads : u # t => job'[u] = job[u]
  BY DoesIs DEF Typed, JobsTyped
<1>2. ListsAreLatest'
  <2> SUFFICES ASSUME NEW u \in Threads, job'[u].at = "store", ~outdated'[u]
               PROVE  job'[u].list = Mapping'
    BY DEF ListsAreLatest
  <2>1. u # t
    BY <1>1 DEF Applying
  <2>2. job[u].at = "store" /\ job'[u] = job[u]
    BY <1>1, <2>1
  <2>3. ~outdated[u] /\ Mapping' = Mapping
    BY <2>2 DEF Outdate
  <2> QED BY <2>2, <2>3 DEF Storing, ListsAreLatest
<1>3. WillStore(t)'
  BY <1>1 DEF WillStore
<1> QED BY <1>2, <1>3 DEF Storing, StoredOrDue

LEMMA LeaveGoes ==
  ASSUME Typed, NEW t \in Threads, NEW well, Leave(t, well)
  PROVE  \E j : Does(t, j) /\ j.at \in {"pass", "idle"}
<1> DEFINE j == IF job[t].as = "app" THEN Passing(job[t]) ELSE NoJob
<1>1. Does(t, j)
  BY DEF Leave
<1>2. Passing(job[t]).at = "pass" /\ NoJob.at = "idle"
  BY PassingIs DEF NoJob
<1> QED BY <1>1, <1>2

LEMMA FillGoes ==
  ASSUME Typed, NEW t \in Threads, FillLoc(t) \/ FillPanics(t) \/ LeaveMap(t)
  PROVE  \E j : Does(t, j) /\ j.at \in {"pass", "idle", "fill"}
<1>1. CASE FillLoc(t)
  <2>1. \/ Leave(t, job[t].whole)
        \/ \E l : Does(t, [job[t] EXCEPT !.locs = @ \ {l}])
    BY <1>1 DEF FillLoc
  <2>2. \A l : [job[t] EXCEPT !.locs = @ \ {l}].at = "fill"
    BY <1>1 DEF Typed, JobsTyped, Fits, Fields, FillLoc, At
  <2> QED BY <2>1, <2>2, LeaveGoes
<1>2. CASE FillPanics(t)
  BY <1>2, NoJobFits DEF FillPanics
<1>3. CASE LeaveMap(t)
  BY <1>3, LeaveGoes DEF LeaveMap
<1> QED BY <1>1, <1>2, <1>3

LEMMA FillStores ==
  ASSUME Typed, Storing, NEW t \in Threads, FillLoc(t) \/ FillPanics(t) \/ LeaveMap(t)
  PROVE  Storing'
<1>1. UNCHANGED <<objs, netElems, stored, outdated, wroteOld, crashed, lost>> /\ job[t].at = "fill"
  BY DEF FillLoc, FillPanics, LeaveMap, At
<1>2. PICK j : Does(t, j) /\ j.at \in {"pass", "idle", "fill"}
  BY FillGoes
<1> QED BY <1>1, <1>2, MappingStays, OneStores DEF Applying

\* What Track does to the job of its goroutine.
TrackJob(t, i, g, j) ==
  LET best == mgs[mgInfoMap[g]].appMap[objs[i].net]
      now  == objs[i].map[g]
  IN  /\ Does(t, j)
      /\ \/ j.at = "pass" /\ best = now
         \/ j.at = "decide" /\ best = now /\ j.elem = i /\ j.grp = g
         \/ j.at = "move" /\ best # now /\ j.elem = i /\ j.grp = g

LEMMA TrackGoes ==
  ASSUME Typed, NEW t \in Threads, NEW i \in DOMAIN objs, NEW g \in Groups, Track(t, i, g)
  PROVE  \E j : TrackJob(t, i, g, j)
<1> DEFINE l == Left(t, i, g)
           best == mgs[mgInfoMap[g]].appMap[objs[i].net]
           now  == objs[i].map[g]
           both == mgs[mgInfoMap[g]].trigger = "NET-LOC-IN-RANGE"
           at   == IF best # now THEN "move" ELSE "decide"
           v    == [l EXCEPT !.at = at, !.obj = mgInfoMap[g], !.grp = g, !.best = best, !.ranged = both]
<1>1. \/ Does(t, l) /\ best = now
      \/ Does(t, v)
  BY DEF Track
<1>2. l.at = "pass" /\ l.elem = i /\ DOMAIN l = Fields
  BY LeftIs DEF Track, Visits, Fits
<1>3. (at = "move" /\ best # now) \/ (at = "decide" /\ best = now)
  OBVIOUS
<1> HIDE DEF l, at, both
<1>4. v.at = at /\ v.elem = i /\ v.grp = g
  BY <1>2 DEF Fields
<1> HIDE DEF v
<1>5. CASE Does(t, l) /\ best = now
  <2>1. TrackJob(t, i, g, l)
    BY <1>2, <1>5 DEF TrackJob
  <2> QED BY <2>1
<1>6. CASE Does(t, v)
  <2>1. TrackJob(t, i, g, v)
    BY <1>3, <1>4, <1>6 DEF TrackJob
  <2> QED BY <2>1
<1> QED BY <1>1, <1>5, <1>6

LEMMA LookGoes ==
  ASSUME Typed, NEW t \in Threads, NEW i \in DOMAIN objs, NEW g \in Groups,
         PassOver(t, i, g) \/ Look(t, i, g)
  PROVE  \E j : Does(t, j) /\ j.at \in {"pass", "write"}
<1> DEFINE l == Left(t, i, g)
<1>1. l.at = "pass" /\ DOMAIN l = Fields
  BY LeftIs DEF PassOver, Look, Visits, Fits
<1>2. CASE PassOver(t, i, g)
  BY <1>1, <1>2 DEF PassOver
<1>3. CASE Look(t, i, g)
  <2>1. PICK b : Does(t, [l EXCEPT !.at = "write", !.grp = g, !.best = b])
    BY <1>3 DEF Look
  <2> DEFINE v == [l EXCEPT !.at = "write", !.grp = g, !.best = b]
  <2>2. v.at = "write"
    BY <1>1 DEF Fields
  <2>3. Does(t, v)
    BY <2>1
  <2> HIDE DEF v
  <2> QED BY <2>2, <2>3
<1> QED BY <1>2, <1>3

LEMMA PassStores ==
  ASSUME Typed, Storing, NEW t \in Threads, NEW i \in DOMAIN objs, NEW g \in Groups,
         PassOver(t, i, g) \/ Look(t, i, g) \/ Track(t, i, g)
  PROVE  Storing'
<1>1. /\ UNCHANGED <<objs, netElems, stored, outdated, wroteOld, crashed, lost>>
      /\ job[t].at = "pass"
  BY DEF PassOver, Look, Track, Visits, At, tales
<1>2. PICK j : Does(t, j) /\ j.at \in {"pass", "write", "move", "decide"}
  BY LookGoes, TrackGoes DEF TrackJob
<1> QED BY <1>1, <1>2, MappingStays, OneStores DEF Applying

LEMMA PanicStores ==
  ASSUME Typed, Storing, NEW t \in Threads, NEW i \in DOMAIN objs, NEW g \in Groups,
         TrackPanics(t, i, g)
  PROVE  Storing'
<1>1. /\ UNCHANGED <<objs, netElems, stored, outdated, wroteOld>> /\ lost'
      /\ job[t].at = "pass" /\ Does(t, NoJob)
  BY DEF TrackPanics, Visits, At
<1> QED BY <1>1, NoJobFits, MappingStays, OneStores

LEMMA VisitStores ==
  ASSUME Typed, Storing, NEW t \in Threads, SetSvcMap(t) \/ Move(t) \/ Decide(t) \/ SetFlag(t)
  PROVE  Storing'
<1> DEFINE v == Visited(job[t])
<1>1. job[t].at \in {"write", "move", "decide", "flag"} /\ DOMAIN job[t] = Fields
  BY DEF SetSvcMap, Move, Decide, SetFlag, At, Typed, JobsTyped, Fits
<1>2. v.at = "pass"
  BY LengthsAre, VisitedIs DEF Typed, JobsTyped
<1> HIDE DEF v
<1>3. CASE SetSvcMap(t)
  BY <1>2, <1>3, ChangeStores DEF SetSvcMap, v, Applying
<1>4. CASE Move(t)
  <2>1. Does(t, v) \/ Does(t, [job[t] EXCEPT !.at = "decide"])
    BY <1>4 DEF Move, v
  <2>2. [job[t] EXCEPT !.at = "decide"].at = "decide"
    BY <1>1 DEF Fields
  <2>3. PICK j : Does(t, j) /\ j.at \in {"pass", "decide"}
    BY <1>2, <2>1, <2>2
  <2> QED BY <1>4, <2>3, ChangeStores DEF Move, Applying
<1>5. CASE Decide(t)
  <2> DEFINE mg   == mgs[job[t].obj]
             many == Cardinality(mg.inRange[objs[job[t].elem].phy]) > 1
             w    == [job[t] EXCEPT !.at = "flag", !.flag = many]
  <2>1. Does(t, v) \/ Does(t, w)
    BY <1>5 DEF Decide, v
  <2> HIDE DEF many
  <2>2. w.at = "flag"
    BY <1>1 DEF Fields
  <2> HIDE DEF w
  <2>3. PICK j : Does(t, j) /\ j.at \in {"pass", "flag"}
    BY <1>2, <2>1, <2>2
  <2>4. UNCHANGED <<objs, netElems, stored, outdated, wroteOld, crashed, lost>>
    BY <1>5 DEF Decide
  <2> QED BY <1>1, <2>3, <2>4, MappingStays, OneStores DEF Applying
<1>6. CASE SetFlag(t)
  <2>1. Does(t, v) /\ UNCHANGED <<netElems, stored, outdated, wroteOld, crashed, lost>>
        /\ objs' = [objs EXCEPT ![job[t].elem].transfer = job[t].flag]
    BY <1>6 DEF SetFlag, v, tales
  <2>2. job[t].elem \in 1 .. Len(objs) /\ job[t].flag \in BOOLEAN /\ objs[job[t].elem] \in Element
    BY <1>1, VisitorIs
  <2>3. Mapping' = Mapping
    <3>1. ASSUME NEW e \in DOMAIN netElems
          PROVE  objs'[netElems[e]].map = objs[netElems[e]].map
      <4>1. netElems[e] \in 1 .. Len(objs) /\ objs[netElems[e]] \in Element /\ DOMAIN objs = 1 .. Len(objs)
        BY LengthsAre DEF Typed, ElementsTyped
      <4> QED BY <2>1, <2>2, <4>1 DEF Element
    <3> QED BY <2>1, <3>1 DEF Mapping
  <2> QED BY <1>1, <1>2, <2>1, <2>3, OneStores DEF Applying
<1> QED BY <1>3, <1>4, <1>5, <1>6

LEMMA ListStores == ASSUME Typed, Storing, NEW t \in Threads, ListMapping(t) PROVE Storing'
<1> DEFINE j == [NoJob EXCEPT !.at = "store", !.as = job[t].as, !.list = Mapping]
<1>1. j.at = "store" /\ j.list = Mapping
  BY DEF NoJob
<1>2. Does(t, j)
  BY DEF ListMapping
<1> HIDE DEF j
<1>3. /\ DOMAIN job' = Threads /\ job'[t] = j
      /\ \A u \in Threads : u # t => job'[u] = job[u]
  BY <1>2, DoesIs DEF Typed, JobsTyped
<1>4. ~outdated'[t] /\ \A u \in Threads : u # t => outdated'[u] = outdated[u]
  BY DEF ListMapping, Typed, TalesTyped
<1>5. Mapping' = Mapping
  BY MappingStays DEF ListMapping
<1>6. ListsAreLatest'
  BY <1>1, <1>3, <1>4, <1>5 DEF Storing, ListsAreLatest
<1>7. WillStore(t)'
  BY <1>1, <1>3, <1>4 DEF WillStore
<1> QED BY <1>6, <1>7 DEF Storing, StoredOrDue

LEMMA StoreStores == ASSUME Typed, Storing, NEW t \in Threads, StoreMapping(t) PROVE Storing'
<1>1. /\ DOMAIN job' = Threads /\ job'[t] = NoJob
      /\ \A u \in Threads : u # t => job'[u] = job[u]
  BY DoesIs DEF Typed, JobsTyped, StoreMapping
<1>2. Mapping' = Mapping /\ outdated' = outdated /\ job[t].at = "store"
  BY MappingStays DEF StoreMapping, At
<1>3. ListsAreLatest'
  BY <1>1, <1>2, NoJobFits DEF Storing, ListsAreLatest
<1>4. StoredOrDue'
  <2>1. CASE lost'
    BY <2>1 DEF StoredOrDue
  <2>2. CASE ~lost'
    <3>1. stored' = job[t].list /\ wroteOld' = outdated[t]
      BY <2>2 DEF StoreMapping
    <3> QED BY <1>2, <3>1 DEF Storing, ListsAreLatest, StoredOrDue
  <2> QED BY <2>1, <2>2
<1> QED BY <1>3, <1>4 DEF Storing

LEMMA StayStores ==
  ASSUME Typed, Storing, UNCHANGED <<objs, netElems, job, stored, outdated, wroteOld, lost>>,
         ~crashed' => ~crashed
  PROVE  Storing'
BY MappingStays, QuietStores

LEMMA NothingMapped == ASSUME netElems' = <<>> PROVE Mapping' = NoRules
BY DEF Mapping, NoRules

LEMMA ListenerStores ==
  ASSUME Typed, Storing, ClearScenario \/ ClearRules \/ ProcessScenario \/ SetDefaults \/ DefaultsPanic
  PROVE  Storing'
<1>1. CASE ClearScenario
  <2> DEFINE j == [NoJob EXCEPT !.at = "clear", !.as = "clear"]
  <2>1. j.at = "clear"
    BY DEF NoJob
  <2>2. Does(Listener, j) /\ job[Listener].at = "idle"
    BY <1>1 DEF ClearScenario, Receive, At
  <2> HIDE DEF j
  <2>3. UNCHANGED <<objs, netElems, stored, outdated, wroteOld, crashed, lost>>
    BY <1>1 DEF ClearScenario
  <2> QED BY <2>1, <2>2, <2>3, ListenerIs, MappingStays, OneStores DEF Applying
<1>2. CASE ClearRules
  <2>1. /\ DOMAIN job' = Threads /\ job'[Listener] = NoJob
        /\ \A u \in Threads : u # Listener => job'[u] = job[u]
    BY <1>2, ListenerIs, DoesIs DEF Typed, JobsTyped, ClearRules
  <2>2. Mapping' = NoRules
    BY <1>2, NothingMapped DEF ClearRules
  <2>3. ListsAreLatest'
    <3> SUFFICES ASSUME NEW u \in Threads, job'[u].at = "store", ~outdated'[u]
                 PROVE  job'[u].list = Mapping'
      BY DEF ListsAreLatest
    <3>1. u # Listener
      BY <2>1, NoJobFits
    <3>2. job[u].at = "store" /\ job'[u] = job[u]
      BY <2>1, <3>1
    <3>3. ~outdated[u] /\ Mapping' = Mapping
      BY <1>2, <3>2 DEF Outdate, ClearRules
    <3> QED BY <3>2, <3>3 DEF Storing, ListsAreLatest
  <2>4. StoredOrDue'
    BY <1>2, <2>2 DEF ClearRules, StoredOrDue
  <2> QED BY <2>3, <2>4 DEF Storing
<1>3. CASE ProcessScenario
  <2>1. PICK as : Does(Listener, [NoJob EXCEPT !.at = "defaults", !.as = as])
    BY <1>3 DEF ProcessScenario
  <2>2. [NoJob EXCEPT !.at = "defaults", !.as = as].at = "defaults"
    BY DEF NoJob
  <2>3. PICK j : Does(Listener, j) /\ j.at = "defaults"
    BY <2>1, <2>2
  <2> QED BY <1>3, <2>3, ListenerIs, ChangeStores DEF ProcessScenario, Applying
<1>4. CASE SetDefaults
  <2>1. Does(Listener, Passing(job[Listener])) /\ job[Listener].at = "defaults"
    BY <1>4 DEF SetDefaults, At
  <2>2. UNCHANGED <<objs, netElems, stored, outdated, wroteOld, crashed, lost>>
    BY <1>4 DEF SetDefaults, tales
  <2> QED BY <2>1, <2>2, PassingIs, ListenerIs, MappingStays, OneStores DEF Applying
<1>5. CASE DefaultsPanic
  <2>1. Does(Listener, NoJob) /\ job[Listener].at = "defaults" /\ crashed'
    BY <1>5 DEF DefaultsPanic, At
  <2>2. UNCHANGED <<objs, netElems, stored, outdated, wroteOld, lost>>
    BY <1>5 DEF DefaultsPanic, tales
  <2> QED BY <2>1, <2>2, NoJobFits, ListenerIs, MappingStays, OneStores
<1> QED BY <1>1, <1>2, <1>3, <1>4, <1>5

LEMMA RestartStores == ASSUME Restart PROVE Storing'
<1>1. Mapping' = NoRules
  BY NothingMapped DEF Restart
<1>2. \A u \in Threads : job'[u].at = "idle"
  BY NoJobFits DEF Restart
<1> QED BY <1>1, <1>2 DEF Restart, Storing, ListsAreLatest, StoredOrDue

\* What others do goes on, while t begins to fill a map.
Goes(u, t) ==
  /\ u # t => /\ job'[u].at = job[u].at /\ job'[u].as = job[u].as /\ job'[u].list = job[u].list
              /\ job'[u].elem = job[u].elem /\ job'[u].grp = job[u].grp /\ job'[u].flag = job[u].flag
  /\ u = t => job'[u].at = "fill"

LEMMA AppGoes ==
  ASSUME Typed, NEW t \in RestThreads, NEW g \in Groups, NEW a \in Apps,
         MgAppCreate(t, g, a) \/ MgAppDelete(t, g, a)
  PROVE  \A u \in Threads : Goes(u, t)
<1>1. /\ mgInfoMap[g] \in 1 .. Len(mgs)
      /\ \E as : \E apps \in SUBSET Apps : \E b : Begin(t, Filling(as, mgInfoMap[g], apps, b))
  <2>1. /\ mgInfoMap[g] \in 1 .. Len(mgs) /\ mgs[mgInfoMap[g]].apps \subseteq Apps
    BY TheGroup DEF MgAppCreate, MgAppDelete
  <2> DEFINE k == mgInfoMap[g]
             c == mgs[k].apps \cup {a}
             d == mgs[k].apps \ {a}
  <2>2. c \in SUBSET Apps /\ d \in SUBSET Apps
    BY <2>1
  <2>3. Begin(t, Filling("app", k, c, Fills(k) = {})) \/ Begin(t, Filling("delete", k, d, Fills(k) = {}))
    BY DEF MgAppCreate, MgAppDelete
  <2> HIDE DEF c, d, k
  <2>4. PICK b : b = (Fills(k) = {})
    OBVIOUS
  <2>5. Begin(t, Filling("app", k, c, b)) \/ Begin(t, Filling("delete", k, d, b))
    BY <2>3, <2>4, Zenon
  <2> QED BY <2>1, <2>2, <2>5 DEF k
<1>2. PICK as : \E apps \in SUBSET Apps : \E b : Begin(t, Filling(as, mgInfoMap[g], apps, b))
  BY <1>1
<1>3. PICK apps \in SUBSET Apps : \E b : Begin(t, Filling(as, mgInfoMap[g], apps, b))
  BY <1>2
<1>4. PICK b : Begin(t, Filling(as, mgInfoMap[g], apps, b))
  BY <1>3
<1> DEFINE j == Filling(as, mgInfoMap[g], apps, b)
<1>5. j.at = "fill"
  <2>1. PICK k \in 1 .. Len(mgs) : k = mgInfoMap[g]
    BY <1>1
  <2>2. Filled(Filling(as, k, apps, b), as, k, apps)
    BY FillingIs
  <2> QED BY <2>1, <2>2, Zenon DEF Filled
<1>6. Begin(t, j)
  BY <1>4
<1> HIDE DEF j
<1>7. ASSUME NEW u \in Threads
      PROVE  Goes(u, t)
  <2>1. t \in Threads
    BY DEF Threads
  <2>2. /\ job'[t] = j
        /\ u # t => job'[u] = IF u \in Fills(j.obj) THEN [job[u] EXCEPT !.whole = FALSE] ELSE job[u]
    BY <1>6, <2>1, BeginIs
  <2> DEFINE v == [job[u] EXCEPT !.whole = FALSE]
  <2>3. /\ v.at = job[u].at /\ v.as = job[u].as /\ v.list = job[u].list /\ v.elem = job[u].elem
        /\ v.grp = job[u].grp
    BY LengthsAre, NotWholeFits DEF Typed, JobsTyped
  <2>4. v.flag = job[u].flag
    BY DEF Typed, JobsTyped, Fits, Fields
  <2> QED BY <1>5, <2>2, <2>3, <2>4 DEF Goes
<1> QED BY <1>7

LEMMA RequestStores ==
  ASSUME Typed, Storing, NEW t \in RestThreads, NEW g \in Groups,
         \/ \E s \in Settings : MgCreate(t, g, s.trigger, s.lb) \/ MgUpdate(t, g, s.trigger, s.lb)
         \/ MgDelete(t, g)
         \/ \E a \in Apps : MgAppCreate(t, g, a) \/ MgAppDelete(t, g, a)
         \/ \E u \in PLs : MgUeCreate(t, g, u)
  PROVE  Storing'
<1>1. CASE \/ \E s \in Settings : MgCreate(t, g, s.trigger, s.lb) \/ MgUpdate(t, g, s.trigger, s.lb)
           \/ MgDelete(t, g)
  <2>1. CASE \E s \in Settings : MgCreate(t, g, s.trigger, s.lb)
    BY <2>1, StayStores DEF MgCreate
  <2>2. CASE \E s \in Settings : MgUpdate(t, g, s.trigger, s.lb)
    BY <2>2, StayStores DEF MgUpdate, tales
  <2>3. CASE MgDelete(t, g)
    BY <2>3, StayStores DEF MgDelete
  <2> QED BY <1>1, <2>1, <2>2, <2>3
<1>2. CASE \E a \in Apps : MgAppCreate(t, g, a) \/ MgAppDelete(t, g, a)
  <2>1. \A u \in Threads : Goes(u, t)
    BY <1>2, AppGoes
  <2>2. UNCHANGED <<objs, netElems, stored, outdated, wroteOld, crashed, lost>> /\ job[t].at = "idle"
    BY <1>2 DEF MgAppCreate, MgAppDelete, Request, At
  <2> QED BY <2>1, <2>2, MappingStays, QuietStores DEF Applying, Goes
<1>3. CASE \E u \in PLs : MgUeCreate(t, g, u)
  <2>1. Does(t, Passing([NoJob EXCEPT !.as = "ue"])) /\ job[t].at = "idle" /\ t \in Threads
    BY <1>3 DEF MgUeCreate, Request, At, Threads
  <2>2. Passing([NoJob EXCEPT !.as = "ue"]).at = "pass"
    BY PassingIs
  <2>3. UNCHANGED <<objs, netElems, stored, outdated, wroteOld, crashed, lost>>
    BY <1>3 DEF MgUeCreate
  <2> QED BY <2>1, <2>2, <2>3, MappingStays, OneStores DEF Applying
<1> QED BY <1>1, <1>2, <1>3

LEMMA NextStores == ASSUME Typed, Storing, [Next]_vars PROVE Storing'
<1>1. CASE UNCHANGED vars \/ ScenarioChange \/ Run \/ Notify \/ Idle
  BY <1>1, StayStores DEF vars, tales, ScenarioChange, Run, Notify, Idle
<1>2. CASE \E t \in RestThreads, g \in Groups :
       \/ \E s \in Settings : MgCreate(t, g, s.trigger, s.lb) \/ MgUpdate(t, g, s.trigger, s.lb)
       \/ MgDelete(t, g)
       \/ \E a \in Apps : MgAppCreate(t, g, a) \/ MgAppDelete(t, g, a)
       \/ \E u \in PLs : MgUeCreate(t, g, u)
  BY <1>2, RequestStores
<1>3. CASE \E t \in Threads :
       \/ FillLoc(t) \/ FillPanics(t) \/ LeaveMap(t)
       \/ SetSvcMap(t) \/ Move(t) \/ Decide(t) \/ SetFlag(t) \/ ListMapping(t) \/ StoreMapping(t)
  BY <1>3, FillStores, VisitStores, ListStores, StoreStores
<1>4. CASE \E t \in Threads : \E i \in DOMAIN objs, g \in Groups :
            PassOver(t, i, g) \/ Look(t, i, g) \/ TrackPanics(t, i, g) \/ Track(t, i, g)
  BY <1>4, PassStores, PanicStores
<1>5. CASE ClearScenario \/ ClearRules \/ ProcessScenario \/ SetDefaults \/ DefaultsPanic \/ Restart
  BY <1>5, ListenerStores, RestartStores
<1> QED BY <1>1, <1>2, <1>3, <1>4, <1>5 DEF Next

LEMMA InitStores == Init => Storing
BY NoJobFits DEF Init, Storing, ListsAreLatest, StoredOrDue, Mapping, NoRules

\* The types, the lists and the store, on every step: a goroutine whose list is
\* not outdated has the mapping, and the mapping is stored or will be.
THEOREM MappingIsStored == Spec => [](Typed /\ Storing)
<1>1. Init => Typed /\ Storing
  BY InitTyped, InitStores
<1>2. Typed /\ Storing /\ [Next]_vars => Typed' /\ Storing'
  BY NextTyped, NextStores
<1> QED BY <1>1, <1>2, PTL DEF Spec

\* When nothing is in progress the stored rules are the mapping, unless the last
\* list stored was outdated, a store failed or a pass broke off (StoreMapping,
\* TrackPanics): for any number of goroutines.
THEOREM StoredRulesAreExplained == Spec => []StoredIsExplained
<1>1. Storing => StoredIsExplained
  BY DEF Storing, StoredOrDue, WillStore, Applying, StoredIsExplained, AllIdle
<1> QED BY <1>1, MappingIsStored, PTL

-----------------------------------------------------------------------------
(* Part three: the transfer flag of an element.                            *)

Hand    == {"move", "decide", "flag"}
Alone   == ~(Cardinality(Groups) > 1)
Open(i) == \E g \in Groups : <<i, g>> \in open

\* The flag says whether a transfer is open.
Right(i) ==
  /\ objs[i].transfer => Open(i)
  /\ Open(i) => objs[i].transfer \/ ~Alone

\* What the goroutine that has an element in hand relies on.
InHand(u) ==
  LET i == job[u].elem
  IN  /\ job[u].at = "decide" => Right(i)
      /\ job[u].at = "move" /\ Alone => ~Open(i)
      /\ job[u].at = "flag" => IF job[u].flag THEN <<i, job[u].grp>> \in open ELSE Alone => ~Open(i)

FlagAt(i) ==
  i \notin crossed =>
    /\ Hands(i) = {} => Right(i)
    /\ \A u, v \in Hands(i) : u = v
    /\ \A u \in Hands(i) : InHand(u)

Flags == \A i \in DOMAIN objs : FlagAt(i)

LEMMA TheOnlyGroup == ASSUME Alone, NEW g \in Groups, NEW h \in Groups PROVE g = h
<1> SUFFICES ASSUME g # h PROVE FALSE
  OBVIOUS
<1>1. IsFiniteSet(Groups) /\ {g, h} \subseteq Groups
  BY MgAssumption
<1>2. Cardinality({g, h}) <= Cardinality(Groups) /\ Cardinality(Groups) \in Nat
  BY <1>1, FS_Subset, FS_CardinalityType
<1>3. Cardinality({g, h}) = 2
  <2>1. IsFiniteSet({g}) /\ Cardinality({g}) = 1
    BY FS_Singleton
  <2>2. Cardinality({g} \cup {h}) = Cardinality({g}) + 1
    BY <2>1, FS_AddElement
  <2>3. {g} \cup {h} = {g, h}
    OBVIOUS
  <2> QED BY <2>1, <2>2, <2>3
<1> QED BY <1>2, <1>3 DEF Alone

\* The places of the others.
LEMMA HandsAre ==
  ASSUME NEW i, NEW u
  PROVE  u \in Hands(i) <=> u \in Threads /\ job[u].elem = i /\ job[u].at \in Hand
BY DEF Hands, Hand

\* A step of one goroutine with another element, or none, in hand.
LEMMA ElsewhereFlags ==
  ASSUME Typed, NEW t \in Threads, NEW j, Does(t, j), NEW i, FlagAt(i),
         job[t].at \in Hand => job[t].elem # i, j.at \in Hand => j.elem # i,
         objs'[i].transfer = objs[i].transfer, \A g : (<<i, g>> \in open') <=> (<<i, g>> \in open),
         i \notin crossed' => i \notin crossed
  PROVE  FlagAt(i)'
<1>1. /\ DOMAIN job' = Threads /\ job'[t] = j
      /\ \A u \in Threads : u # t => job'[u] = job[u]
  BY DoesIs DEF Typed, JobsTyped
<1>2. ASSUME NEW u
      PROVE  (u \in Hands(i)') <=> (u \in Hands(i))
  BY <1>1 DEF Hands, Hand
<1>3. Right(i)' <=> Right(i)
  BY DEF Right, Open, Alone
<1>4. ASSUME NEW u \in Hands(i)
      PROVE  InHand(u)' <=> InHand(u)
  <2>1. job'[u] = job[u] /\ job[u].elem = i
    BY <1>1 DEF Hands, Hand
  <2>2. Open(i)' <=> Open(i)
    BY DEF Open
  <2> QED BY <1>3, <2>1, <2>2 DEF InHand, Alone
<1> QED BY <1>2, <1>3, <1>4 DEF FlagAt

\* A step of the goroutine that has the element in hand, or takes it.
LEMMA HereFlags ==
  ASSUME Typed, NEW t \in Threads, NEW j, Does(t, j), NEW i, FlagAt(i), i \notin crossed' => i \notin crossed,
         i \notin crossed' => Hands(i) \subseteq {t},
         i \notin crossed' /\ ~(j.at \in Hand) => Right(i)',
         i \notin crossed' /\ j.at \in Hand => j.elem = i /\ InHand(t)'
  PROVE  FlagAt(i)'
<1> SUFFICES ASSUME i \notin crossed' 
             PROVE  /\ Hands(i)' = {} => Right(i)'
                    /\ \A u, v \in Hands(i)' : u = v
                    /\ \A u \in Hands(i)' : InHand(u)'
  BY DEF FlagAt
<1>1. /\ DOMAIN job' = Threads /\ job'[t] = j
      /\ \A u \in Threads : u # t => job'[u] = job[u]
  BY DoesIs DEF Typed, JobsTyped
<1>2. Hands(i)' \subseteq {t}
  <2> SUFFICES ASSUME NEW u \in Hands(i)', u # t PROVE FALSE
    OBVIOUS
  <2>1. u \in Hands(i)
    BY <1>1 DEF Hands
  <2> QED BY <2>1
<1>3. t \in Hands(i)' => j.at \in Hand
  BY <1>1 DEF Hands, Hand
<1>4. j.at \in Hand => t \in Hands(i)'
  BY <1>1 DEF Hands, Hand
<1> QED BY <1>2, <1>3, <1>4

\* A step with no element in hand.
LEMMA NoHandFlags ==
  ASSUME Typed, Flags, NEW t \in Threads, NEW j, Does(t, j), ~(job[t].at \in Hand), ~(j.at \in Hand),
         DOMAIN objs' = DOMAIN objs, \A i \in DOMAIN objs : objs'[i].transfer = objs[i].transfer,
         UNCHANGED <<open, crossed>>
  PROVE  Flags'
<1>1. ASSUME NEW i \in DOMAIN objs
      PROVE  FlagAt(i)'
  BY ElsewhereFlags DEF Flags
<1> QED BY <1>1 DEF Flags

\* A step of nobody.
LEMMA NobodyFlags ==
  ASSUME Flags, UNCHANGED <<objs, open, crossed>>,
         \A u \in Threads : /\ job'[u].at = job[u].at /\ job'[u].elem = job[u].elem
                            /\ job'[u].grp = job[u].grp /\ job'[u].flag = job[u].flag
  PROVE  Flags'
<1>1. ASSUME NEW i \in DOMAIN objs
      PROVE  FlagAt(i)'
  <2>1. Hands(i)' = Hands(i)
    BY DEF Hands
  <2>2. Right(i)' <=> Right(i)
    BY DEF Right, Open, Alone
  <2>3. ASSUME NEW u \in Hands(i)
        PROVE  InHand(u)' <=> InHand(u)
    BY <2>2 DEF InHand, Hands, Open, Alone
  <2> QED BY <2>1, <2>2, <2>3 DEF Flags, FlagAt
<1> QED BY <1>1 DEF Flags

LEMMA FillFlags ==
  ASSUME Typed, Flags, NEW t \in Threads, FillLoc(t) \/ FillPanics(t) \/ LeaveMap(t)
  PROVE  Flags'
<1>1. UNCHANGED <<objs, open, crossed>> /\ job[t].at = "fill"
  BY DEF FillLoc, FillPanics, LeaveMap, At
<1>2. PICK j : Does(t, j) /\ j.at \in {"pass", "idle", "fill"}
  BY FillGoes
<1> QED BY <1>1, <1>2, NoHandFlags DEF Hand

LEMMA PassFlags ==
  ASSUME Typed, Flags, NEW t \in Threads, NEW i \in DOMAIN objs, NEW g \in Groups,
         PassOver(t, i, g) \/ Look(t, i, g) \/ TrackPanics(t, i, g)
  PROVE  Flags'
<1>1. UNCHANGED <<objs, open, crossed>> /\ job[t].at = "pass"
  BY DEF PassOver, Look, TrackPanics, Visits, At, tales
<1>2. PICK j : Does(t, j) /\ j.at \in {"pass", "idle", "write"}
  BY LookGoes, NoJobFits DEF TrackPanics
<1> QED BY <1>1, <1>2, NoHandFlags DEF Hand

\* Track: who takes an element in hand finds it in nobody else's, or it counts
\* as crossed from then on.
LEMMA TrackFlags ==
  ASSUME Typed, Flags, NEW t \in Threads, NEW i \in DOMAIN objs, NEW g \in Groups, Track(t, i, g)
  PROVE  Flags'
<1>1. PICK j : TrackJob(t, i, g, j)
  BY TrackGoes
<1>2. Does(t, j) /\ j.at \in {"pass", "decide", "move"} /\ (j.at \in Hand => j.elem = i)
  BY <1>1 DEF TrackJob, Hand
<1>3. /\ job[t].at = "pass" /\ objs' = objs
      /\ crossed' = IF Hands(i) # {} THEN crossed \cup {i} ELSE crossed
  BY DEF Track, Visits, At
<1>4. open' = IF j.at = "move" THEN open \ {<<i, g>>} ELSE open
  BY <1>1 DEF Track, TrackJob
<1>5. ASSUME NEW k \in DOMAIN objs, k # i
      PROVE  FlagAt(k)'
  BY <1>2, <1>3, <1>4, <1>5, ElsewhereFlags DEF Flags, Hand
<1>6. FlagAt(i)'
  <2>1. FlagAt(i) /\ (i \notin crossed' => i \notin crossed /\ Hands(i) = {})
    BY <1>3 DEF Flags
  <2>2. i \notin crossed' => Right(i)
    BY <2>1 DEF FlagAt
  <2>3. ASSUME i \notin crossed', ~(j.at \in Hand)
        PROVE  Right(i)'
    BY <1>3, <1>4, <2>2, <2>3 DEF Right, Open, Hand, Alone
  <2>4. ASSUME i \notin crossed', j.at \in Hand
        PROVE  j.elem = i /\ InHand(t)'
    <3>1. job'[t] = j
      BY <1>2, DoesIs DEF Typed, JobsTyped
    <3>2. CASE j.at = "decide"
      <4>1. Right(i)'
        BY <1>3, <1>4, <2>2, <2>4, <3>2 DEF Right, Open, Alone
      <4> QED BY <1>2, <2>4, <3>1, <3>2, <4>1 DEF InHand
    <3>3. CASE j.at = "move"
      <4>1. Alone => ~Open(i)'
        BY <1>4, <3>3, TheOnlyGroup DEF Open
      <4> QED BY <1>2, <2>4, <3>1, <3>3, <4>1 DEF InHand, Alone
    <3> QED BY <1>2, <2>4, <3>2, <3>3 DEF Hand
  <2> QED BY <1>2, <2>1, <2>3, <2>4, HereFlags
<1> QED BY <1>3, <1>5, <1>6 DEF Flags

LEMMA SetSvcMapFlags == ASSUME Typed, Flags, NEW t \in Threads, SetSvcMap(t) PROVE Flags'
<1>1. /\ objs' = [objs EXCEPT ![job[t].elem].map[job[t].grp] = job[t].best]
      /\ UNCHANGED <<open, crossed>> /\ job[t].at = "write" /\ Does(t, Visited(job[t]))
  BY DEF SetSvcMap, At
<1>2. objs[job[t].elem] \in Element /\ job[t].elem \in 1 .. Len(objs) /\ DOMAIN objs = 1 .. Len(objs)
  BY <1>1, VisitorIs, LengthsAre
<1>3. DOMAIN objs' = DOMAIN objs /\ \A i \in DOMAIN objs : objs'[i].transfer = objs[i].transfer
  BY <1>1, <1>2 DEF Element
<1>4. Visited(job[t]).at = "pass"
  BY LengthsAre, VisitedIs DEF Typed, JobsTyped
<1> QED BY <1>1, <1>3, <1>4, NoHandFlags DEF Hand

\* The element that a goroutine has in hand is in nobody else's.
LEMMA OnlyHand ==
  ASSUME Typed, Flags, NEW t \in Threads, job[t].at \in Hand
  PROVE  /\ job[t].elem \in DOMAIN objs /\ FlagAt(job[t].elem) /\ job[t].grp \in Groups
         /\ job[t].elem \notin crossed => Hands(job[t].elem) = {t} /\ InHand(t)
<1>1. job[t].elem \in DOMAIN objs /\ job[t].grp \in Groups
  BY VisitorIs, LengthsAre DEF Hand
<1>2. FlagAt(job[t].elem)
  BY <1>1 DEF Flags
<1>3. t \in Hands(job[t].elem)
  BY DEF Hands, Hand
<1> QED BY <1>1, <1>2, <1>3 DEF FlagAt

LEMMA MoveFlags == ASSUME Typed, Flags, NEW t \in Threads, Move(t) PROVE Flags'
<1>0. PICK k : k = job[t].elem
  OBVIOUS
<1> DEFINE w == [job[t] EXCEPT !.at = "decide"]
<1>1. /\ objs' = [objs EXCEPT ![k].map[job[t].grp] = job[t].best, ![k].transfer = FALSE]
      /\ UNCHANGED <<open, crossed>> /\ job[t].at = "move"
      /\ Does(t, w) \/ Does(t, Visited(job[t]))
  BY <1>0 DEF Move, At
<1>2. /\ k \in DOMAIN objs /\ FlagAt(k) /\ (k \notin crossed => Hands(k) = {t} /\ InHand(t))
      /\ objs[k] \in Element /\ DOMAIN objs = 1 .. Len(objs)
  BY <1>0, <1>1, OnlyHand, VisitorIs, LengthsAre DEF Hand
<1>3. /\ DOMAIN objs' = DOMAIN objs /\ objs'[k].transfer = FALSE
      /\ \A i \in DOMAIN objs : i # k => objs'[i] = objs[i]
  BY <1>1, <1>2 DEF Element
<1>4. w.at = "decide" /\ w.elem = k
  BY <1>0 DEF Typed, JobsTyped, Fits, Fields
<1>5. Visited(job[t]).at = "pass"
  BY LengthsAre, VisitedIs DEF Typed, JobsTyped
<1> HIDE DEF w
<1>6. PICK j : Does(t, j) /\ ((j.at = "decide" /\ j.elem = k) \/ j.at = "pass")
  BY <1>1, <1>4, <1>5
<1>7. k \notin crossed => Right(k)'
  <2>1. k \notin crossed /\ Alone => ~Open(k)
    BY <1>0, <1>1, <1>2 DEF InHand
  <2> QED BY <1>1, <1>3, <2>1 DEF Right, Open, Alone
<1>8. ASSUME NEW i \in DOMAIN objs, i # k
      PROVE  FlagAt(i)'
  BY <1>0, <1>1, <1>3, <1>6, <1>8, ElsewhereFlags DEF Flags, Hand
<1>9. FlagAt(k)'
  <2>1. ASSUME k \notin crossed', j.at \in Hand
        PROVE  j.elem = k /\ InHand(t)'
    <3>1. job'[t] = j
      BY <1>6, DoesIs DEF Typed, JobsTyped
    <3>2. j.at = "decide" /\ j.elem = k
      BY <1>6, <2>1 DEF Hand
    <3> QED BY <1>1, <1>7, <2>1, <3>1, <3>2 DEF InHand
  <2> QED BY <1>1, <1>2, <1>6, <1>7, <2>1, HereFlags
<1> QED BY <1>3, <1>8, <1>9 DEF Flags

LEMMA DecideFlags == ASSUME Typed, Flags, NEW t \in Threads, Decide(t) PROVE Flags'
<1>0. PICK k : k = job[t].elem
  OBVIOUS
<1> DEFINE p    == <<k, job[t].grp>>
           mg   == mgs[job[t].obj]
           many == Cardinality(mg.inRange[objs[k].phy]) > 1
           acts == many # objs[k].transfer
           w    == [job[t] EXCEPT !.at = "flag", !.flag = many]
<1>1. /\ UNCHANGED <<objs, crossed>> /\ job[t].at = "decide"
      /\ open' = IF ~acts THEN open ELSE IF many THEN open \cup {p} ELSE open \ {p}
      /\ Does(t, IF acts THEN w ELSE Visited(job[t]))
  BY <1>0 DEF Decide, At
<1>2. /\ k \in DOMAIN objs /\ FlagAt(k) /\ job[t].grp \in Groups
      /\ k \notin crossed => Hands(k) = {t} /\ InHand(t)
  BY <1>0, <1>1, OnlyHand DEF Hand
<1> HIDE DEF many, acts
<1>4. w.at = "flag" /\ w.elem = k /\ w.flag = many /\ w.grp = job[t].grp
  BY <1>0 DEF Typed, JobsTyped, Fits, Fields
<1>5. Visited(job[t]).at = "pass"
  BY LengthsAre, VisitedIs DEF Typed, JobsTyped
<1> HIDE DEF w
<1>6. ASSUME NEW i \in DOMAIN objs, i # k
      PROVE  FlagAt(i)'
  <2>1. \A g : (<<i, g>> \in open') <=> (<<i, g>> \in open)
    BY <1>1, <1>6
  <2>2. PICK j : Does(t, j) /\ (j.at \in Hand => j.elem # i)
    <3>1. CASE acts
      BY <1>1, <1>4, <1>6, <3>1
    <3>2. CASE ~acts
      BY <1>1, <1>5, <3>2 DEF Hand
    <3> QED BY <3>1, <3>2
  <2> QED BY <1>0, <1>1, <1>6, <2>1, <2>2, ElsewhereFlags DEF Flags
<1>7. FlagAt(k)'
  <2>1. CASE acts
    <3>1. ASSUME k \notin crossed'
          PROVE  w.elem = k /\ InHand(t)'
      <4>1. job'[t] = w
        BY <1>1, <2>1, DoesIs DEF Typed, JobsTyped
      <4>2. CASE many
        <5>1. p \in open' /\ w.flag = TRUE
          BY <1>1, <1>4, <2>1, <4>2
        <5> QED BY <1>4, <4>1, <5>1 DEF InHand
      <4>3. CASE ~many
        <5>1. open' = open \ {p}
          BY <1>1, <2>1, <4>3
        <5>2. Alone => ~Open(k)'
          BY <1>2, <5>1, TheOnlyGroup DEF Open
        <5>3. ~w.flag
          BY <1>4, <4>3
        <5> QED BY <1>4, <4>1, <5>2, <5>3 DEF InHand, Alone
      <4> QED BY <4>2, <4>3
    <3>2. w.at \in Hand /\ Does(t, w)
      BY <1>1, <1>4, <2>1 DEF Hand
    <3> QED BY <1>1, <1>2, <3>1, <3>2, HereFlags
  <2>2. CASE ~acts
    <3>1. k \notin crossed' => Right(k)'
      BY <1>0, <1>1, <1>2, <2>2 DEF InHand, Right, Open, Alone
    <3>2. Does(t, Visited(job[t])) /\ ~(Visited(job[t]).at \in Hand)
      BY <1>1, <1>5, <2>2 DEF Hand
    <3> QED BY <1>1, <1>2, <3>1, <3>2, HereFlags
  <2> QED BY <2>1, <2>2
<1> QED BY <1>1, <1>6, <1>7 DEF Flags

LEMMA SetFlagFlags == ASSUME Typed, Flags, NEW t \in Threads, SetFlag(t) PROVE Flags'
<1>0. PICK k : k = job[t].elem
  OBVIOUS
<1>1. /\ objs' = [objs EXCEPT ![k].transfer = job[t].flag]
      /\ UNCHANGED <<open, crossed>> /\ job[t].at = "flag" /\ Does(t, Visited(job[t]))
  BY <1>0 DEF SetFlag, At, tales
<1>2. /\ k \in DOMAIN objs /\ FlagAt(k) /\ (k \notin crossed => Hands(k) = {t} /\ InHand(t))
      /\ objs[k] \in Element /\ DOMAIN objs = 1 .. Len(objs)
      /\ job[t].flag \in BOOLEAN /\ job[t].grp \in Groups
  BY <1>0, <1>1, OnlyHand, VisitorIs, LengthsAre DEF Hand
<1>3. /\ DOMAIN objs' = DOMAIN objs /\ objs'[k].transfer = job[t].flag
      /\ \A i \in DOMAIN objs : i # k => objs'[i] = objs[i]
  BY <1>1, <1>2 DEF Element
<1>5. Visited(job[t]).at = "pass"
  BY LengthsAre, VisitedIs DEF Typed, JobsTyped
<1>6. k \notin crossed => Right(k)'
  <2>1. CASE job[t].flag
    <3>1. k \notin crossed => <<k, job[t].grp>> \in open
      BY <1>0, <1>1, <1>2, <2>1 DEF InHand
    <3>2. k \notin crossed => Open(k)'
      BY <1>1, <1>2, <3>1 DEF Open
    <3>3. objs'[k].transfer
      BY <1>3, <2>1
    <3> QED BY <3>2, <3>3 DEF Right
  <2>2. CASE ~job[t].flag
    <3>1. k \notin crossed => (Alone => ~Open(k))
      BY <1>0, <1>1, <1>2, <2>2 DEF InHand
    <3>2. k \notin crossed => (Alone => ~Open(k)')
      BY <1>1, <3>1 DEF Open
    <3>3. ~objs'[k].transfer
      BY <1>3, <2>2
    <3> QED BY <3>2, <3>3 DEF Right, Alone
  <2> QED BY <2>1, <2>2
<1>7. ASSUME NEW i \in DOMAIN objs, i # k
      PROVE  FlagAt(i)'
  BY <1>0, <1>1, <1>3, <1>5, <1>7, ElsewhereFlags DEF Flags, Hand
<1>8. FlagAt(k)'
  <2>1. ~(Visited(job[t]).at \in Hand)
    BY <1>5 DEF Hand
  <2> QED BY <1>1, <1>2, <1>6, <2>1, HereFlags
<1> QED BY <1>3, <1>7, <1>8 DEF Flags

LEMMA ApplyFlags == ASSUME Typed, Flags, NEW t \in Threads, ListMapping(t) \/ StoreMapping(t) PROVE Flags'
<1>1. UNCHANGED <<objs, open, crossed>> /\ job[t].at \in {"pass", "store"}
  BY DEF ListMapping, StoreMapping, At
<1>2. PICK j : Does(t, j) /\ j.at \in {"store", "idle"}
  <2>1. CASE ListMapping(t)
    <3> DEFINE j == [NoJob EXCEPT !.at = "store", !.as = job[t].as, !.list = Mapping]
    <3>1. j.at = "store"
      BY DEF NoJob
    <3>2. Does(t, j)
      BY <2>1 DEF ListMapping
    <3> HIDE DEF j
    <3> QED BY <3>1, <3>2
  <2>2. CASE StoreMapping(t)
    BY <2>2, NoJobFits DEF StoreMapping
  <2> QED BY <2>1, <2>2
<1> QED BY <1>1, <1>2, NoHandFlags DEF Hand

LEMMA ListenerFlags ==
  ASSUME Typed, Flags, ClearScenario \/ ClearRules \/ SetDefaults \/ DefaultsPanic
  PROVE  Flags'
<1>1. UNCHANGED <<objs, open, crossed>> /\ job[Listener].at \in {"idle", "clear", "defaults"}
  BY DEF ClearScenario, ClearRules, SetDefaults, DefaultsPanic, At, Receive, tales
<1>2. PICK j : Does(Listener, j) /\ j.at \in {"clear", "idle", "pass"}
  <2>1. CASE ClearScenario
    <3> DEFINE j == [NoJob EXCEPT !.at = "clear", !.as = "clear"]
    <3>1. j.at = "clear"
      BY DEF NoJob
    <3>2. Does(Listener, j)
      BY <2>1 DEF ClearScenario
    <3> HIDE DEF j
    <3> QED BY <3>1, <3>2
  <2>2. CASE ClearRules \/ DefaultsPanic
    BY <2>2, NoJobFits DEF ClearRules, DefaultsPanic
  <2>3. CASE SetDefaults
    BY <2>3, PassingIs DEF SetDefaults
  <2> QED BY <2>1, <2>2, <2>3
<1> QED BY <1>1, <1>2, ListenerIs, NoHandFlags DEF Hand

\* A new element is in nobody's hand and has no transfer.
LEMMA ProcessFlags == ASSUME Typed, Flags, ProcessScenario PROVE Flags'
<1>1. /\ Len(objs') >= Len(objs) /\ objs' \in Seq(Element)
      /\ \A i \in 1 .. Len(objs) :
           objs'[i] = IF \E e \in active.elems \cap DOMAIN netElems : netElems[e] = i
                      THEN [objs[i] EXCEPT !.net = active.net[objs[i].phy],
                                           !.range = active.range[objs[i].phy]]
                      ELSE objs[i]
      /\ \A i \in Len(objs) + 1 .. Len(objs') : \E e \in active.elems \ DOMAIN netElems :
           objs'[i] = NewElem(e)
  BY ElementsAdded
<1>2. UNCHANGED <<open, crossed>> /\ job[Listener].at = "idle"
  BY DEF ProcessScenario, Receive, At
<1>3. Len(objs) \in Nat /\ Len(objs') \in Nat /\ DOMAIN objs = 1 .. Len(objs) /\ DOMAIN objs' = 1 .. Len(objs')
      /\ objs \in Seq(Element)
  <2>1. objs \in Seq(Element) /\ objs' \in Seq(Element)
    BY <1>1 DEF Typed, ElementsTyped
  <2> QED BY <2>1
<1>4. PICK j : Does(Listener, j) /\ j.at = "defaults"
  <2>1. PICK as : Does(Listener, [NoJob EXCEPT !.at = "defaults", !.as = as])
    BY DEF ProcessScenario
  <2>2. [NoJob EXCEPT !.at = "defaults", !.as = as].at = "defaults"
    BY DEF NoJob
  <2> QED BY <2>1, <2>2
<1>5. ASSUME NEW i \in 1 .. Len(objs)
      PROVE  FlagAt(i)'
  <2>1. objs[i] \in Element
    BY <1>3
  <2>2. objs'[i].transfer = objs[i].transfer
    BY <1>1, <2>1 DEF Element
  <2>3. FlagAt(i)
    BY <1>3 DEF Flags
  <2> QED BY <1>2, <1>4, <2>2, <2>3, ListenerIs, ElsewhereFlags DEF Hand
<1>6. ASSUME NEW i \in Len(objs) + 1 .. Len(objs')
      PROVE  FlagAt(i)'
  <2>1. i \notin 1 .. Len(objs) /\ i \notin 0 .. Len(objs)
    BY <1>3
  <2>2. ~Open(i)'
    BY <1>2, <2>1 DEF Open, Typed, TalesTyped
  <2>3. ~objs'[i].transfer
    <3>1. PICK e : objs'[i] = NewElem(e)
      BY <1>1
    <3> QED BY <3>1 DEF NewElem
  <2>4. /\ DOMAIN job' = Threads /\ job'[Listener] = j
        /\ \A u \in Threads : u # Listener => job'[u] = job[u]
    BY <1>4, ListenerIs, DoesIs DEF Typed, JobsTyped
  <2>5. Hands(i)' = {}
    <3> SUFFICES ASSUME NEW u \in Hands(i)' PROVE FALSE
      OBVIOUS
    <3>1. u \in Threads /\ job'[u].elem = i /\ job'[u].at \in Hand
      BY DEF Hands, Hand
    <3>2. u # Listener
      BY <1>4, <2>4, <3>1 DEF Hand
    <3>3. job[u].elem = i /\ job[u].elem \in 0 .. Len(objs)
      BY <2>4, <3>1, <3>2 DEF Typed, JobsTyped, Fits
    <3> QED BY <2>1, <3>3
  <2> QED BY <2>2, <2>3, <2>5 DEF FlagAt, Right
<1>7. \A i \in DOMAIN objs' : i \in 1 .. Len(objs) \/ i \in Len(objs) + 1 .. Len(objs')
  BY <1>3
<1> QED BY <1>5, <1>6, <1>7 DEF Flags

LEMMA RestartFlags == ASSUME Restart PROVE Flags'
BY EmptyTuple DEF Restart, Flags

LEMMA RequestFlags ==
  ASSUME Typed, Flags, NEW t \in RestThreads, NEW g \in Groups,
         \/ \E s \in Settings : MgCreate(t, g, s.trigger, s.lb) \/ MgUpdate(t, g, s.trigger, s.lb)
         \/ MgDelete(t, g)
         \/ \E a \in Apps : MgAppCreate(t, g, a) \/ MgAppDelete(t, g, a)
         \/ \E u \in PLs : MgUeCreate(t, g, u)
  PROVE  Flags'
<1>1. CASE \E s \in Settings : MgCreate(t, g, s.trigger, s.lb)
  BY <1>1, NobodyFlags DEF MgCreate
<1>2. CASE \E s \in Settings : MgUpdate(t, g, s.trigger, s.lb)
  BY <1>2, NobodyFlags DEF MgUpdate, tales
<1>3. CASE MgDelete(t, g)
  BY <1>3, NobodyFlags DEF MgDelete
<1>4. CASE \E a \in Apps : MgAppCreate(t, g, a) \/ MgAppDelete(t, g, a)
  <2>1. PICK a \in Apps : MgAppCreate(t, g, a) \/ MgAppDelete(t, g, a)
    BY <1>4
  <2>2. \A u \in Threads : Goes(u, t)
    BY <2>1, AppGoes
  <2>3. UNCHANGED <<objs, open, crossed>> /\ job[t].at = "idle" /\ t \in Threads
    BY <2>1 DEF MgAppCreate, MgAppDelete, Request, At, Threads
  <2>4. ASSUME NEW i \in DOMAIN objs
        PROVE  FlagAt(i)'
    <3>1. ASSUME NEW u
          PROVE  (u \in Hands(i)') <=> (u \in Hands(i))
      BY <2>2, <2>3 DEF Hands, Goes
    <3>2. Right(i)' <=> Right(i)
      BY <2>3 DEF Right, Open, Alone
    <3>3. ASSUME NEW u \in Hands(i)
          PROVE  InHand(u)' <=> InHand(u)
      <4>1. u \in Threads /\ u # t /\ job[u].elem = i
        BY <2>3 DEF Hands
      <4> QED BY <2>2, <2>3, <3>2, <4>1 DEF InHand, Goes, Open, Alone
    <3> QED BY <2>3, <3>1, <3>2, <3>3 DEF Flags, FlagAt
  <2> QED BY <2>3, <2>4 DEF Flags
<1>5. CASE \E u \in PLs : MgUeCreate(t, g, u)
  <2>1. Does(t, Passing([NoJob EXCEPT !.as = "ue"])) /\ job[t].at = "idle" /\ t \in Threads
    BY <1>5 DEF MgUeCreate, Request, At, Threads
  <2>2. Passing([NoJob EXCEPT !.as = "ue"]).at = "pass"
    BY PassingIs
  <2>3. UNCHANGED <<objs, open, crossed>>
    BY <1>5 DEF MgUeCreate
  <2> QED BY <2>1, <2>2, <2>3, NoHandFlags DEF Hand
<1> QED BY <1>1, <1>2, <1>3, <1>4, <1>5

LEMMA NextFlags == ASSUME Typed, Flags, [Next]_vars PROVE Flags'
<1>1. CASE UNCHANGED vars \/ ScenarioChange \/ Run \/ Notify \/ Idle
  BY <1>1, NobodyFlags DEF vars, tales, ScenarioChange, Run, Notify, Idle
<1>2. CASE \E t \in RestThreads, g \in Groups :
       \/ \E s \in Settings : MgCreate(t, g, s.trigger, s.lb) \/ MgUpdate(t, g, s.trigger, s.lb)
       \/ MgDelete(t, g)
       \/ \E a \in Apps : MgAppCreate(t, g, a) \/ MgAppDelete(t, g, a)
       \/ \E u \in PLs : MgUeCreate(t, g, u)
  BY <1>2, RequestFlags
<1>3. CASE \E t \in Threads :
       \/ FillLoc(t) \/ FillPanics(t) \/ LeaveMap(t)
       \/ SetSvcMap(t) \/ Move(t) \/ Decide(t) \/ SetFlag(t) \/ ListMapping(t) \/ StoreMapping(t)
  BY <1>3, FillFlags, SetSvcMapFlags, MoveFlags, DecideFlags, SetFlagFlags, ApplyFlags
<1>4. CASE \E t \in Threads : \E i \in DOMAIN objs, g \in Groups :
            PassOver(t, i, g) \/ Look(t, i, g) \/ TrackPanics(t, i, g) \/ Track(t, i, g)
  BY <1>4, PassFlags, TrackFlags
<1>5. CASE ClearScenario \/ ClearRules \/ ProcessScenario \/ SetDefaults \/ DefaultsPanic \/ Restart
  BY <1>5, ListenerFlags, ProcessFlags, RestartFlags
<1> QED BY <1>1, <1>2, <1>3, <1>4, <1>5 DEF Next

LEMMA InitFlags == Init => Flags
BY EmptyTuple DEF Init, Flags

\* An element marked as in transfer has a group whose application was told of a
\* start and of no end (Decide, SetFlag, Track); with one group an open transfer
\* is marked, too: for any number of groups and goroutines, outside of visits
\* and of elements that two goroutines had in hand at once.
THEOREM FlagsAreTrue == Spec => []TransferFlagIsTrue
<1>1. Init => Typed /\ Flags
  BY InitTyped, InitFlags
<1>2. Typed /\ Flags /\ [Next]_vars => Typed' /\ Flags'
  BY NextTyped, NextFlags
<1>3. Flags => TransferFlagIsTrue
  <2> SUFFICES ASSUME Flags, NEW i \in DOMAIN objs, Hands(i) = {}, i \notin crossed
               PROVE  /\ objs[i].transfer => \E g \in Groups : <<i, g>> \in open
                      /\ (\E g \in Groups : <<i, g>> \in open) =>
                           objs[i].transfer \/ Cardinality(Groups) > 1
    BY DEF TransferFlagIsTrue
  <2>1. Right(i)
    BY DEF Flags, FlagAt
  <2> QED BY <2>1 DEF Right, Open, Alone
<1> QED BY <1>1, <1>2, <1>3, PTL DEF Spec

=============================================================================

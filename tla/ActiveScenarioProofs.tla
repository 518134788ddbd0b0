------------------------ MODULE ActiveScenarioProofs ------------------------
(* Proofs about ActiveScenario, for any number of goroutines, services,    *)
(* scenarios, requests, restarts and failures.                             *)
EXTENDS ActiveScenario, SequenceTheorems, TLAPS

Model == [active : BOOLEAN, doc : Docs \cup {Empty}]

\* The steps of Next, one by one.
LEMMA NextCases ==
  ASSUME [Next]_vars
  PROVE  \/ \E t \in Threads : \/ ActivateCheck(t) \/ TerminateCheck(t) \/ EventCheck(t)
                               \/ ActivateSet(t) \/ ActivateModel(t)
                               \/ ActivateGlobal(t) \/ ActivateLocal(t)
                               \/ TerminateDeactivate(t) \/ TerminateLocal(t)
                               \/ TerminateGlobal(t) \/ TerminateNewModel(t)
                               \/ TerminateStore(t) \/ EventApply(t)
                               \/ PoasWrite(t) \/ PoasActivate(t)
         \/ \E s \in Subs : SubInit(s) \/ SubRun(s) \/ SubHandle(s) \/ SubStop(s)
         \/ Restart
         \/ UNCHANGED vars
  BY DEF Next, Enter, Continue, Rest

\* The current and the abandoned models are models.
LEMMA ModelsType ==
  ASSUME TypeOK
  PROVE  /\ models \in Seq(Model) /\ Len(models) = cur
         /\ cur \in 1 .. cur /\ cur \in Nat
         /\ \A i \in 1 .. cur : models[i] \in Model
<1>1. models \in Seq(Model) /\ Len(models) = cur /\ cur >= 1
  BY DEF TypeOK, Model
<1> QED
  BY <1>1, ElementOfSeq

\* Replacing one model leaves a list of models of the same length, ...
LEMMA ModelsExcept ==
  ASSUME TypeOK, NEW i \in 1 .. cur, NEW m \in Model
  PROVE  LET new == [models EXCEPT ![i] = m] IN
         /\ new \in Seq(Model) /\ Len(new) = cur
         /\ \A j \in 1 .. cur : new[j] = IF j = i THEN m ELSE models[j]
  BY ModelsType, ExceptSeq

\* ... so does writing its document, ...
LEMMA DocUpdate ==
  ASSUME TypeOK, NEW i \in 1 .. cur, NEW d \in Docs \cup {Empty},
         models' = [models EXCEPT ![i].doc = d]
  PROVE  /\ models' \in Seq(Model) /\ Len(models') = cur
         /\ models'[i].doc = d /\ models'[i].active = models[i].active
         /\ \A j \in 1 .. cur : j # i => models'[j] = models[j]
<1> DEFINE m == [models[i] EXCEPT !.doc = d]
<1>1. m \in Model /\ m.doc = d /\ m.active = models[i].active
  BY ModelsType DEF Model
<1>2. models' = [models EXCEPT ![i] = m]
  OBVIOUS
<1> HIDE DEF m
<1> QED
  BY <1>1, <1>2, ModelsExcept

\* ... the content of its document, ...
LEMMA ContentUpdate ==
  ASSUME TypeOK, NEW i \in 1 .. cur, NEW c \in Contents, models[i].doc # Empty,
         models' = [models EXCEPT ![i].doc.content = c]
  PROVE  LET d == [models[i].doc EXCEPT !.content = c] IN
         /\ models[i].doc \in Docs
         /\ d \in Docs /\ d.name = models[i].doc.name
         /\ models' \in Seq(Model) /\ Len(models') = cur
         /\ models'[i].doc = d /\ models'[i].active = models[i].active
         /\ \A j \in 1 .. cur : j # i => models'[j] = models[j]
<1> DEFINE d == [models[i].doc EXCEPT !.content = c]
<1>1. models[i].doc \in Docs
  BY ModelsType DEF Model
<1>2. d \in Docs /\ d.name = models[i].doc.name
  BY <1>1 DEF Docs
<1>3. models' = [models EXCEPT ![i].doc = d]
  OBVIOUS
<1> HIDE DEF d
<1>4. /\ models' \in Seq(Model) /\ Len(models') = cur
      /\ models'[i].doc = d /\ models'[i].active = models[i].active
      /\ \A j \in 1 .. cur : j # i => models'[j] = models[j]
  BY <1>2, <1>3, DocUpdate
<1> QED
  BY <1>1, <1>2, <1>4 DEF d

\* ... or setting its flag.
LEMMA FlagUpdate ==
  ASSUME TypeOK, NEW i \in 1 .. cur, NEW b \in BOOLEAN,
         models' = [models EXCEPT ![i].active = b]
  PROVE  /\ models' \in Seq(Model) /\ Len(models') = cur
         /\ models'[i].active = b /\ models'[i].doc = models[i].doc
         /\ \A j \in 1 .. cur : j # i => models'[j] = models[j]
<1> DEFINE m == [models[i] EXCEPT !.active = b]
<1>1. m \in Model /\ m.active = b /\ m.doc = models[i].doc
  BY ModelsType DEF Model
<1>2. models' = [models EXCEPT ![i] = m]
  OBVIOUS
<1> HIDE DEF m
<1> QED
  BY <1>1, <1>2, ModelsExcept

\* A goroutine that moves on keeps its place in the handler and its reference
\* to the current model well typed.
LEMMA GotoType ==
  ASSUME TypeOK, NEW t \in Threads, NEW p \in Steps, Goto(t, p),
         cur' \in Nat, cur' >= cur
  PROVE  /\ pc' \in [Threads -> Steps] /\ ref' \in [Threads -> 1 .. cur']
         /\ pc'[t] = p
         /\ \A u \in Threads \ {t} : pc'[u] = pc[u]
<1>1. cur \in Nat \ {0} /\ Len(models) \in Nat
  BY DEF TypeOK
<1>2. 1 .. cur \subseteq 1 .. cur' /\ cur' \in 1 .. cur'
  BY <1>1
<1> QED
  BY <1>1, <1>2 DEF TypeOK, Goto

\* The models a call may land on exist.
LEMMA InstsType ==
  ASSUME TypeOK, NEW t \in Threads, NEW i \in Insts(t)
  PROVE  i \in 1 .. cur /\ cur \in Nat
<1>1. ref[t] \in 1 .. cur /\ cur \in Nat
  BY DEF TypeOK
<1> QED
  BY <1>1 DEF Insts

\* An announcement keeps the queues well typed, ...
LEMMA AnnounceType ==
  ASSUME TypeOK, NEW m \in Messages, Announce(m)
  PROVE  inbox' \in [Subs -> Seq(Messages)] /\ silent' \in BOOLEAN /\ blind' \in [Subs -> BOOLEAN]
<1>1. \A q \in Seq(Messages) : Append(q, m) \in Seq(Messages)
  BY AppendProperties
<1> QED
  BY <1>1 DEF TypeOK, Announce

\* ... and so does a refresh, with the key it writes.
LEMMA RefreshType ==
  ASSUME TypeOK, NEW i, NEW d \in Docs \cup {Empty}, Refresh(i, d) \/ WriteError
  PROVE  /\ redis' \in Docs \cup {Empty, NoDoc}
         /\ inbox' \in [Subs -> Seq(Messages)] /\ silent' \in BOOLEAN
         /\ blind' \in [Subs -> BOOLEAN]
<1>1. CASE Announce("UPDATE") /\ redis' = d
  BY <1>1, AnnounceType DEF Messages
<1>2. CASE UNCHANGED <<redis, queue>>
  BY <1>2 DEF TypeOK, queue
<1> QED
  BY <1>1, <1>2 DEF Refresh, WriteError

\* Spec => []TypeOK: every variable keeps its type, and a handler about to set
\* a scenario knows which.
THEOREM TypeCorrect == Spec => []TypeOK
<1>1. Init => TypeOK
  <2> SUFFICES ASSUME Init PROVE TypeOK
    OBVIOUS
  <2>1. models \in Seq(Model) /\ cur = Len(models) /\ cur >= 1
    BY DEF Init, Fresh, Model
  <2>2. inbox \in [Subs -> Seq(Messages)]
    BY EmptySeq DEF Init
  <2>3. /\ pc \in [Threads -> Steps] /\ arg \in [Threads -> Scenarios \cup {Empty}]
        /\ \A t \in Threads : At(t, "act_set") => arg[t] \in Scenarios
    BY DEF Init, Steps, At
  <2>4. cur \in Nat /\ ref \in [Threads -> 1 .. cur]
    BY DEF Init
  <2>5. /\ st \in [Subs -> {"down", "init", "up"}] /\ replica \in [Subs -> Docs \cup {Empty}]
        /\ silent \in BOOLEAN /\ blind \in [Subs -> BOOLEAN]
        /\ redis \in Docs \cup {Empty, NoDoc} /\ store \in Scenarios \cup {Empty}
    BY DEF Init
  <2> QED
    BY <2>1, <2>2, <2>3, <2>4, <2>5 DEF Init, TypeOK, Model
<1>2. TypeOK /\ [Next]_vars => TypeOK'
  <2> SUFFICES ASSUME TypeOK, [Next]_vars PROVE TypeOK'
    OBVIOUS
  <2> USE DEF ctrl, queue, feed, limits
  <2>1. ASSUME NEW t \in Threads, ActivateCheck(t) PROVE TypeOK'
    BY <2>1, GotoType DEF TypeOK, ActivateCheck, Accept, At, Steps
  <2>2. ASSUME NEW t \in Threads, TerminateCheck(t) PROVE TypeOK'
    BY <2>2, GotoType DEF TypeOK, TerminateCheck, Accept, At, Steps
  <2>3. ASSUME NEW t \in Threads, EventCheck(t) PROVE TypeOK'
    BY <2>3, GotoType DEF TypeOK, EventCheck, Accept, At, Steps
  <2>4. ASSUME NEW t \in Threads, ActivateSet(t) PROVE TypeOK'
    <3>1. PICK i \in Insts(t) : /\ models' = [models EXCEPT ![i].doc = Stored(arg[t])]
                                /\ \/ Refresh(i, Stored(arg[t])) /\ Goto(t, "act_activate")
                                   \/ models[i].active /\ WriteError /\ Goto(t, "idle")
      BY <2>4 DEF ActivateSet
    <3>2. Stored(arg[t]) \in Docs
      BY <2>4, ConstantsAssumption DEF ActivateSet, TypeOK, Stored, Docs
    <3>3. models' \in Seq(Model) /\ Len(models') = cur
      BY <3>1, <3>2, InstsType, DocUpdate
    <3>4. pc' \in [Threads -> Steps] /\ ref' \in [Threads -> 1 .. cur'] /\ pc'[t] # "act_set"
          /\ \A u \in Threads \ {t} : pc'[u] = pc[u]
      BY <2>4, <3>1, GotoType DEF ActivateSet, TypeOK, Steps
    <3>5. /\ redis' \in Docs \cup {Empty, NoDoc}
          /\ inbox' \in [Subs -> Seq(Messages)] /\ silent' \in BOOLEAN
          /\ blind' \in [Subs -> BOOLEAN]
      BY <3>1, <3>2, RefreshType
    <3>6. /\ arg' \in [Threads -> Scenarios \cup {Empty}]
          /\ \A u \in Threads : At(u, "act_set")' => arg'[u] \in Scenarios
      BY <2>4, <3>4 DEF TypeOK, ActivateSet, At
    <3>7. store' \in Scenarios \cup {Empty}
      BY <2>4 DEF TypeOK, ActivateSet
    <3>8. cur' = Len(models') /\ cur' >= 1 /\ models' \in Seq([active : BOOLEAN, doc : Docs \cup {Empty}])
      BY <2>4, <3>3 DEF TypeOK, ActivateSet, Model
    <3> QED
      BY <2>4, <3>4, <3>5, <3>6, <3>7, <3>8 DEF TypeOK, ActivateSet
  <2>5. ASSUME NEW t \in Threads, ActivateModel(t) PROVE TypeOK'
    <3>1. CASE WriteError /\ UNCHANGED models /\ Goto(t, "idle")
      BY <2>5, <3>1, GotoType DEF TypeOK, ActivateModel, WriteError, At, Steps
    <3>2. ASSUME NEW i \in Insts(t), redis' = models[i].doc,
                 models' = [models EXCEPT ![i].active = TRUE], Goto(t, "act_global")
          PROVE  TypeOK'
      <4>1. models[i] \in Model /\ models' \in Seq(Model) /\ Len(models') = cur
        BY <3>2, InstsType, ModelsType, FlagUpdate
      <4> QED
        BY <2>5, <3>2, <4>1, GotoType DEF TypeOK, ActivateModel, At, Steps, Model
    <3> QED
      BY <2>5, <3>1, <3>2 DEF ActivateModel
  <2>6. ASSUME NEW t \in Threads, ActivateGlobal(t) PROVE TypeOK'
    BY <2>6, GotoType DEF TypeOK, ActivateGlobal, At, Steps
  <2>7. ASSUME NEW t \in Threads, ActivateLocal(t) PROVE TypeOK'
    BY <2>7, GotoType, AnnounceType DEF TypeOK, ActivateLocal, At, Steps, Messages
  <2>8. ASSUME NEW t \in Threads, TerminateDeactivate(t) PROVE TypeOK'
    <3>1. PICK i \in Insts(t) :
            \/ /\ models' = [models EXCEPT ![i].active = FALSE]
               /\ redis'  = IF models[i].active THEN NoDoc ELSE redis
               /\ Goto(t, "term_local")
            \/ models[i].active /\ WriteError /\ UNCHANGED models /\ Goto(t, "idle")
      BY <2>8 DEF TerminateDeactivate
    <3>2. models' \in Seq(Model) /\ Len(models') = cur
      BY <3>1, InstsType, ModelsType, FlagUpdate
    <3>3. redis' \in Docs \cup {Empty, NoDoc}
      BY <3>1 DEF TypeOK, WriteError
    <3> QED
      BY <2>8, <3>1, <3>2, <3>3, GotoType DEF TypeOK, TerminateDeactivate, At, Steps, Model
  <2>9. ASSUME NEW t \in Threads, TerminateLocal(t) PROVE TypeOK'
    BY <2>9, GotoType, AnnounceType DEF TypeOK, TerminateLocal, At, Steps, Messages
  <2>10. ASSUME NEW t \in Threads, TerminateGlobal(t) PROVE TypeOK'
    BY <2>10, GotoType DEF TypeOK, TerminateGlobal, At, Steps
  <2>11. ASSUME NEW t \in Threads, TerminateNewModel(t) PROVE TypeOK'
    <3>1. models' \in Seq(Model) /\ Len(models') = cur' /\ cur' = cur + 1 /\ cur \in Nat
      BY <2>11, AppendProperties DEF TypeOK, TerminateNewModel, Fresh, Model
    <3> QED
      BY <2>11, <3>1, GotoType DEF TypeOK, TerminateNewModel, At, Steps, Model
  <2>12. ASSUME NEW t \in Threads, TerminateStore(t) PROVE TypeOK'
    BY <2>12, GotoType DEF TypeOK, TerminateStore, At, Steps
  <2>13. ASSUME NEW t \in Threads, EventApply(t) PROVE TypeOK'
    <3>1. CASE UNCHANGED <<models, redis, queue>>
      BY <2>13, <3>1, GotoType DEF TypeOK, EventApply, At, Steps
    <3>2. ASSUME NEW i \in Insts(t), NEW c \in Contents, models[i].doc # Empty,
                 models' = [models EXCEPT ![i].doc.content = c],
                 Refresh(i, [models[i].doc EXCEPT !.content = c]) \/ WriteError
          PROVE  TypeOK'
      <4>1. /\ [models[i].doc EXCEPT !.content = c] \in Docs
            /\ models' \in Seq(Model) /\ Len(models') = cur
        BY <3>2, InstsType, ContentUpdate
      <4>2. /\ redis' \in Docs \cup {Empty, NoDoc}
            /\ inbox' \in [Subs -> Seq(Messages)] /\ silent' \in BOOLEAN
            /\ blind' \in [Subs -> BOOLEAN]
        BY <3>2, <4>1, RefreshType
      <4> QED
        BY <2>13, <4>1, <4>2, GotoType DEF TypeOK, EventApply, At, Steps, Model
    <3> QED
      BY <2>13, <3>1, <3>2 DEF EventApply
  <2>14. ASSUME NEW t \in Threads, PoasWrite(t) PROVE TypeOK'
    <3>1. CASE UNCHANGED models /\ Goto(t, "idle")
      BY <2>14, <3>1, GotoType DEF TypeOK, PoasWrite, At, Steps
    <3>2. ASSUME NEW i \in Insts(t), NEW c \in Contents, models[i].doc # Empty,
                 models' = [models EXCEPT ![i].doc.content = c], Goto(t, "poas_activate")
          PROVE  TypeOK'
      <4>1. /\ [models[i].doc EXCEPT !.content = c] \in Docs
            /\ models' \in Seq(Model) /\ Len(models') = cur
        BY <3>2, InstsType, ContentUpdate
      <4> QED
        BY <2>14, <3>2, <4>1, GotoType DEF TypeOK, PoasWrite, At, Steps, Model
    <3> QED
      BY <2>14, <3>1, <3>2 DEF PoasWrite
  <2>15. ASSUME NEW t \in Threads, PoasActivate(t) PROVE TypeOK'
    <3>1. CASE UNCHANGED <<redis, models, silent>>
      BY <2>15, <3>1, GotoType DEF TypeOK, PoasActivate, At, Steps
    <3>2. ASSUME NEW i \in Insts(t), redis' = models[i].doc,
                 models' = [models EXCEPT ![i].active = TRUE], silent' = TRUE
          PROVE  TypeOK'
      <4>1. models[i] \in Model /\ models' \in Seq(Model) /\ Len(models') = cur
        BY <3>2, InstsType, ModelsType, FlagUpdate
      <4> QED
        BY <2>15, <3>2, <4>1, GotoType DEF TypeOK, PoasActivate, At, Steps, Model
    <3> QED
      BY <2>15, <3>1, <3>2 DEF PoasActivate
  <2>16. ASSUME NEW s \in Subs, SubInit(s) \/ SubRun(s) \/ SubHandle(s) \/ SubStop(s)
         PROVE  TypeOK'
    <3>1. CASE SubInit(s) \/ SubHandle(s)
      <4>1. replica' \in [Subs -> Docs \cup {Empty}] /\ blind' \in [Subs -> BOOLEAN]
        BY <3>1 DEF TypeOK, SubInit, SubHandle, Read, View
      <4>2. inbox' \in [Subs -> Seq(Messages)]
        <5>1. inbox[s] # <<>> => Tail(inbox[s]) \in Seq(Messages)
          BY HeadTailProperties DEF TypeOK
        <5> QED
          BY <3>1, <5>1 DEF TypeOK, SubInit, SubHandle
      <4> QED
        BY <3>1, <4>1, <4>2 DEF TypeOK, SubInit, SubHandle, At
    <3>2. CASE SubRun(s)
      BY <3>2 DEF TypeOK, SubRun, At
    <3>3. CASE SubStop(s)
      <4>1. inbox' \in [Subs -> Seq(Messages)]
        BY <3>3, EmptySeq DEF TypeOK, SubStop
      <4> QED
        BY <3>3, <4>1 DEF TypeOK, SubStop, At
    <3> QED
      BY <2>16, <3>1, <3>2, <3>3
  <2>17. CASE Restart
    <3>1. models' \in Seq(Model) /\ Len(models') = cur' /\ cur' = 1
      BY <2>17 DEF Restart, Fresh, Model
    <3> QED
      BY <2>17, <3>1 DEF TypeOK, Restart, At, Steps, Model
  <2>18. CASE UNCHANGED vars
    BY <2>18 DEF TypeOK, vars, At
  <2> QED
    BY <2>1, <2>2, <2>3, <2>4, <2>5, <2>6, <2>7, <2>8, <2>9, <2>10, <2>11, <2>12,
       <2>13, <2>14, <2>15, <2>16, <2>17, <2>18, NextCases
<1> QED
  BY <1>1, <1>2, PTL DEF Spec

\* Once something has been announced, every service that runs has a message
\* to handle, or it is known that it missed one.
LEMMA AnnounceCovers ==
  ASSUME TypeOK, NEW m \in Messages, Announce(m), UNCHANGED feed
  PROVE  StaleIsExplained'
<1>1. \A q \in Seq(Messages) : Append(q, m) # <<>>
  BY AppendProperties
<1> SUFFICES ASSUME NEW s \in Subs, st[s] # "down"
             PROVE  (st[s] = "up" /\ inbox'[s] # <<>>) \/ silent' \/ blind'[s]
  BY DEF StaleIsExplained, Stale, Notified, feed
<1>2. st[s] \in {"init", "up"} /\ inbox[s] \in Seq(Messages)
  BY DEF TypeOK
<1>3. CASE silent'
  BY <1>3
<1>4. CASE /\ inbox' = [x \in Subs |-> IF st[x] = "up" THEN Append(inbox[x], m) ELSE inbox[x]]
           /\ blind' = [x \in Subs |-> blind[x] \/ st[x] = "init"]
  <2>1. CASE st[s] = "up"
    BY <1>1, <1>2, <1>4, <2>1
  <2>2. CASE st[s] = "init"
    BY <1>4, <2>2
  <2> QED
    BY <1>2, <2>1, <2>2
<1> QED
  BY <1>3, <1>4 DEF Announce

\* A step that touches neither the key nor the services, and after which the
\* goroutines that owe an announcement still owe it, explains what was explained.
LEMMA ExplanationKept ==
  ASSUME StaleIsExplained, UNCHANGED <<redis, feed, queue>>,
         \A t \in Threads : Announcing(t) => Announcing(t)'
  PROVE  StaleIsExplained'
  BY DEF StaleIsExplained, Stale, Notified, feed, queue

\* A goroutine that now owes an announcement explains any stale copy.
LEMMA AnnouncingExplains ==
  ASSUME NEW t \in Threads, Announcing(t)'
  PROVE  StaleIsExplained'
  BY DEF StaleIsExplained, Notified

\* The invariant holds initially and every step keeps it.
LEMMA ExplainedStep ==
  TypeOK /\ StaleIsExplained /\ [Next]_vars => StaleIsExplained'
<1> SUFFICES ASSUME TypeOK, StaleIsExplained, [Next]_vars PROVE StaleIsExplained'
  OBVIOUS
<1> USE DEF feed, queue
<1>0. ASSUME NEW t \in Threads, NEW p \in Steps, Goto(t, p), ~Announcing(t),
             UNCHANGED <<redis, feed, queue>>
      PROVE  StaleIsExplained'
  <2>1. \A u \in Threads \ {t} : Announcing(u) => Announcing(u)'
    BY <1>0 DEF TypeOK, Goto, Announcing
  <2> QED
    BY <1>0, <2>1, ExplanationKept
<1>1. ASSUME NEW t \in Threads, ActivateCheck(t) \/ TerminateCheck(t) \/ EventCheck(t)
      PROVE  StaleIsExplained'
  BY <1>0, <1>1 DEF ActivateCheck, TerminateCheck, EventCheck, Accept, At, Announcing, Steps
<1>2. ASSUME NEW t \in Threads, ActivateSet(t) PROVE StaleIsExplained'
  <2>1. CASE Announce("UPDATE")
    BY <1>2, <2>1, AnnounceCovers DEF ActivateSet, Messages
  <2>2. CASE UNCHANGED <<redis, queue>>
    BY <1>0, <1>2, <2>2 DEF ActivateSet, At, Announcing, Steps
  <2> QED
    BY <1>2, <2>1, <2>2 DEF ActivateSet, Refresh, WriteError
<1>3. ASSUME NEW t \in Threads, ActivateModel(t) PROVE StaleIsExplained'
  <2>1. CASE Goto(t, "act_global")
    <3>1. Announcing(t)'
      BY <2>1 DEF Goto, Announcing, TypeOK
    <3> QED
      BY <3>1, AnnouncingExplains
  <2>2. CASE WriteError /\ Goto(t, "idle")
    BY <1>0, <1>3, <2>2 DEF ActivateModel, WriteError, At, Announcing, Steps
  <2> QED
    BY <1>3, <2>1, <2>2 DEF ActivateModel
<1>4. ASSUME NEW t \in Threads, ActivateGlobal(t) PROVE StaleIsExplained'
  <2>1. Announcing(t)'
    BY <1>4 DEF ActivateGlobal, Goto, Announcing, TypeOK
  <2> QED
    BY <2>1, AnnouncingExplains
<1>5. ASSUME NEW t \in Threads, ActivateLocal(t) \/ TerminateLocal(t) PROVE StaleIsExplained'
  BY <1>5, AnnounceCovers DEF ActivateLocal, TerminateLocal, Messages
<1>6. ASSUME NEW t \in Threads, TerminateDeactivate(t) PROVE StaleIsExplained'
  <2>1. CASE Goto(t, "term_local")
    <3>1. Announcing(t)'
      BY <2>1 DEF Goto, Announcing, TypeOK
    <3> QED
      BY <3>1, AnnouncingExplains
  <2>2. CASE WriteError /\ Goto(t, "idle")
    BY <1>0, <1>6, <2>2 DEF TerminateDeactivate, WriteError, At, Announcing, Steps
  <2> QED
    BY <1>6, <2>1, <2>2 DEF TerminateDeactivate
<1>7. ASSUME NEW t \in Threads,
             TerminateGlobal(t) \/ TerminateNewModel(t) \/ TerminateStore(t) \/ PoasWrite(t)
      PROVE  StaleIsExplained'
  BY <1>0, <1>7 DEF TerminateGlobal, TerminateNewModel, TerminateStore, PoasWrite,
                    At, Announcing, Steps
<1>8. ASSUME NEW t \in Threads, EventApply(t) PROVE StaleIsExplained'
  <2>1. CASE Announce("UPDATE")
    BY <1>8, <2>1, AnnounceCovers DEF EventApply, Messages
  <2>2. CASE UNCHANGED <<redis, queue>>
    BY <1>0, <1>8, <2>2 DEF EventApply, At, Announcing, Steps
  <2> QED
    BY <1>8, <2>1, <2>2 DEF EventApply, Refresh, WriteError
<1>9. ASSUME NEW t \in Threads, PoasActivate(t) PROVE StaleIsExplained'
  <2>1. CASE silent' = TRUE
    BY <2>1 DEF StaleIsExplained
  <2>2. CASE UNCHANGED <<redis, silent>>
    BY <1>0, <1>9, <2>2 DEF PoasActivate, At, Announcing, Steps
  <2> QED
    BY <1>9, <2>1, <2>2 DEF PoasActivate
<1>10. ASSUME NEW s \in Subs, SubInit(s) \/ SubHandle(s) PROVE StaleIsExplained'
  <2> SUFFICES ASSUME NEW x \in Subs, Stale(x)'
               PROVE  Notified(x)' \/ silent' \/ blind'[x]
    BY DEF StaleIsExplained
  <2>1. CASE x = s
    BY <1>10, <2>1 DEF TypeOK, SubInit, SubHandle, Read, Stale
  <2>2. CASE x # s
    <3>1. /\ st'[x] = st[x] /\ replica'[x] = replica[x] /\ inbox'[x] = inbox[x]
          /\ blind'[x] = blind[x] /\ UNCHANGED <<redis, pc, silent>>
      BY <1>10, <2>2 DEF TypeOK, SubInit, SubHandle, Read, ctrl
    <3> QED
      BY <3>1 DEF StaleIsExplained, Stale, Notified, Announcing
  <2> QED
    BY <2>1, <2>2
<1>11. ASSUME NEW s \in Subs, SubRun(s) \/ SubStop(s) PROVE StaleIsExplained'
  <2> SUFFICES ASSUME NEW x \in Subs, Stale(x)'
               PROVE  Notified(x)' \/ silent' \/ blind'[x]
    BY DEF StaleIsExplained
  <2>1. UNCHANGED <<redis, pc, silent, blind>>
    BY <1>11 DEF SubRun, SubStop, ctrl
  <2>2. CASE x = s
    BY <1>11, <2>1, <2>2 DEF TypeOK, SubRun, SubStop, StaleIsExplained, Stale, Notified, Announcing
  <2>3. CASE x # s
    <3>1. st'[x] = st[x] /\ replica'[x] = replica[x] /\ inbox'[x] = inbox[x]
      BY <1>11, <2>3 DEF TypeOK, SubRun, SubStop
    <3> QED
      BY <2>1, <3>1 DEF StaleIsExplained, Stale, Notified, Announcing
  <2> QED
    BY <2>2, <2>3
<1>12. CASE Restart
  BY <1>12 DEF Restart, StaleIsExplained, Stale, Notified, Announcing
<1>13. CASE UNCHANGED vars
  BY <1>13, ExplanationKept DEF vars, ctrl, Announcing
<1> QED
  BY <1>1, <1>2, <1>3, <1>4, <1>5, <1>6, <1>7, <1>8, <1>9, <1>10, <1>11, <1>12, <1>13,
     NextCases

\* Spec => []StaleIsExplained: whatever the interleaving of requests, failures
\* and restarts, an outdated copy has one of the three explanations.
THEOREM StaleCopiesAreExplained == Spec => []StaleIsExplained
<1>1. Init => StaleIsExplained
  BY DEF Init, StaleIsExplained, Stale
<1> QED
  BY <1>1, ExplainedStep, TypeCorrect, PTL DEF Spec
-----------------------------------------------------------------------------
(* One operator: a single client activates, terminates and sends the       *)
(* POAS-IN-RANGE events, one request at a time; Redis answers and the      *)
(* controller stays up.  Any number of goroutines send the other events.   *)

Active(d) == models[cur].active /\ redis \in Docs /\ d \in Docs
             /\ store = redis.name /\ d.name = redis.name
Inactive  == ~models[cur].active /\ redis = NoDoc

\* What the operator o has done so far, by the step it is at; the others are
\* at most about to apply an event.
SerialInv(o) ==
  LET doc == models[cur].doc IN
  /\ SoleActiveModel
  /\ ref[o] = cur
  /\ \A t \in Threads \ {o} : pc[t] \in {"idle", "event"}
  /\ pc[o] = "idle" => IF models[cur].active
                       THEN Active(doc) /\ redis = doc /\ deployed = 1
                       ELSE Inactive /\ deployed = 0 /\ store = Empty
  /\ pc[o] = "act_set" => Inactive /\ deployed = 0 /\ store = Empty
  /\ pc[o] = "act_activate" => /\ Inactive /\ deployed = 0
                               /\ doc \in Docs /\ store = doc.name
  /\ pc[o] = "act_global" => Active(doc) /\ redis = doc /\ deployed = 0
  /\ pc[o] \in {"act_local", "term_deact", "event", "poas"} =>
       Active(doc) /\ redis = doc /\ deployed = 1
  /\ pc[o] = "poas_activate" => Active(doc) /\ deployed = 1
  /\ pc[o] \in {"term_local", "term_global"} => Inactive /\ deployed = 1
  /\ pc[o] \in {"term_new", "term_store"} => Inactive /\ deployed = 0

\* The operator works on the current model only.
LEMMA SerialInsts ==
  ASSUME NEW o \in Threads, TypeOK, SerialInv(o)
  PROVE  Insts(o) = {cur} /\ cur \in 1 .. cur
<1>1. ref[o] = cur /\ cur \in Nat /\ cur >= 1
  BY DEF TypeOK, SerialInv
<1> QED
  BY <1>1 DEF Insts

\* A step of one goroutine leaves the others where they are.
LEMMA GotoOthers ==
  ASSUME TypeOK, NEW t \in Threads, NEW p, Goto(t, p)
  PROVE  /\ pc'[t] = p /\ ref'[t] = cur'
         /\ \A u \in Threads \ {t} : pc'[u] = pc[u] /\ ref'[u] = ref[u]
  BY DEF TypeOK, Goto

\* The steps that change neither the models nor what the clauses relate.
LEMMA SerialFrame ==
  ASSUME NEW o \in Threads, SerialInv(o),
         UNCHANGED <<models, cur, redis, store, deployed, pc, ref>>
  PROVE  SerialInv(o)'
  BY DEF SerialInv, SoleActiveModel, Active, Inactive

\* What becomes of the models when the flag, or the content of the document,
\* of the current one changes.
SetFlag(b) ==
  /\ Len(models') = cur
  /\ models'[cur].active = b /\ models'[cur].doc = models[cur].doc
  /\ \A j \in 1 .. cur : j # cur => models'[j] = models[j]

NewContent(c) ==
  LET d == [models[cur].doc EXCEPT !.content = c] IN
  /\ d \in Docs /\ d.name = models[cur].doc.name
  /\ Len(models') = cur
  /\ models'[cur].active = models[cur].active /\ models'[cur].doc = d
  /\ \A j \in 1 .. cur : j # cur => models'[j] = models[j]

LEMMA FlagSet ==
  ASSUME TypeOK, NEW b \in BOOLEAN, models' = [models EXCEPT ![cur].active = b]
  PROVE  SetFlag(b)
  BY ModelsType, FlagUpdate DEF SetFlag

LEMMA ContentSet ==
  ASSUME TypeOK, NEW c \in Contents, models[cur].doc # Empty,
         models' = [models EXCEPT ![cur].doc.content = c]
  PROVE  NewContent(c)
  BY ModelsType, ContentUpdate DEF NewContent

\* The requests of the operator keep the invariant.
LEMMA SerialOperator ==
  ASSUME NEW o \in Threads, TypeOK, SerialInv(o), ~RedisMayFail,
         \/ ActivateCheck(o) \/ TerminateCheck(o) \/ EventCheck(o) \/ ActivateSet(o)
         \/ ActivateModel(o) \/ ActivateGlobal(o) \/ ActivateLocal(o)
         \/ TerminateDeactivate(o) \/ TerminateLocal(o) \/ TerminateGlobal(o)
         \/ TerminateNewModel(o) \/ TerminateStore(o) \/ EventApply(o)
         \/ PoasWrite(o) \/ PoasActivate(o)
  PROVE  SerialInv(o)'
<1>0. /\ Insts(o) = {cur} /\ cur \in 1 .. cur /\ cur \in Nat /\ ~WriteError
      /\ models[cur] \in Model /\ \A i \in 1 .. cur : models[i] \in Model
  BY SerialInsts, ModelsType DEF WriteError
<1>1. CASE ActivateCheck(o) \/ TerminateCheck(o) \/ EventCheck(o)
  <2>1. /\ pc[o] = "idle" /\ UNCHANGED <<models, cur, redis, store, deployed>>
        /\ \/ ~models[cur].active /\ Goto(o, "act_set")
           \/ models[cur].active /\ (Goto(o, "term_deact") \/ Goto(o, "event") \/ Goto(o, "poas"))
    BY <1>1 DEF ActivateCheck, TerminateCheck, EventCheck, Accept, At
  <2> QED
    BY <2>1, GotoOthers DEF SerialInv, SoleActiveModel, Active, Inactive
<1>2. CASE ActivateSet(o)
  <2> DEFINE d == Stored(arg[o])
  <2>1. /\ pc[o] = "act_set" /\ store' = arg[o] /\ UNCHANGED <<cur, deployed>>
        /\ models' = [models EXCEPT ![cur].doc = d]
        /\ Refresh(cur, d) /\ Goto(o, "act_activate")
    BY <1>0, <1>2 DEF ActivateSet, At
  <2>2. d \in Docs /\ d.name = arg[o]
    BY <2>1, ConstantsAssumption DEF TypeOK, Stored, Docs, At
  <2>3. /\ Len(models') = cur
        /\ models'[cur].doc = d /\ models'[cur].active = models[cur].active
        /\ \A j \in 1 .. cur : j # cur => models'[j] = models[j]
    BY <1>0, <2>1, <2>2, DocUpdate
  <2>4. ~models[cur].active /\ redis' = redis
    BY <2>1 DEF SerialInv, Inactive, Refresh
  <2> HIDE DEF d
  <2> QED
    BY <1>0, <2>1, <2>2, <2>3, <2>4, GotoOthers, ModelsType
       DEF SerialInv, SoleActiveModel, Active, Inactive
<1>3. CASE ActivateModel(o)
  <2>1. /\ pc[o] = "act_activate" /\ UNCHANGED <<cur, store, deployed>>
        /\ redis' = models[cur].doc /\ models' = [models EXCEPT ![cur].active = TRUE]
        /\ Goto(o, "act_global")
    BY <1>0, <1>3 DEF ActivateModel, At
  <2>2. SetFlag(TRUE)
    BY <1>0, <2>1, FlagSet
  <2> QED
    BY <1>0, <2>1, <2>2, GotoOthers DEF SerialInv, SoleActiveModel, Active, Inactive, SetFlag, TypeOK
<1>4. CASE ActivateGlobal(o) \/ TerminateGlobal(o)
  <2>1. /\ UNCHANGED <<models, cur, redis, store>>
        /\ \/ pc[o] = "act_global" /\ deployed' = deployed + 1 /\ Goto(o, "act_local")
           \/ pc[o] = "term_global" /\ deployed' = 0 /\ Goto(o, "term_new")
    BY <1>4 DEF ActivateGlobal, TerminateGlobal, At
  <2> QED
    BY <2>1, GotoOthers DEF SerialInv, SoleActiveModel, Active, Inactive
<1>5. CASE ActivateLocal(o) \/ TerminateLocal(o)
  <2>1. /\ UNCHANGED <<models, cur, redis, store, deployed>>
        /\ \/ pc[o] = "act_local" /\ Goto(o, "idle")
           \/ pc[o] = "term_local" /\ Goto(o, "term_global")
    BY <1>5 DEF ActivateLocal, TerminateLocal, At
  <2> QED
    BY <2>1, GotoOthers DEF SerialInv, SoleActiveModel, Active, Inactive
<1>6. CASE TerminateDeactivate(o)
  <2>1. /\ pc[o] = "term_deact" /\ UNCHANGED <<cur, store, deployed>>
        /\ redis' = IF models[cur].active THEN NoDoc ELSE redis
        /\ models' = [models EXCEPT ![cur].active = FALSE]
        /\ Goto(o, "term_local")
    BY <1>0, <1>6 DEF TerminateDeactivate, At
  <2>2. SetFlag(FALSE)
    BY <1>0, <2>1, FlagSet
  <2> QED
    BY <1>0, <2>1, <2>2, GotoOthers DEF SerialInv, SoleActiveModel, Active, Inactive, SetFlag, TypeOK
<1>7. CASE TerminateNewModel(o)
  <2>1. /\ pc[o] = "term_new" /\ UNCHANGED <<redis, store, deployed>>
        /\ models' = Append(models, Fresh) /\ cur' = cur + 1 /\ Goto(o, "term_store")
        /\ Len(models) = cur /\ models \in Seq(Model) /\ Fresh \in Model
    BY <1>7 DEF TerminateNewModel, At, TypeOK, Fresh, Model
  <2>2. /\ Len(models') = cur + 1 /\ models'[cur + 1] = Fresh
        /\ \A j \in 1 .. cur : models'[j] = models[j]
    BY <2>1, AppendProperties
  <2>3. \A j \in 1 .. Len(models') : models'[j].active => j = cur'
    BY <1>0, <2>1, <2>2 DEF SerialInv, SoleActiveModel, Inactive, Fresh
  <2> QED
    BY <1>0, <2>1, <2>2, <2>3, GotoOthers DEF SerialInv, SoleActiveModel, Active, Inactive, Fresh
<1>8. CASE TerminateStore(o)
  <2>1. /\ pc[o] = "term_store" /\ store' = Empty /\ Goto(o, "idle")
        /\ UNCHANGED <<models, cur, redis, deployed>>
    BY <1>8 DEF TerminateStore, At
  <2> QED
    BY <2>1, GotoOthers DEF SerialInv, SoleActiveModel, Active, Inactive
<1>9. CASE EventApply(o)
  <2>1. pc[o] = "event" /\ Goto(o, "idle") /\ UNCHANGED <<cur, store, deployed>>
    BY <1>9 DEF EventApply, At
  <2>2. CASE UNCHANGED <<models, redis, queue>>
    BY <2>1, <2>2, GotoOthers DEF SerialInv, SoleActiveModel, Active, Inactive
  <2>3. ASSUME NEW c \in Contents, models[cur].doc # Empty,
               models' = [models EXCEPT ![cur].doc.content = c],
               Refresh(cur, [models[cur].doc EXCEPT !.content = c])
        PROVE  SerialInv(o)'
    <3>1. NewContent(c)
      BY <1>0, <2>3, ContentSet
    <3>2. redis' = IF models[cur].active THEN models'[cur].doc ELSE redis
      BY <2>3, <3>1 DEF NewContent, Refresh
    <3>3. /\ models'[cur].doc \in Docs /\ models'[cur].doc.name = models[cur].doc.name
          /\ models'[cur].active = models[cur].active /\ Len(models') = cur
          /\ \A j \in 1 .. cur : j # cur => models'[j] = models[j]
      BY <3>1 DEF NewContent
    <3> QED
      BY <1>0, <2>1, <3>2, <3>3, GotoOthers, ModelsType
         DEF SerialInv, SoleActiveModel, Active, Inactive
  <2> QED
    BY <1>0, <1>9, <2>2, <2>3 DEF EventApply
<1>10. CASE PoasWrite(o)
  <2>1. pc[o] = "poas" /\ UNCHANGED <<cur, redis, store, deployed>>
    BY <1>10 DEF PoasWrite, At
  <2>2. CASE UNCHANGED models /\ Goto(o, "idle")
    BY <2>1, <2>2, GotoOthers DEF SerialInv, SoleActiveModel, Active, Inactive
  <2>3. ASSUME NEW c \in Contents, models[cur].doc # Empty,
               models' = [models EXCEPT ![cur].doc.content = c], Goto(o, "poas_activate")
        PROVE  SerialInv(o)'
    <3>1. NewContent(c)
      BY <1>0, <2>3, ContentSet
    <3> QED
      BY <1>0, <2>1, <2>3, <3>1, GotoOthers
         DEF SerialInv, SoleActiveModel, Active, Inactive, NewContent, TypeOK
  <2> QED
    BY <1>0, <1>10, <2>2, <2>3 DEF PoasWrite
<1>11. CASE PoasActivate(o)
  <2>1. /\ pc[o] = "poas_activate" /\ UNCHANGED <<cur, store, deployed>> /\ Goto(o, "idle")
        /\ redis' = models[cur].doc /\ models' = [models EXCEPT ![cur].active = TRUE]
    BY <1>0, <1>11 DEF PoasActivate, At
  <2>2. SetFlag(TRUE)
    BY <1>0, <2>1, FlagSet
  <2> QED
    BY <1>0, <2>1, <2>2, GotoOthers DEF SerialInv, SoleActiveModel, Active, Inactive, SetFlag, TypeOK
<1> QED
  BY <1>1, <1>2, <1>3, <1>4, <1>5, <1>6, <1>7, <1>8, <1>9, <1>10, <1>11

\* An event sent by anybody else keeps it too: it changes the current model,
\* or one that was terminated and no longer writes the key.
LEMMA SerialOthers ==
  ASSUME NEW o \in Threads, NEW t \in Threads \ {o}, TypeOK, SerialInv(o), ~RedisMayFail,
         Operators = {o}, PoasSenders \subseteq {o},
         Enter(t) \/ Continue(t)
  PROVE  SerialInv(o)'
<1>1. CASE Enter(t)
  <2>1. UNCHANGED <<models, cur, redis, store, deployed>> /\ Goto(t, "event")
    BY <1>1 DEF Enter, ActivateCheck, TerminateCheck, EventCheck
  <2> QED
    BY <2>1, GotoOthers DEF SerialInv, SoleActiveModel, Active, Inactive
<1>2. CASE Continue(t)
  <2>1. EventApply(t)
    BY <1>2 DEF SerialInv, Continue, At, ActivateSet, ActivateModel, ActivateGlobal,
       ActivateLocal, TerminateDeactivate, TerminateLocal, TerminateGlobal,
       TerminateNewModel, TerminateStore, PoasWrite, PoasActivate
  <2>2. Goto(t, "idle") /\ UNCHANGED <<cur, store, deployed>>
    BY <2>1 DEF EventApply
  <2>3. CASE UNCHANGED <<models, redis, queue>>
    BY <2>2, <2>3, GotoOthers DEF SerialInv, SoleActiveModel, Active, Inactive
  <2>4. ASSUME NEW i \in Insts(t), NEW c \in Contents, models[i].doc # Empty,
               models' = [models EXCEPT ![i].doc.content = c],
               Refresh(i, [models[i].doc EXCEPT !.content = c])
        PROVE  SerialInv(o)'
    <3>1. /\ i \in 1 .. cur /\ cur \in 1 .. cur /\ Len(models) = cur
          /\ models[cur] \in Model /\ models[i] \in Model
      BY InstsType, ModelsType
    <3>2. CASE i = cur
      <4>1. NewContent(c)
        BY <2>4, <3>1, <3>2, ContentSet
      <4>2. redis' = IF models[cur].active THEN models'[cur].doc ELSE redis
        BY <2>4, <3>2, <4>1 DEF NewContent, Refresh
      <4>3. /\ models'[cur].doc \in Docs /\ models'[cur].doc.name = models[cur].doc.name
            /\ models'[cur].active = models[cur].active /\ Len(models') = cur
            /\ \A j \in 1 .. cur : j # cur => models'[j] = models[j]
        BY <4>1 DEF NewContent
      <4> QED
        BY <2>2, <3>1, <4>2, <4>3, GotoOthers
           DEF SerialInv, SoleActiveModel, Active, Inactive
    <3>3. CASE i # cur
      <4>1. ~models[i].active /\ UNCHANGED redis
        BY <2>4, <3>1, <3>3 DEF SerialInv, SoleActiveModel, Refresh
      <4>2. /\ Len(models') = cur /\ models'[cur] = models[cur]
            /\ \A j \in 1 .. cur : models'[j].active = models[j].active
        BY <2>4, <3>1, <3>3, ContentUpdate
      <4> QED
        BY <2>2, <3>1, <4>1, <4>2, GotoOthers DEF SerialInv, SoleActiveModel, Active, Inactive
    <3> QED
      BY <3>2, <3>3
  <2> QED
    BY <2>1, <2>3, <2>4 DEF EventApply, WriteError
<1> QED
  BY <1>1, <1>2

\* With one operator, the API, the active key, the metric store and the
\* activations announced agree whenever the operator waits, for any number of
\* concurrent events and any number of requests.
THEOREM OneOperatorAgrees ==
  ASSUME NEW o \in Threads, Operators = {o}, PoasSenders \subseteq {o},
         ~RedisMayFail, MaxRestarts = 0
  PROVE  Spec => [](ApiAgreesWithStore /\ SoleActiveModel /\ NoDoubleDeploy)
<1>1. Init => SerialInv(o) /\ restarts = 0
  BY DEF Init, SerialInv, SoleActiveModel, Inactive, Fresh
<1>2. TypeOK /\ SerialInv(o) /\ restarts = 0 /\ [Next]_vars => (SerialInv(o) /\ restarts = 0)'
  <2> SUFFICES ASSUME TypeOK, SerialInv(o), restarts = 0, [Next]_vars
               PROVE  SerialInv(o)' /\ restarts' = 0
    OBVIOUS
  <2>1. CASE Enter(o) \/ Continue(o)
    <3>1. SerialInv(o)'
      BY <2>1, SerialOperator DEF Enter, Continue
    <3>2. UNCHANGED restarts
      BY <2>1 DEF Enter, Continue, ActivateCheck, TerminateCheck, EventCheck, ActivateSet,
         ActivateModel, ActivateGlobal, ActivateLocal, TerminateDeactivate, TerminateLocal,
         TerminateGlobal, TerminateNewModel, TerminateStore, EventApply, PoasWrite,
         PoasActivate, limits
    <3> QED
      BY <3>1, <3>2
  <2>2. ASSUME NEW t \in Threads \ {o}, Enter(t) \/ Continue(t)
        PROVE  SerialInv(o)' /\ restarts' = 0
    <3>1. SerialInv(o)'
      BY <2>2, SerialOthers
    <3>2. UNCHANGED restarts
      BY <2>2 DEF Enter, Continue, ActivateCheck, TerminateCheck, EventCheck, ActivateSet,
         ActivateModel, ActivateGlobal, ActivateLocal, TerminateDeactivate, TerminateLocal,
         TerminateGlobal, TerminateNewModel, TerminateStore, EventApply, PoasWrite,
         PoasActivate, limits
    <3> QED
      BY <3>1, <3>2
  <2>3. ASSUME NEW s \in Subs, SubInit(s) \/ SubRun(s) \/ SubHandle(s) \/ SubStop(s)
        PROVE  SerialInv(o)' /\ restarts' = 0
    BY <2>3, SerialFrame DEF SubInit, SubRun, SubHandle, SubStop, ctrl, limits
  <2>4. CASE UNCHANGED vars
    BY <2>4, SerialFrame DEF vars, ctrl, limits
  <2>5. ~Restart
    BY DEF Restart
  <2> QED
    BY <2>1, <2>2, <2>3, <2>4, <2>5 DEF Next, Rest
<1>3. TypeOK /\ SerialInv(o) => ApiAgreesWithStore /\ SoleActiveModel /\ NoDoubleDeploy
  <2> SUFFICES ASSUME TypeOK, SerialInv(o)
               PROVE  ApiAgreesWithStore /\ SoleActiveModel /\ NoDoubleDeploy
    OBVIOUS
  <2>1. pc[o] \in Steps
    BY DEF TypeOK
  <2>2. SoleActiveModel /\ ApiAgreesWithStore
    BY DEF SerialInv, ApiAgreesWithStore, OperatorsIdle, At, Active, Inactive
  <2>3. deployed \in {0, 1}
    BY <2>1 DEF SerialInv, Steps
  <2> QED
    BY <2>2, <2>3 DEF NoDoubleDeploy
<1> QED
  BY <1>1, <1>2, <1>3, TypeCorrect, PTL DEF Spec
=============================================================================

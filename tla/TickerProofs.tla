---------------------------- MODULE TickerProofs ----------------------------
(***************************************************************************)
(* Proofs about the three packages that a ticker drives.  They share no    *)
(* state: each part speaks of one specification, Spec of the replay        *)
(* manager, WdSpec of the watchdog and SaSpec of the segment algorithm.    *)
(*                                                                         *)
(* The watchdog holds nobody for alive who has not answered for longer     *)
(* than the timeout and one wait: for every rate, wait, timeout and delay, *)
(* with losses and restarts of the peer.                                   *)
(*                                                                         *)
(* The replay manager: as long as no request comes while an event is being *)
(* sent or another request is being made, one chain plays, in order, and   *)
(* the status tells where it is, for any files, any number of requests and *)
(* however they are timed otherwise.                                       *)
(*                                                                         *)
(* The segment algorithm: between rounds the latency of every flow is the  *)
(* sum of the latencies on its way through the tree, for any trees and any *)
(* latencies.                                                              *)
(***************************************************************************)
EXTENDS Watchdog, ReplayMgr, SegmentAlgo, FiniteSetTheorems, SequenceTheorems, TLAPS
-----------------------------------------------------------------------------
(* The watchdog.                                                           *)

Message(n) == [n : 1 .. n, old : 0 .. MaxDelay]

\* One more ping does not change what the messages under way may be.
LEMMA MoreMessages == ASSUME NEW n \in Nat, NEW ms \in Seq(Message(n))
                      PROVE  ms \in Seq(Message(n + 1))
  <1>1. Message(n) \subseteq Message(n + 1) BY DEF Message
  <1> QED BY <1>1

\* A unit later the messages are the same and a unit older.
LEMMA OlderMessages ==
  ASSUME NEW n \in Nat, NEW ms \in Seq(Message(n)), Young(ms)
  PROVE  /\ Older(ms) \in Seq(Message(n)) /\ DOMAIN Older(ms) = DOMAIN ms
         /\ \A i \in DOMAIN ms : Older(ms)[i].n = ms[i].n
  <1>1. \A i \in DOMAIN ms : ms[i] \in Message(n)
    OBVIOUS
  <1>2. ASSUME NEW i \in DOMAIN ms
        PROVE  [ms[i] EXCEPT !.old = @ + 1] \in Message(n)
    <2>1. ms[i].old \in 0 .. MaxDelay /\ ms[i].old < MaxDelay
      BY <1>1 DEF Young, Message
    <2>2. ms[i].old + 1 \in 0 .. MaxDelay
      BY <2>1, WdAssumption DEF WdAssumption
    <2> QED BY <1>1, <2>2 DEF Message
  <1>3. Older(ms) \in Seq(Message(n)) /\ DOMAIN Older(ms) = DOMAIN ms
    BY <1>2 DEF Older
  <1>4. \A i \in DOMAIN ms : Older(ms)[i].n = ms[i].n
    BY <1>1 DEF Older, Message
  <1> QED BY <1>3, <1>4

\* Where the counters start.
LEMMA WdInitInductive == WdInit => Inductive
  <1> SUFFICES ASSUME WdInit PROVE Inductive
    OBVIOUS
  <1> USE WdAssumption DEF WdAssumption
  <1>1. toTick \in 1 .. Rate /\ task \in [at : {"idle", "sent", "wait"}, n : Nat, waited : 0 .. Wait + 1]
    BY DEF WdInit
  <1>2. pongMsg \in 0 .. task.n
    BY DEF WdInit
  <1>3. age \in Nat /\ quiet \in Nat /\ ticked \in BOOLEAN /\ peer \in BOOLEAN
    BY DEF WdInit
  <1>4. pings \in Seq(Message(task.n)) /\ pongs \in Seq(Message(task.n))
    BY EmptySeq DEF WdInit
  <1>5. task.at = "idle" /\ quiet <= age + Wait + 1
    BY DEF WdInit
  <1> QED BY <1>1, <1>2, <1>3, <1>4, <1>5 DEF Inductive, WdTypeOK, Message

\* A unit passes: the age, the silence and the wait grow together.
LEMMA ClockStep == Inductive /\ Clock => Inductive'
  <1> SUFFICES ASSUME Inductive, Clock PROVE Inductive'
    OBVIOUS
  <1> USE WdAssumption DEF WdAssumption
  <1>1. /\ pings' \in Seq(Message(task.n)) /\ pongs' \in Seq(Message(task.n))
        /\ DOMAIN pongs' = DOMAIN pongs /\ \A i \in DOMAIN pongs : pongs'[i].n = pongs[i].n
    BY OlderMessages DEF Clock, Inductive, WdTypeOK, Message
  <1>2. /\ task' \in [at : {"idle", "sent", "wait"}, n : Nat, waited : 0 .. Wait + 1]
        /\ task'.n = task.n /\ task'.at = task.at
        /\ task.at = "wait" => task'.waited = task.waited + 1
    <2> DEFINE Task == [at : {"idle", "sent", "wait"}, n : Nat, waited : 0 .. Wait + 1]
    <2>1. task \in Task /\ (task.at = "wait" => task.waited <= Wait)
      BY DEF Clock, Inductive, WdTypeOK
    <2>2. CASE task.at = "wait"
      <3>1. task' = [task EXCEPT !.waited = task.waited + 1]
        BY <2>2 DEF Clock
      <3>2. task.waited + 1 \in 0 .. Wait + 1
        BY <2>1, <2>2
      <3> QED BY <2>1, <3>1, <3>2
    <2>3. CASE task.at # "wait"
      <3>1. task' = [task EXCEPT !.waited = task.waited]
        BY <2>3 DEF Clock
      <3> QED BY <2>1, <2>3, <3>1
    <2> QED BY <2>2, <2>3
  <1>3. /\ age' \in Nat /\ quiet' \in Nat /\ quiet' <= quiet + 1
        /\ age' <= Timeout => age' = age + 1
    <2>1. age \in Nat /\ quiet \in Nat
      BY DEF Inductive, WdTypeOK
    <2>2. age' = Later(age, Timeout) /\ quiet' = Later(quiet, Timeout + Wait + 1)
      BY DEF Clock
    <2> QED BY <2>1, <2>2 DEF Later
  <1>4. WdTypeOK'
    <2>1. toTick' \in 1 .. Rate /\ ticked' \in BOOLEAN
      <3>1. toTick \in 1 .. Rate /\ toTick' = IF toTick = 1 THEN Rate ELSE toTick - 1
        BY DEF Clock, Inductive, WdTypeOK
      <3>2. ticked' = (ticked \/ toTick = 1)
        BY DEF Clock
      <3> QED BY <3>1, <3>2
    <2>2. pongMsg' \in 0 .. task'.n /\ peer' \in BOOLEAN
      BY <1>2 DEF Clock, Inductive, WdTypeOK
    <2> QED BY <1>1, <1>2, <1>3, <2>1, <2>2 DEF WdTypeOK, Message
  <1>5. task'.at = "idle" \/ (task'.n > 0 /\ (Fresh' => quiet' <= task'.waited))
    <2>1. Fresh' => Fresh
      BY <1>1, <1>2 DEF Clock, Fresh
    <2>2. task.at \in {"idle", "wait"} /\ task.n \in Nat /\ task.waited \in Nat /\ quiet \in Nat
      BY DEF Clock, Inductive, WdTypeOK
    <2>3. task.at = "idle" \/ (task.n > 0 /\ (Fresh => quiet <= task.waited))
      BY DEF Inductive
    <2> QED BY <1>2, <1>3, <2>1, <2>2, <2>3
  <1>6. age' <= Timeout => quiet' <= age' + Wait + 1
    <2>1. age <= Timeout => quiet <= age + Wait + 1
      BY DEF Inductive, IsAlive
    <2>2. age \in Nat /\ quiet \in Nat
      BY DEF Inductive, WdTypeOK
    <2> QED BY <1>3, <2>1, <2>2
  <1> QED BY <1>4, <1>5, <1>6 DEF Inductive, IsAlive

\* A ping is new: nothing answers it yet.
LEMMA SendStep == Inductive /\ Send => Inductive'
  <1> SUFFICES ASSUME Inductive, Send PROVE Inductive'
    OBVIOUS
  <1> USE WdAssumption DEF WdAssumption
  <1>1. /\ task.n \in Nat /\ task'.n = task.n + 1 /\ task'.at = "sent" /\ task'.waited = 0
        /\ task' \in [at : {"idle", "sent", "wait"}, n : Nat, waited : 0 .. Wait + 1]
    BY DEF Send, Inductive, WdTypeOK
  <1>2. /\ pings \in Seq(Message(task.n)) /\ pongs \in Seq(Message(task.n))
        /\ \A i \in DOMAIN pongs : pongs[i] \in Message(task.n)
    <2>1. pings \in Seq(Message(task.n)) /\ pongs \in Seq(Message(task.n))
      BY DEF Inductive, WdTypeOK, Message
    <2> QED BY <2>1
  <1>3. pings \in Seq(Message(task.n + 1)) /\ pongs \in Seq(Message(task.n + 1))
    BY <1>1, <1>2, MoreMessages
  <1>4. [n |-> task.n + 1, old |-> 0] \in Message(task.n + 1)
    BY <1>1 DEF Message
  <1>5. pings' \in Seq(Message(task.n + 1))
    BY <1>3, <1>4 DEF Send
  <1>6. WdTypeOK'
    <2>1. /\ age' \in Nat /\ quiet' \in Nat /\ toTick' \in 1 .. Rate
          /\ ticked' \in BOOLEAN /\ peer' \in BOOLEAN
      BY DEF Send, Inductive, WdTypeOK
    <2>2. pongMsg' \in 0 .. task'.n
      BY <1>1 DEF Send, Inductive, WdTypeOK
    <2> QED BY <1>1, <1>3, <1>5, <2>1, <2>2 DEF Send, WdTypeOK, Message
  <1>7. ~Fresh'
    BY <1>1, <1>2 DEF Send, Inductive, WdTypeOK, Fresh, Message
  <1> QED BY <1>1, <1>6, <1>7 DEF Send, Inductive, IsAlive

\* The last answer is forgotten; what is under way stays.
LEMMA ForgetStep == Inductive /\ Forget => Inductive'
  <1> SUFFICES ASSUME Inductive, Forget PROVE Inductive'
    OBVIOUS
  <1>1. /\ task'.n = task.n /\ task'.waited = task.waited /\ task'.at = "wait"
        /\ task' \in [at : {"idle", "sent", "wait"}, n : Nat, waited : 0 .. Wait + 1]
    BY DEF Forget, Inductive, WdTypeOK
  <1>2. WdTypeOK'
    BY <1>1 DEF Forget, Inductive, WdTypeOK, net
  <1>3. task.n > 0 => (Fresh' => Fresh)
    BY <1>1 DEF Forget, Inductive, WdTypeOK, Fresh, net
  <1> QED BY <1>1, <1>2, <1>3 DEF Forget, Inductive, IsAlive, net

\* An answer to this ping came after it was sent, so the silence is short.
LEMMA AnsweredStep == Inductive /\ Answered => Inductive'
  <1> SUFFICES ASSUME Inductive, Answered PROVE Inductive'
    OBVIOUS
  <1> USE WdAssumption DEF WdAssumption
  <1>1. /\ task \in [at : {"idle", "sent", "wait"}, n : Nat, waited : 0 .. Wait + 1]
        /\ age \in Nat /\ quiet \in Nat
    BY DEF Inductive, WdTypeOK
  <1>2. /\ task'.n = task.n /\ task'.at = "idle"
        /\ task' \in [at : {"idle", "sent", "wait"}, n : Nat, waited : 0 .. Wait + 1]
    <2>1. 0 \in 0 .. Wait + 1
      OBVIOUS
    <2>2. task' = [task EXCEPT !.at = "idle", !.waited = 0]
      BY DEF Answered
    <2> QED BY <1>1, <2>1, <2>2
  <1>3. age' \in Nat
    BY <1>1 DEF Answered
  <1>4. WdTypeOK'
    BY <1>2, <1>3 DEF Answered, Inductive, WdTypeOK, net
  <1>5. IsAlive' => quiet' <= age' + Wait + 1
    <2>1. CASE pongMsg = task.n
      <3>1. quiet <= task.waited
        BY <2>1 DEF Answered, Inductive, Fresh
      <3> QED BY <1>1, <2>1, <3>1 DEF Answered, net
    <2>2. CASE pongMsg # task.n
      BY <2>2 DEF Answered, Inductive, IsAlive, net
    <2> QED BY <2>1, <2>2
  <1> QED BY <1>2, <1>4, <1>5 DEF Inductive

\* Nothing changes but the task.
LEMMA GiveUpStep == Inductive /\ GiveUp => Inductive'
  <1> SUFFICES ASSUME Inductive, GiveUp PROVE Inductive'
    OBVIOUS
  <1>1. /\ task'.n = task.n /\ task'.at = "idle"
        /\ task' \in [at : {"idle", "sent", "wait"}, n : Nat, waited : 0 .. Wait + 1]
    <2>1. 0 \in 0 .. Wait + 1
      BY WdAssumption DEF WdAssumption
    <2>2. task' = [task EXCEPT !.at = "idle", !.waited = 0]
      BY DEF GiveUp
    <2>3. task \in [at : {"idle", "sent", "wait"}, n : Nat, waited : 0 .. Wait + 1]
      BY DEF Inductive, WdTypeOK
    <2> QED BY <2>1, <2>2, <2>3
  <1>2. WdTypeOK'
    BY <1>1 DEF GiveUp, Inductive, WdTypeOK, net
  <1> QED BY <1>1, <1>2 DEF GiveUp, Inductive, IsAlive, net

\* The peer answers: there is no silence.
LEMMA PeerAnswersStep == Inductive /\ PeerAnswers => Inductive'
  <1> SUFFICES ASSUME Inductive, PeerAnswers PROVE Inductive'
    OBVIOUS
  <1> USE WdAssumption DEF WdAssumption
  <1>1. pings \in Seq(Message(task.n)) /\ pongs \in Seq(Message(task.n))
    BY DEF Inductive, WdTypeOK, Message
  <1>2. Head(pings) \in Message(task.n) /\ pings' \in Seq(Message(task.n))
    BY <1>1 DEF PeerAnswers
  <1>3. [n |-> Head(pings).n, old |-> 0] \in Message(task.n)
    BY <1>2 DEF Message
  <1>4. pongs' \in Seq(Message(task.n))
    BY <1>1, <1>3 DEF PeerAnswers
  <1>5. WdTypeOK'
    BY <1>2, <1>4 DEF PeerAnswers, Inductive, WdTypeOK, Message
  <1>6. quiet' = 0 /\ task.waited \in Nat /\ age \in Nat
    BY DEF PeerAnswers, Inductive, WdTypeOK
  <1> QED BY <1>5, <1>6 DEF PeerAnswers, Inductive

\* An answer moves from the queue to pongMsg.
LEMMA HandlePongStep == Inductive /\ HandlePong => Inductive'
  <1> SUFFICES ASSUME Inductive, HandlePong PROVE Inductive'
    OBVIOUS
  <1>1. pongs \in Seq(Message(task.n)) /\ task.n \in Nat
    BY DEF Inductive, WdTypeOK, Message
  <1>2. /\ Head(pongs) \in Message(task.n) /\ pongs' \in Seq(Message(task.n))
        /\ Head(pongs) = pongs[1] /\ 1 \in DOMAIN pongs
        /\ \A i \in DOMAIN pongs' : i + 1 \in DOMAIN pongs /\ pongs'[i] = pongs[i + 1]
    BY <1>1 DEF HandlePong
  <1>3. pongMsg' \in 0 .. task.n
    BY <1>1, <1>2 DEF HandlePong, Message
  <1>4. WdTypeOK'
    BY <1>2, <1>3 DEF HandlePong, Inductive, WdTypeOK, Message
  <1>5. Fresh' => Fresh
    BY <1>2 DEF HandlePong, Fresh
  <1> QED BY <1>4, <1>5 DEF HandlePong, Inductive, IsAlive

\* What is lost answers nothing.
LEMMA LoseStep == Inductive /\ LoseMessage => Inductive'
  <1> SUFFICES ASSUME Inductive, LoseMessage PROVE Inductive'
    OBVIOUS
  <1>1. pings \in Seq(Message(task.n)) /\ pongs \in Seq(Message(task.n))
    BY DEF Inductive, WdTypeOK, Message
  <1>2. pings' \in Seq(Message(task.n)) /\ pongs' \in Seq(Message(task.n))
    <2>1. CASE pings # <<>> /\ pings' = Tail(pings) /\ UNCHANGED pongs
      BY <1>1, <2>1
    <2>2. CASE pongs # <<>> /\ pongs' = Tail(pongs) /\ UNCHANGED pings
      BY <1>1, <2>2
    <2> QED BY <2>1, <2>2 DEF LoseMessage
  <1>3. \A i \in DOMAIN pongs' : \E j \in DOMAIN pongs : pongs'[i] = pongs[j]
    <2>1. CASE pongs' = pongs
      BY <2>1
    <2>2. CASE pongs # <<>> /\ pongs' = Tail(pongs)
      <3>1. \A i \in DOMAIN pongs' : i + 1 \in DOMAIN pongs /\ pongs'[i] = pongs[i + 1]
        BY <1>1, <2>2
      <3> QED BY <3>1
    <2> QED BY <2>1, <2>2 DEF LoseMessage
  <1>4. WdTypeOK'
    BY <1>2 DEF LoseMessage, Inductive, WdTypeOK, Message
  <1>5. Fresh' => Fresh
    BY <1>3 DEF LoseMessage, Fresh
  <1> QED BY <1>4, <1>5 DEF LoseMessage, Inductive, IsAlive

\* The invariant holds in every reachable state.
THEOREM InductiveInvariant == WdSpec => []Inductive
  <1>1. Inductive /\ [WdNext]_wdVars => Inductive'
    <2> SUFFICES ASSUME Inductive, [WdNext]_wdVars PROVE Inductive'
      OBVIOUS
    <2>1. CASE PeerStopsOrStarts
      BY <2>1 DEF PeerStopsOrStarts, Inductive, WdTypeOK, Fresh, IsAlive
    <2>2. CASE UNCHANGED wdVars
      BY <2>2 DEF wdVars, Inductive, WdTypeOK, Fresh, IsAlive
    <2> QED BY <2>1, <2>2, ClockStep, SendStep, ForgetStep, AnsweredStep, GiveUpStep,
               PeerAnswersStep, HandlePongStep, LoseStep DEF WdNext
  <1> QED BY <1>1, WdInitInductive, PTL DEF WdSpec

\* Answers are for pings that were sent, and waits are bounded.
THEOREM TypeCorrect == WdSpec => []WdTypeOK
  <1>1. Inductive => WdTypeOK
    BY DEF Inductive
  <1> QED BY <1>1, InductiveInvariant, PTL

\* Whoever is held for alive has answered within the timeout and one wait.
THEOREM AliveIsRecent == WdSpec => []AliveHasAnswered
  <1>1. Inductive => AliveHasAnswered
    BY WdAssumption DEF Inductive, WdTypeOK, IsAlive, AliveHasAnswered, WdAssumption
  <1> QED BY <1>1, InductiveInvariant, PTL
-----------------------------------------------------------------------------
(* A prompt peer.  While every answer is prompt and meets a Ping that is   *)
(* ready for it, sending, answering and recording happen within the unit   *)
(* of the tick, so the age counts the units since the last tick.           *)

\* The one message about the ping of now is still under way.
UnderWay ==
  \/ pongs = <<>> /\ Len(pings) = 1 /\ pings[1].n = task.n
  \/ pings = <<>> /\ Len(pongs) = 1 /\ pongs[1].n = task.n

\* At rest until the next tick, at its tick, and at work in the unit of a tick.
Resting  == task.at = "idle" /\ pings = <<>> /\ pongs = <<>> /\ ~ticked /\ age + toTick <= Rate
AtTick      == task.at = "idle" /\ pings = <<>> /\ pongs = <<>> /\ age <= Rate
Working  == /\ task.at # "idle" /\ task.waited = 0 /\ age <= Rate /\ toTick = Rate /\ ~ticked
            /\ \/ UnderWay /\ (task.at = "wait" => pongMsg = 0)
               \/ task.at = "wait" /\ pongMsg = task.n /\ pings = <<>> /\ pongs = <<>>

Prompt == smooth => Resting \/ (AtTick /\ ticked /\ toTick = Rate) \/ Working

\* Behind a message that is the only one there is nothing.
LEMMA OnlyMessage ==
  ASSUME NEW S, NEW ms \in Seq(S), Len(ms) = 1
  PROVE  Tail(ms) = <<>> /\ Head(ms) = ms[1]
  <1>1. ms # <<>>
    OBVIOUS
  <1>2. Tail(ms) \in Seq(S) /\ Len(Tail(ms)) = 0
    BY <1>1, HeadTailProperties
  <1>3. Tail(ms) = <<>>
    BY <1>2, EmptySeq
  <1>4. Head(ms) = ms[1]
    BY <1>1
  <1> QED BY <1>3, <1>4

\* Only at rest does time pass for a prompt peer.
LEMMA ClockPrompt ==
  ASSUME Inductive, Prompt, Clock, smooth'
  PROVE  Prompt'
  <1> USE WdAssumption DEF WdAssumption
  <1>1. smooth /\ pings = <<>> /\ pongs = <<>> /\ task.at # "sent"
        /\ (task.at = "wait" => pongMsg = 0) /\ ~(task.at = "idle" /\ ticked)
    BY DEF Clock
  <1>2. ~UnderWay
    BY <1>1 DEF UnderWay
  <1>3. task.n > 0 \/ task.at = "idle"
    BY DEF Inductive
  <1>4. Resting
    BY <1>1, <1>2, <1>3 DEF Prompt, AtTick, Working, Inductive, WdTypeOK
  <1>5. task' = task /\ pings' = <<>> /\ pongs' = <<>>
    <2>1. task' = [task EXCEPT !.waited = task.waited]
      BY <1>4 DEF Clock, Resting
    <2>2. Older(<<>>) = <<>>
      BY DEF Older
    <2> QED BY <1>1, <2>1, <2>2 DEF Clock, Inductive, WdTypeOK
  <1>6. /\ age' <= age + 1 /\ age' \in Nat /\ age \in Nat /\ toTick \in 1 .. Rate
        /\ toTick' = IF toTick = 1 THEN Rate ELSE toTick - 1
    <2>1. age \in Nat /\ toTick \in 1 .. Rate
      BY DEF Inductive, WdTypeOK
    <2>2. age' = Later(age, Timeout) /\ toTick' = IF toTick = 1 THEN Rate ELSE toTick - 1
      BY DEF Clock
    <2> QED BY <2>1, <2>2 DEF Later
  <1>7. (toTick = 1 => ticked') /\ (toTick # 1 => ~ticked')
    BY <1>4, Zenon DEF Clock, Resting
  <1>8. CASE toTick = 1
    <2>1. toTick' = Rate /\ age' <= Rate
      BY <1>4, <1>6, <1>8 DEF Resting
    <2> QED BY <1>7, <1>8, <1>4, <1>5, <2>1 DEF Prompt, AtTick, Resting
  <1>9. CASE toTick # 1
    <2>1. toTick' = toTick - 1 /\ age + toTick <= Rate
      BY <1>4, <1>6, <1>9 DEF Resting
    <2>2. age' + (toTick - 1) <= Rate
      <3>1. \A a, b, t, r \in Nat : b <= a + 1 /\ a + t <= r /\ t >= 1 => b + (t - 1) <= r
        OBVIOUS
      <3>2. toTick \in Nat /\ toTick >= 1
        BY <1>6
      <3> QED BY <1>6, <2>1, <3>1, <3>2
    <2>3. age' + toTick' <= Rate
      BY <2>1, <2>2
    <2> QED BY <1>7, <1>9, <1>4, <1>5, <2>3 DEF Prompt, Resting
  <1> QED BY <1>8, <1>9

\* The steps of Ping: it sends when there is a tick, and does not give up.
LEMMA TaskPrompt ==
  ASSUME Inductive, Prompt, smooth, Wait > 0, Send \/ Forget \/ Answered \/ GiveUp
  PROVE  Prompt'
  <1> USE WdAssumption DEF WdAssumption
  <1>1. CASE Send
    <2>1. AtTick /\ ticked /\ toTick = Rate
      BY <1>1 DEF Send, Prompt, Resting, AtTick, Working
    <2>2. pings' = <<[n |-> task.n + 1, old |-> 0]>> /\ pongs' = <<>>
      BY <1>1, <2>1 DEF Send, AtTick
    <2>3. task'.at = "sent" /\ task'.waited = 0 /\ task'.n = task.n + 1
      BY <1>1 DEF Send
    <2>4. UnderWay'
      BY <2>2, <2>3 DEF UnderWay
    <2> QED BY <1>1, <2>1, <2>3, <2>4 DEF Send, Prompt, Working, AtTick
  <1>2. CASE Forget
    <2>1. Working /\ task.at = "sent"
      BY <1>2 DEF Forget, Prompt, Resting, AtTick, Working
    <2>2. task'.at = "wait" /\ task'.waited = task.waited /\ task'.n = task.n /\ pongMsg' = 0
      BY <1>2 DEF Forget, Inductive, WdTypeOK
    <2>3. UnderWay'
      BY <1>2, <2>1, <2>2 DEF Forget, net, Working, UnderWay
    <2> QED BY <1>2, <2>1, <2>2, <2>3 DEF Forget, net, Prompt, Working
  <1>3. CASE Answered
    <2>1. Working /\ pongMsg = task.n /\ pings = <<>> /\ pongs = <<>>
      BY <1>3 DEF Answered, Prompt, Resting, AtTick, Working
    <2>2. task'.at = "idle" /\ age' = 0
      BY <1>3, <2>1 DEF Answered, Inductive, WdTypeOK
    <2>3. Resting'
      BY <1>3, <2>1, <2>2 DEF Answered, net, Working, Resting, Inductive, WdTypeOK
    <2> QED BY <2>3 DEF Prompt
  <1>4. CASE GiveUp
    <2>1. task.waited = 0
      BY <1>4 DEF GiveUp, Prompt, Resting, AtTick, Working
    <2> QED BY <1>4, <2>1 DEF GiveUp
  <1> QED BY <1>1, <1>2, <1>3, <1>4

\* The message of the ping of now moves on.
LEMMA QueuePrompt ==
  ASSUME Inductive, Prompt, smooth', PeerAnswers \/ HandlePong
  PROVE  Prompt'
  <1>1. CASE PeerAnswers
    <2>1. Working /\ UnderWay /\ Len(pings) = 1 /\ pongs = <<>> /\ pings[1].n = task.n
      BY <1>1 DEF PeerAnswers, Prompt, Resting, AtTick, Working, UnderWay
    <2>2. pings' = <<>> /\ pongs' = <<[n |-> task.n, old |-> 0]>>
      <3>1. pings \in Seq(Message(task.n))
        BY DEF Inductive, WdTypeOK, Message
      <3>2. Tail(pings) = <<>> /\ Head(pings) = pings[1]
        BY <2>1, <3>1, OnlyMessage
      <3> QED BY <1>1, <2>1, <3>2 DEF PeerAnswers
    <2>3. UnderWay'
      <3>1. task' = task
        BY <1>1, Zenon DEF PeerAnswers
      <3>2. Len(pongs') = 1 /\ pongs'[1].n = task.n
        BY <2>2
      <3> QED BY <2>2, <3>1, <3>2 DEF UnderWay
    <2> QED BY <1>1, <2>1, <2>3 DEF PeerAnswers, Prompt, Working
  <1>2. CASE HandlePong
    <2>1. Working /\ UnderWay /\ Len(pongs) = 1 /\ pings = <<>> /\ pongs[1].n = task.n
      BY <1>2 DEF HandlePong, Prompt, Resting, AtTick, Working, UnderWay
    <2>2. task.at = "wait"
      BY <1>2, <2>1 DEF HandlePong, Working, Inductive, WdTypeOK
    <2>3. pongs' = <<>> /\ pongMsg' = task.n
      <3>1. pongs \in Seq(Message(task.n))
        BY DEF Inductive, WdTypeOK, Message
      <3>2. Tail(pongs) = <<>> /\ Head(pongs) = pongs[1]
        BY <2>1, <3>1, OnlyMessage
      <3> QED BY <1>2, <2>1, <3>2 DEF HandlePong
    <2> QED BY <1>2, <2>1, <2>2, <2>3 DEF HandlePong, Prompt, Working
  <1> QED BY <1>1, <1>2

\* A peer that answers every ping promptly is held for alive in every state,
\* if the ticker is not slower than the timeout and there is a wait at all.
THEOREM PromptPeerIsAlive ==
  ASSUME Rate <= Timeout, Wait > 0
  PROVE  WdSpec => []PromptIsAlive
  <1> USE WdAssumption DEF WdAssumption
  <1>1. WdInit => Prompt
    BY DEF WdInit, Prompt, Resting
  <1>2. Inductive /\ Prompt /\ [WdNext]_wdVars => Prompt'
    <2> SUFFICES ASSUME Inductive, Prompt, [WdNext]_wdVars, smooth' PROVE Prompt'
      BY DEF Prompt
    <2>1. CASE Clock
      BY <2>1, ClockPrompt
    <2>2. CASE Send \/ Forget \/ Answered \/ GiveUp
      <3>1. smooth
        BY <2>2 DEF Send, Forget, Answered, GiveUp, net
      <3> QED BY <2>2, <3>1, TaskPrompt
    <2>3. CASE PeerAnswers \/ HandlePong
      BY <2>3, QueuePrompt
    <2>4. CASE LoseMessage \/ PeerStopsOrStarts
      BY <2>4 DEF LoseMessage, PeerStopsOrStarts
    <2>5. CASE UNCHANGED wdVars
      BY <2>5 DEF wdVars, Prompt, Resting, AtTick, Working, UnderWay
    <2> QED BY <2>1, <2>2, <2>3, <2>4, <2>5 DEF WdNext
  <1>3. Inductive /\ Prompt => PromptIsAlive
    BY DEF Inductive, WdTypeOK, Prompt, Resting, AtTick, Working, PromptIsAlive, IsAlive
  <1> QED BY <1>1, <1>2, <1>3, InductiveInvariant, PTL DEF WdSpec
-----------------------------------------------------------------------------
(* The replay manager.                                                     *)

Links == [at : {"none", "new", "wait", "due", "send"}, of : DOMAIN Files \union {""},
          index : Nat, from : {"none", "new", "wait", "due", "send"}, loop : BOOLEAN, skip : BOOLEAN]

TypeOK ==
  /\ isStarted \in BOOLEAN /\ file \in DOMAIN Files /\ loop \in BOOLEAN /\ ignoreInitEvent \in BOOLEAN
  /\ nextEventIndex \in Nat /\ ticker \in Chains \union {NoChain}
  /\ chain \in [Chains -> Links]
  /\ crashed \in BOOLEAN /\ starts \in Nat /\ last \in Nat /\ tangled \in BOOLEAN

(* A request that has passed the test has a file that passed it.           *)
Tested ==
  \A c \in Chains : chain[c].at = "new" => chain[c].of \in DOMAIN Files /\ Len(Events(chain[c].of)) > 1

(* Of the chains and requests there is one at a time.                      *)
Alone ==
  \A c, d \in Chains : chain[c].at # "none" /\ chain[d].at # "none" => c = d

(* Where the replay is: the event to come follows the one that ran last.   *)
InPlace ==
  /\ isStarted /\ Len(Events(file)) > 1
  /\ last <= Len(Events(file))
  /\ nextEventIndex = IF last = Len(Events(file)) THEN 0 ELSE last
  /\ last = Len(Events(file)) => loop

Running(c) ==
  /\ InPlace
  /\ chain[c].at = "wait" => ticker = c
  /\ chain[c].at = "send" => /\ chain[c].of = file
                             /\ chain[c].index = Following /\ chain[c].index <= MaxIndex(file)

Untangled ==
  /\ Alone
  /\ \A c \in Alive : Running(c)
  /\ isStarted /\ Alive = {} => Unplayable(file)
  /\ crashed => Unplayable(file)

IInv == TypeOK /\ Tested /\ (~tangled => Untangled)
-----------------------------------------------------------------------------
LEMMA FilesAreSequences ==
  ASSUME NEW f \in DOMAIN Files
  PROVE  /\ Files[f] \in Seq([time : Nat, init : BOOLEAN])
         /\ Len(Events(f)) \in Nat /\ MaxIndex(f) = Len(Events(f)) - 1
         /\ \A i \in 0 .. Len(Events(f)) - 1 :
              Event(f, i) = Files[f][i + 1] /\ Event(f, i).time \in Nat
  <1>1. Files[f] \in Seq([time : Nat, init : BOOLEAN])
    BY RpAssumption DEF RpAssumption
  <1>2. Len(Files[f]) \in Nat
    BY <1>1
  <1>3. \A i \in 0 .. Len(Files[f]) - 1 : Files[f][i + 1].time \in Nat
    <2>1. \A k \in 1 .. Len(Files[f]) : Files[f][k] \in [time : Nat, init : BOOLEAN]
      BY <1>1, ElementOfSeq
    <2>2. \A k \in 1 .. Len(Files[f]) : Files[f][k].time \in Nat
      BY <2>1
    <2>3. \A i \in 0 .. Len(Files[f]) - 1 : i + 1 \in 1 .. Len(Files[f])
      BY <1>2
    <2> QED BY <2>2, <2>3
  <1> QED BY <1>1, <1>2, <1>3 DEF Events, MaxIndex, Event

LEMMA NothingIsALink == Nothing \in Links /\ Nothing.at = "none"
  BY DEF Nothing, Links

(* What the parts of the manager do with the chains.                       *)
LEMMA StoppedChains ==
  ASSUME TypeOK
  PROVE  /\ Stopped \in [Chains -> Links]
         /\ \A c \in Chains :
              Stopped[c] = IF c = ticker /\ chain[c].at = "wait" THEN Nothing ELSE chain[c]
  BY NothingIsALink, RpAssumption DEF TypeOK, Stopped, RpAssumption

LEMMA Replaced ==
  ASSUME NEW c \in Chains, NEW chains \in [Chains -> Links], NEW b \in Links
  PROVE  /\ [chains EXCEPT ![c] = b] \in [Chains -> Links] /\ [chains EXCEPT ![c] = b][c] = b
         /\ \A d \in Chains : d # c => [chains EXCEPT ![c] = b][d] = chains[d]
  OBVIOUS

LEMMA PlayedTypes ==
  ASSUME NEW c \in Chains, NEW chains \in [Chains -> Links], NEW f \in DOMAIN Files,
         NEW i \in Nat, NEW skip \in BOOLEAN, crashed \in BOOLEAN,
         chain[c] \in Links, Play(c, chains, f, i, skip)
  PROVE  /\ chain' \in [Chains -> Links] /\ crashed' \in BOOLEAN
         /\ chain'[c].at \in {"none", "send"}
         /\ \A d \in Chains : d # c => chain'[d] = chains[d]
  <1> DEFINE j == IF i <= MaxIndex(f) /\ Event(f, i).init /\ skip THEN i + 1 ELSE i
             b == [Nothing EXCEPT !.at = "send", !.of = f, !.index = j, !.from = chain[c].at]
  <1>1. CASE j > MaxIndex(f)
    <2>1. crashed' = (chain[c].at # "new") /\ chain' = [chains EXCEPT ![c] = Nothing]
      BY Zenon, <1>1 DEF Play
    <2>2. crashed' \in BOOLEAN
      BY Zenon, <2>1
    <2> QED BY <2>1, <2>2, NothingIsALink
  <1>2. CASE ~(j > MaxIndex(f))
    <2>1. chain' = [chains EXCEPT ![c] = b] /\ crashed' = crashed
      BY Zenon, <1>2 DEF Play
    <2>2. j \in Nat
      OBVIOUS
    <2>3. b \in Links /\ b.at = "send"
      BY <2>2 DEF Nothing, Links
    <2> HIDE DEF b
    <2> QED BY Zenon, <2>1, <2>3, Replaced
  <1> QED BY <1>1, <1>2

(* An event is put in hand, or there is none after the last.               *)
LEMMA Played ==
  ASSUME NEW c \in Chains, NEW chains \in [Chains -> Links], NEW f \in DOMAIN Files,
         NEW i \in Nat, i <= MaxIndex(f), Len(Events(f)) > 1,
         NEW skip \in BOOLEAN, crashed \in BOOLEAN,
         chain[c] \in Links, Play(c, chains, f, i, skip)
  PROVE  \/ /\ chain'[c] = Nothing /\ Unplayable(f)
         \/ /\ chain'[c].at = "send" /\ chain'[c].of = f /\ crashed' = crashed
            /\ chain'[c].index = (IF Event(f, i).init /\ skip THEN i + 1 ELSE i)
            /\ chain'[c].index <= MaxIndex(f)
  <1> DEFINE j == IF i <= MaxIndex(f) /\ Event(f, i).init /\ skip THEN i + 1 ELSE i
  <1>1. j = (IF Event(f, i).init /\ skip THEN i + 1 ELSE i) /\ j \in Nat
    OBVIOUS
  <1>2. CASE j > MaxIndex(f)
    <2>1. crashed' = (chain[c].at # "new") /\ chain' = [chains EXCEPT ![c] = Nothing]
      BY Zenon, <1>2 DEF Play
    <2>2. chain'[c] = Nothing
      BY <2>1
    <2>3. i = MaxIndex(f) /\ Event(f, i).init
      BY <1>2, FilesAreSequences
    <2>4. i + 1 \in 2 .. Len(Files[f]) /\ i + 1 = Len(Files[f]) /\ Files[f][i + 1].init
      BY <2>3, FilesAreSequences DEF Events, Event
    <2>5. Unplayable(f)
      BY <2>4 DEF Unplayable
    <2> QED BY <2>2, <2>5
  <1>3. CASE ~(j > MaxIndex(f))
    <2> DEFINE b == [Nothing EXCEPT !.at = "send", !.of = f, !.index = j, !.from = chain[c].at]
    <2>1. chain' = [chains EXCEPT ![c] = b] /\ crashed' = crashed
      BY Zenon, <1>3 DEF Play
    <2>2. b \in Links /\ b.at = "send" /\ b.of = f /\ b.index = j
      BY <1>1 DEF Nothing, Links
    <2> HIDE DEF b
    <2>3. j <= MaxIndex(f)
      BY <1>1, <1>3, FilesAreSequences
    <2> QED BY <1>1, <2>1, <2>2, <2>3
  <1> QED BY <1>2, <1>3
-----------------------------------------------------------------------------
LEMMA InitInductive == Init => IInv
  <1> SUFFICES ASSUME Init PROVE IInv
    OBVIOUS
  <1>1. chain \in [Chains -> Links] /\ \A c \in Chains : chain[c].at = "none"
    BY NothingIsALink DEF Init
  <1>2. Alive = {}
    BY <1>1 DEF Alive
  <1> QED BY <1>1, <1>2 DEF Init, IInv, TypeOK, Tested, Untangled, Alone

(* While requests come at the right moment they came so far.               *)
LEMMA StepsKeepTangled == [Next]_vars => (tangled => tangled')
  BY DEF Next, vars, mgr, Progress, Completed, Schedule, Tick, Due, Check, Start, Stop, Rest

(* The chain that goes on is the only one.                                 *)
LEMMA OnlyOne ==
  ASSUME Untangled, NEW c \in Chains, chain[c].at # "none"
  PROVE  \A d \in Chains \ {c} : chain[d].at = "none"
  BY DEF Untangled, Alone

(* What has to be shown of a step of the only chain.                       *)
LEMMA GoesOn ==
  ASSUME NEW c \in Chains, \A d \in Chains \ {c} : chain'[d].at = "none",
         crashed' => Unplayable(file'),
         \/ chain'[c].at = "none" /\ (isStarted' => Unplayable(file'))
         \/ chain'[c].at \in {"wait", "due", "send"} /\ Running(c)'
  PROVE  Untangled'
  <1>1. Alone'
    BY DEF Alone
  <1>2. CASE chain'[c].at = "none"
    <2>1. Alive' = {}
      BY <1>2 DEF Alive
    <2> QED BY <1>1, <1>2, <2>1 DEF Untangled
  <1>3. CASE chain'[c].at # "none"
    <2>1. Alive' = {c}
      BY <1>3 DEF Alive
    <2> QED BY <1>1, <1>3, <2>1 DEF Untangled
  <1> QED BY <1>2, <1>3

LEMMA CompletedInductive ==
  ASSUME IInv, NEW c \in Chains, Completed(c)
  PROVE  IInv'
  <1>1. /\ TypeOK /\ Tested /\ chain[c].at = "send" /\ chain[c].index \in Nat
        /\ chain' = [chain EXCEPT ![c] = Nothing] /\ last' = chain[c].index + 1
        /\ isStarted' = FALSE
        /\ UNCHANGED <<file, loop, ignoreInitEvent, nextEventIndex, ticker, crashed, starts, tangled>>
    BY DEF Completed, IInv, TypeOK, Links
  <1>2. TypeOK'
    <2>1. chain' \in [Chains -> Links] /\ last' \in Nat
      BY <1>1, NothingIsALink DEF TypeOK
    <2> QED BY Zenon, <1>1, <2>1 DEF TypeOK
  <1>3. Tested'
    BY <1>1, NothingIsALink DEF Tested, TypeOK
  <1>4. ASSUME ~tangled PROVE Untangled'
    <2>1. Untangled /\ ~crashed
      BY <1>4 DEF IInv, Completed
    <2>2. \A d \in Chains \ {c} : chain'[d].at = "none"
      BY <1>1, <2>1, OnlyOne DEF TypeOK
    <2> QED BY <1>1, <2>1, <2>2, GoesOn, NothingIsALink DEF TypeOK
  <1> QED BY <1>1, <1>2, <1>3, <1>4 DEF IInv

LEMMA TickInductive ==
  ASSUME IInv, NEW c \in Chains, Tick(c)
  PROVE  IInv'
  <1>1. /\ TypeOK /\ Tested /\ chain[c].at = "wait"
        /\ chain' = [chain EXCEPT ![c].at = "due"]
        /\ UNCHANGED <<mgr, crashed, starts, last, tangled>>
    BY DEF Tick, IInv
  <1>2. /\ chain' \in [Chains -> Links] /\ chain'[c].at = "due"
        /\ \A d \in Chains \ {c} : chain'[d] = chain[d]
    BY <1>1 DEF TypeOK, Links
  <1>3. TypeOK'
    BY <1>1, <1>2 DEF TypeOK, mgr
  <1>4. Tested'
    BY <1>1, <1>2 DEF Tested
  <1>5. ASSUME ~tangled PROVE Untangled'
    <2>1. Untangled /\ ~crashed
      BY <1>5 DEF IInv, Tick
    <2>2. \A d \in Chains \ {c} : chain'[d].at = "none"
      BY <1>1, <1>2, <2>1, OnlyOne
    <2>3. Running(c)
      BY <1>1, <2>1 DEF Untangled, Alive
    <2>4. Running(c)'
      BY <1>1, <1>2, <2>3 DEF Running, InPlace, mgr
    <2> QED BY <1>1, <1>2, <2>1, <2>2, <2>4, GoesOn
  <1> QED BY <1>1, <1>3, <1>4, <1>5 DEF IInv

(* Nothing plays and nothing was asked, or one request is to start.        *)
LEMMA AtRest ==
  ASSUME \A d \in Chains : chain'[d].at \in {"none", "new"}, Alone',
         isStarted' => Unplayable(file'), crashed' => Unplayable(file')
  PROVE  Untangled'
  <1>1. Alive' = {}
    BY DEF Alive
  <1> QED BY <1>1 DEF Untangled

(* The event to come is due later, or the file is unplayable.              *)
LEMMA NextIsInPlace ==
  ASSUME TypeOK, NEW c \in Chains, chain[c].at = "send", Running(c),
         NEW n \in NextIndex(chain[c].index)
  PROVE  /\ n \in Nat /\ n <= MaxIndex(file)
         /\ n = (IF chain[c].index + 1 = Len(Events(file)) THEN 0 ELSE chain[c].index + 1)
         /\ chain[c].index + 1 = Len(Events(file)) => loop
         /\ chain[c].index + 1 <= Len(Events(file))
         /\ ~Interval(c, n) => Unplayable(file)
  <1> DEFINE i == chain[c].index
  <1>1. /\ i \in Nat /\ i <= MaxIndex(file) /\ chain[c].of = file /\ Len(Events(file)) > 1
        /\ file \in DOMAIN Files
    BY DEF TypeOK, Links, Running, InPlace
  <1>2. MaxIndex(file) = Len(Events(file)) - 1 /\ Len(Events(file)) \in Nat
    BY <1>1, FilesAreSequences
  <1>3. \/ i # MaxIndex(file) /\ n = i + 1
        \/ i = MaxIndex(file) /\ n = 0 /\ loop
    BY DEF NextIndex
  <1>4. ASSUME ~Interval(c, n) PROVE Unplayable(file)
    <2>1. n = i + 1 /\ ~(Event(file, n).time > Event(file, i).time) /\ n <= MaxIndex(file)
      BY <1>1, <1>2, <1>3, <1>4 DEF Interval
    <2>2. i \in 0 .. Len(Events(file)) - 1 /\ n \in 0 .. Len(Events(file)) - 1
      BY <1>1, <1>2, <2>1
    <2>3. /\ Event(file, i) = Files[file][i + 1] /\ Event(file, i).time \in Nat
          /\ Event(file, n) = Files[file][n + 1] /\ Event(file, n).time \in Nat
      BY <1>1, <2>2, FilesAreSequences
    <2> DEFINE k == n + 1
    <2>4. k \in 2 .. Len(Files[file]) /\ k - 1 = i + 1
      BY <1>1, <1>2, <2>1 DEF Events
    <2>5. Files[file][k].time <= Files[file][k - 1].time
      <3>1. Files[file][k] = Event(file, n)
        BY <2>3
      <3>2. Files[file][k - 1] = Event(file, i)
        BY Zenon, <2>3, <2>4
      <3>3. Event(file, n).time <= Event(file, i).time
        BY <2>1, <2>3
      <3> QED BY Zenon, <3>1, <3>2, <3>3
    <2> QED BY <2>4, <2>5 DEF Unplayable
  <1> QED BY <1>1, <1>2, <1>3, <1>4

LEMMA ScheduleInductive ==
  ASSUME IInv, NEW c \in Chains, Schedule(c)
  PROVE  IInv'
  <1>1. /\ TypeOK /\ Tested /\ chain[c].at = "send" /\ chain[c].index \in Nat
        /\ last' = chain[c].index + 1 /\ ~crashed
        /\ UNCHANGED <<starts, tangled, isStarted, file, loop, ignoreInitEvent>>
    BY DEF Schedule, IInv, TypeOK, Links, Panic, mgr
  <1>2. PICK n \in NextIndex(chain[c].index) :
          \/ Panic(c) /\ UNCHANGED mgr /\ (n > MaxIndex(file) \/ ~Interval(c, n))
          \/ /\ ticker' = c /\ nextEventIndex' = n /\ crashed' = crashed
             /\ chain' = [chain EXCEPT ![c] = [Nothing EXCEPT !.at = "wait"]]
    BY DEF Schedule
  <1>3. n \in Nat
    BY <1>1, <1>2 DEF NextIndex
  <1>4. CASE Panic(c) /\ UNCHANGED mgr /\ (n > MaxIndex(file) \/ ~Interval(c, n))
    <2>1. crashed' \in BOOLEAN
      BY Zenon, <1>4 DEF Panic
    <2>2. /\ chain' \in [Chains -> Links] /\ chain'[c].at = "none"
          /\ \A d \in Chains \ {c} : chain'[d] = chain[d]
      BY <1>1, <1>4, NothingIsALink DEF Panic, TypeOK
    <2>3. TypeOK'
      BY <1>1, <1>4, <2>1, <2>2 DEF TypeOK, mgr
    <2>4. Tested'
      BY <1>1, <2>2 DEF Tested
    <2>5. ASSUME ~tangled PROVE Untangled'
      <3>1. Untangled
        BY <2>5 DEF IInv
      <3>2. Running(c)
        BY <1>1, <3>1 DEF Untangled, Alive
      <3>3. Unplayable(file)
        <4>1. file \in DOMAIN Files /\ MaxIndex(file) \in Int
          BY <1>1, FilesAreSequences DEF TypeOK
        <4> QED BY <1>1, <1>3, <1>4, <3>2, <4>1, NextIsInPlace
      <3>4. \A d \in Chains \ {c} : chain'[d].at = "none"
        BY <1>1, <2>2, <3>1, OnlyOne
      <3> QED BY <1>1, <2>2, <3>3, <3>4, GoesOn
    <2> QED BY <1>1, <2>3, <2>4, <2>5 DEF IInv
  <1>5. CASE /\ ticker' = c /\ nextEventIndex' = n /\ crashed' = crashed
             /\ chain' = [chain EXCEPT ![c] = [Nothing EXCEPT !.at = "wait"]]
    <2>1. /\ chain' \in [Chains -> Links] /\ chain'[c].at = "wait"
          /\ \A d \in Chains \ {c} : chain'[d] = chain[d]
      <3>1. [Nothing EXCEPT !.at = "wait"] \in Links /\ [Nothing EXCEPT !.at = "wait"].at = "wait"
        BY DEF Nothing, Links
      <3> QED BY <1>1, <1>5, <3>1 DEF TypeOK
    <2>2. TypeOK'
      BY <1>1, <1>3, <1>5, <2>1 DEF TypeOK
    <2>3. Tested'
      BY <1>1, <2>1 DEF Tested
    <2>4. ASSUME ~tangled PROVE Untangled'
      <3>1. Untangled
        BY <2>4 DEF IInv
      <3>2. Running(c)
        BY <1>1, <3>1 DEF Untangled, Alive
      <3>3. Running(c)'
        BY <1>1, <1>5, <2>1, <3>2, NextIsInPlace DEF Running, InPlace
      <3>4. \A d \in Chains \ {c} : chain'[d].at = "none"
        BY <1>1, <2>1, <3>1, OnlyOne
      <3> QED BY <1>1, <1>5, <2>1, <3>3, <3>4, GoesOn
    <2> QED BY <1>1, <2>2, <2>3, <2>4 DEF IInv
  <1> QED BY <1>2, <1>4, <1>5

LEMMA DueInductive ==
  ASSUME IInv, NEW c \in Chains, Due(c)
  PROVE  IInv'
  <1>1. /\ TypeOK /\ Tested /\ chain[c].at = "due" /\ ~crashed
        /\ Play(c, Stopped, file, nextEventIndex, ignoreInitEvent)
        /\ UNCHANGED <<mgr, starts, last, tangled>>
    BY DEF Due, IInv
  <1>2. /\ file \in DOMAIN Files /\ nextEventIndex \in Nat /\ ignoreInitEvent \in BOOLEAN
        /\ crashed \in BOOLEAN /\ chain[c] \in Links
        /\ Stopped \in [Chains -> Links]
        /\ \A d \in Chains :
             Stopped[d] = IF d = ticker /\ chain[d].at = "wait" THEN Nothing ELSE chain[d]
    BY <1>1, StoppedChains DEF TypeOK
  <1>3. /\ chain' \in [Chains -> Links] /\ crashed' \in BOOLEAN /\ chain'[c].at \in {"none", "send"}
        /\ \A d \in Chains : d # c => chain'[d] = Stopped[d]
    BY <1>1, <1>2, PlayedTypes
  <1>4. TypeOK'
    BY <1>1, <1>3 DEF TypeOK, mgr
  <1>5. Tested'
    BY <1>1, <1>2, <1>3, NothingIsALink DEF Tested
  <1>6. ASSUME ~tangled PROVE Untangled'
    <2>1. Untangled /\ Running(c)
      BY <1>1, <1>6 DEF IInv, Untangled, Alive
    <2>2. \A d \in Chains \ {c} : chain'[d].at = "none"
      BY <1>1, <1>2, <1>3, <2>1, OnlyOne, NothingIsALink
    <2>3. nextEventIndex <= MaxIndex(file) /\ Len(Events(file)) > 1
      BY <1>2, <2>1, FilesAreSequences DEF Running, InPlace
    <2>4. \/ /\ chain'[c] = Nothing /\ Unplayable(file)
          \/ /\ chain'[c].at = "send" /\ chain'[c].of = file /\ crashed' = crashed
             /\ chain'[c].index = (IF Event(file, nextEventIndex).init /\ ignoreInitEvent
                                   THEN nextEventIndex + 1 ELSE nextEventIndex)
             /\ chain'[c].index <= MaxIndex(file)
      BY <1>1, <1>2, <2>3, Played
    <2>5. CASE chain'[c] = Nothing /\ Unplayable(file)
      BY <1>1, <2>2, <2>5, GoesOn, NothingIsALink DEF mgr
    <2>6. CASE /\ chain'[c].at = "send" /\ chain'[c].of = file /\ crashed' = crashed
               /\ chain'[c].index = (IF Event(file, nextEventIndex).init /\ ignoreInitEvent
                                     THEN nextEventIndex + 1 ELSE nextEventIndex)
               /\ chain'[c].index <= MaxIndex(file)
      <3>1. Running(c)'
        BY <1>1, <2>1, <2>6 DEF Running, InPlace, Following, mgr
      <3> QED BY <1>1, <2>2, <2>6, <3>1, GoesOn
    <2> QED BY <2>4, <2>5, <2>6
  <1> QED BY <1>1, <1>4, <1>5, <1>6 DEF IInv

LEMMA CheckInductive ==
  ASSUME IInv, NEW c \in Chains, NEW f \in DOMAIN Files, NEW l \in BOOLEAN, NEW skip \in BOOLEAN,
         Check(c, f, l, skip)
  PROVE  IInv'
  <1> DEFINE b == [Nothing EXCEPT !.at = "new", !.of = f, !.loop = l, !.skip = skip]
  <1>1. /\ TypeOK /\ Tested /\ ~isStarted /\ Len(Events(f)) > 1 /\ chain[c].at = "none" /\ ~crashed
        /\ chain' = [chain EXCEPT ![c] = b] /\ starts' = starts + 1
        /\ UNCHANGED <<mgr, crashed, last>>
    BY DEF Check, IInv
  <1>2. b \in Links /\ b.at = "new" /\ b.of = f
    BY DEF Nothing, Links
  <1> HIDE DEF b
  <1>3. tangled' \in BOOLEAN /\ (~tangled' => ~tangled /\ New = {})
    BY Zenon, <1>1 DEF Check, TypeOK
  <1>4. /\ chain' \in [Chains -> Links] /\ chain'[c] = b
        /\ \A d \in Chains \ {c} : chain'[d] = chain[d]
    BY <1>1, <1>2 DEF TypeOK
  <1>5. TypeOK'
    BY <1>1, <1>3, <1>4 DEF TypeOK, mgr
  <1>6. Tested'
    BY <1>1, <1>2, <1>4 DEF Tested
  <1>7. ASSUME ~tangled' PROVE Untangled'
    <2>1. Untangled /\ New = {}
      BY <1>3, <1>7 DEF IInv
    <2>2. Alive = {}
      BY <1>1, <2>1 DEF Untangled, Running, InPlace
    <2>3. \A d \in Chains : chain[d].at = "none"
      BY <2>1, <2>2 DEF Alive, New
    <2>4. Alone' /\ \A d \in Chains : chain'[d].at \in {"none", "new"}
      BY <1>2, <1>4, <2>3 DEF Alone
    <2> QED BY <1>1, <2>4, AtRest DEF mgr
  <1> QED BY <1>5, <1>6, <1>7 DEF IInv

LEMMA StartInductive ==
  ASSUME IInv, NEW c \in Chains, Start(c)
  PROVE  IInv'
  <1> DEFINE f == chain[c].of
  <1>1. /\ TypeOK /\ Tested /\ chain[c].at = "new" /\ ~crashed
        /\ nextEventIndex' = 0 /\ file' = f /\ last' = 0
        /\ loop' = chain[c].loop /\ ignoreInitEvent' = chain[c].skip
        /\ Play(c, chain, f, 0, chain[c].skip)
        /\ UNCHANGED <<ticker, starts>>
    BY DEF Start, IInv
  <1>2. /\ f \in DOMAIN Files /\ Len(Events(f)) > 1 /\ 0 \in Nat
        /\ chain \in [Chains -> Links] /\ chain[c] \in Links /\ crashed \in BOOLEAN
        /\ chain[c].skip \in BOOLEAN /\ chain[c].loop \in BOOLEAN
    BY <1>1 DEF Tested, TypeOK, Links
  <1>3. isStarted' /\ isStarted' \in BOOLEAN
    BY Zenon DEF Start
  <1>4. tangled' \in BOOLEAN /\ (~tangled' => ~tangled)
    BY Zenon, <1>1 DEF Start, TypeOK
  <1> HIDE DEF f
  <1>5. /\ chain' \in [Chains -> Links] /\ crashed' \in BOOLEAN /\ chain'[c].at \in {"none", "send"}
        /\ \A d \in Chains : d # c => chain'[d] = chain[d]
    <2>1. Play(c, chain, f, 0, chain[c].skip)
      BY <1>1
    <2> DEFINE skip == chain[c].skip
    <2> HIDE DEF skip
    <2>2. Play(c, chain, f, 0, skip) /\ skip \in BOOLEAN
      BY <1>2, <2>1 DEF skip
    <2> QED BY <1>2, <2>2, PlayedTypes
  <1>6. TypeOK'
    BY <1>1, <1>2, <1>3, <1>4, <1>5 DEF TypeOK
  <1>7. Tested'
    BY <1>1, <1>5 DEF Tested
  <1>8. ASSUME ~tangled' PROVE Untangled'
    <2>1. Untangled
      BY <1>4, <1>8 DEF IInv
    <2>2. \A d \in Chains \ {c} : chain'[d].at = "none"
      BY <1>1, <1>5, <2>1, OnlyOne
    <2>3. 0 <= MaxIndex(f)
      BY <1>2, FilesAreSequences
    <2>4. \/ /\ chain'[c] = Nothing /\ Unplayable(f)
          \/ /\ chain'[c].at = "send" /\ chain'[c].of = f /\ crashed' = crashed
             /\ chain'[c].index = (IF Event(f, 0).init /\ chain[c].skip THEN 0 + 1 ELSE 0)
             /\ chain'[c].index <= MaxIndex(f)
      BY <1>1, <1>2, <2>3, Played
    <2>5. CASE chain'[c] = Nothing /\ Unplayable(f)
      BY <1>1, <2>2, <2>5, GoesOn, NothingIsALink
    <2>6. CASE /\ chain'[c].at = "send" /\ chain'[c].of = f /\ crashed' = crashed
               /\ chain'[c].index = (IF Event(f, 0).init /\ chain[c].skip THEN 0 + 1 ELSE 0)
               /\ chain'[c].index <= MaxIndex(f)
      <3>1. Running(c)'
        BY <1>1, <1>2, <1>3, <2>6, FilesAreSequences DEF Running, InPlace, Following
      <3> QED BY <1>1, <2>2, <2>6, <3>1, GoesOn
    <2> QED BY <2>4, <2>5, <2>6
  <1> QED BY <1>6, <1>7, <1>8 DEF IInv

LEMMA StopInductive ==
  ASSUME IInv, Stop
  PROVE  IInv'
  <1>1. /\ TypeOK /\ Tested /\ ~crashed /\ chain' = Stopped
        /\ UNCHANGED <<file, loop, ignoreInitEvent, nextEventIndex, ticker, crashed, starts, last>>
    BY DEF Stop, IInv
  <1>2. /\ chain' \in [Chains -> Links]
        /\ \A d \in Chains :
             chain'[d] = IF d = ticker /\ chain[d].at = "wait" THEN Nothing ELSE chain[d]
    BY <1>1, StoppedChains
  <1>3. isStarted' = FALSE /\ isStarted' \in BOOLEAN /\ tangled' \in BOOLEAN
        /\ (~tangled' => ~tangled /\ Calm)
    BY Zenon, <1>1 DEF Stop, TypeOK
  <1>4. TypeOK'
    BY <1>1, <1>2, <1>3 DEF TypeOK
  <1>5. Tested'
    BY <1>1, <1>2, NothingIsALink DEF Tested
  <1>6. ASSUME ~tangled' PROVE Untangled'
    <2>1. Untangled /\ Calm
      BY <1>3, <1>6 DEF IInv
    <2>2. \A d \in Chains : chain[d].at = "wait" => d = ticker
      BY <2>1 DEF Untangled, Running, Alive
    <2>3. \A d \in Chains : chain'[d].at = "none"
      BY <1>2, <2>1, <2>2, NothingIsALink DEF Calm
    <2> QED BY <1>1, <1>3, <2>3, AtRest DEF Alone
  <1> QED BY <1>4, <1>5, <1>6 DEF IInv

LEMMA StutterInductive == IInv /\ UNCHANGED vars => IInv'
  BY DEF IInv, TypeOK, Tested, Untangled, Alone, Alive, Running, InPlace, Following, vars, mgr

LEMMA NextInductive == IInv /\ [Next]_vars => IInv'
  <1> SUFFICES ASSUME IInv, [Next]_vars PROVE IInv'
    OBVIOUS
  <1>1. ASSUME NEW c \in Chains, Progress(c) PROVE IInv'
    BY <1>1, CompletedInductive, ScheduleInductive, TickInductive, DueInductive, StartInductive
       DEF Progress
  <1>2. ASSUME NEW c \in Chains, NEW f \in DOMAIN Files, NEW l \in BOOLEAN, NEW skip \in BOOLEAN,
               Check(c, f, l, skip)
        PROVE  IInv'
    BY <1>2, CheckInductive
  <1>3. CASE Stop
    BY <1>3, StopInductive
  <1>4. CASE Rest \/ UNCHANGED vars
    BY <1>4, StutterInductive DEF Rest
  <1> QED BY <1>1, <1>2, <1>3, <1>4 DEF Next

(* The inductive invariant of the replay manager.                          *)
THEOREM ReplayInvariant == Spec => []IInv
  BY InitInductive, NextInductive, PTL DEF Spec

(* One chain plays, and the manager says so.                               *)
THEOREM OneReplayAtATime == Spec => []OneReplay
  <1>1. IInv => OneReplay
    <2> SUFFICES ASSUME Untangled
                 PROVE  /\ Cardinality(Alive) <= 1
                        /\ Alive # {} => isStarted
                        /\ isStarted => Alive # {} \/ Unplayable(file)
      BY DEF IInv, OneReplay
    <2>1. CASE Alive = {}
      BY <2>1, FS_EmptySet DEF Untangled
    <2>2. CASE Alive # {}
      <3>1. PICK c \in Alive : Alive = {c}
        BY <2>2 DEF Alive, Untangled, Alone
      <3>2. Cardinality(Alive) = 1
        BY <3>1, FS_Singleton
      <3> QED BY <2>2, <3>1, <3>2 DEF Untangled, Running, InPlace
    <2> QED BY <2>1, <2>2
  <1> QED BY <1>1, ReplayInvariant, PTL

(* The status names the event that ran last, also when the replay starts   *)
(* again from its first one.                                               *)
THEOREM StatusNamesTheLast == Spec => []StatusIsLastRan
  <1>1. IInv => StatusIsLastRan
    <2> SUFFICES ASSUME IInv, ~tangled, Alive # {}, last # 0 PROVE Status = last - 1
      BY DEF StatusIsLastRan
    <2>1. InPlace /\ last \in Nat /\ file \in DOMAIN Files
      BY DEF IInv, Untangled, Running, TypeOK
    <2> QED BY <2>1, FilesAreSequences DEF InPlace, Status
  <1> QED BY <1>1, ReplayInvariant, PTL

(* The process ends by a request in the wrong moment or by its file only.  *)
THEOREM CrashesAreExplained == Spec => []CrashIsExplained
  <1>1. IInv => CrashIsExplained
    BY DEF IInv, Untangled, CrashIsExplained
  <1> QED BY <1>1, ReplayInvariant, PTL

(* The events run one after the other, none is left out or repeated.       *)
THEOREM EventsRunInOrder == Spec => RunInOrder
  <1>1. IInv => [\A c \in Chains : chain[c].at = "send" /\ chain'[c].at # "send" /\ ~tangled =>
                   chain[c].index = Following]_vars
    BY DEF IInv, Untangled, Running, Alive
  <1> QED BY <1>1, ReplayInvariant, PTL DEF RunInOrder
-----------------------------------------------------------------------------
(* The segment algorithm.                                                  *)

\* A flow has two ends.
LEMMA FlowEnds ==
  ASSUME NEW f \in Flows PROVE f[1] \in Procs /\ f[2] \in Procs /\ f[1] # f[2] /\ f = <<f[1], f[2]>>
  BY DEF Flows

\* Two processes meet at a node, a network location, a zone, a domain or the
\* scenario, and are together from there on.
LEMMA MeetIs ==
  ASSUME NEW d, NEW f \in Flows
  PROVE  /\ Meet(d, f) \in 2 .. 6
         /\ \A k \in 1 .. 6 : (Above(d, f[1])[k] = Above(d, f[2])[k]) <=> k >= Meet(d, f)
  <1> DEFINE A == Above(d, f[1])
             B == Above(d, f[2])
             S == {k \in 1 .. 6 : A[k] = B[k]}
  <1>1. /\ A[1] # B[1] /\ A[6] = B[6]
        /\ A[2] = B[2] => A[3] = B[3]
        /\ A[3] = B[3] => A[4] = B[4]
        /\ A[4] = B[4] => A[5] = B[5]
    BY FlowEnds DEF Above
  <1> HIDE DEF A, B
  <1>2. PICK m \in 2 .. 6 : m \in S /\ \A k \in S : m <= k
    <2>1. CASE A[2] = B[2]
      <3>1. 2 \in S /\ \A k \in S : 2 <= k
        BY <1>1, <2>1
      <3> QED BY <3>1
    <2>2. CASE A[2] # B[2] /\ A[3] = B[3]
      <3>1. 3 \in S /\ \A k \in S : 3 <= k
        BY <1>1, <2>2
      <3> QED BY <3>1
    <2>3. CASE A[2] # B[2] /\ A[3] # B[3] /\ A[4] = B[4]
      <3>1. 4 \in S /\ \A k \in S : 4 <= k
        BY <1>1, <2>3
      <3> QED BY <3>1
    <2>4. CASE A[2] # B[2] /\ A[3] # B[3] /\ A[4] # B[4] /\ A[5] = B[5]
      <3>1. 5 \in S /\ \A k \in S : 5 <= k
        BY <1>1, <2>4
      <3> QED BY <3>1
    <2>5. CASE A[2] # B[2] /\ A[3] # B[3] /\ A[4] # B[4] /\ A[5] # B[5]
      <3>1. 6 \in S /\ \A k \in S : 6 <= k
        BY <1>1, <2>5
      <3> QED BY <3>1
    <2> QED BY <2>1, <2>2, <2>3, <2>4, <2>5
  <1>3. Min(S) = m
    <2>1. Min(S) \in S /\ \A k \in S : Min(S) <= k
      BY <1>2 DEF Min
    <2> QED BY <1>2, <2>1
  <1>4. Meet(d, f) = m
    BY <1>3 DEF Meet, A, B
  <1>5. \A k \in 1 .. 6 : (A[k] = B[k]) <=> k >= m
    BY <1>1, <1>2
  <1> QED BY <1>4, <1>5 DEF A, B

Radio(d, f) == {Type(d, f[1]), Type(d, f[2])} \cap {"UE", "FOG"} # {}

\* The segments on the way up and on the way down.
Way(d, f) ==
  {<<Above(d, f[1])[k], "uplink">> : k \in {j \in 1 .. 6 : Climbs(d, f[1], Meet(d, f), j)}}
    \cup {<<Above(d, f[2])[k], "downlink">> : k \in {j \in 1 .. 6 : Climbs(d, f[2], Meet(d, f), j)}}

\* createPath takes the way through the tree.
LEMMA PathIsTheWay ==
  ASSUME NEW d \in Docs, NEW f \in Flows, Radio(d, f)
  PROVE  Path(d, f) = Way(d, f)
<1> DEFINE p == f[1]
           q == f[2]
           A == Above(d, p)
           B == Above(d, q)
           m == Meet(d, f)
           t == Type(d, p)
           u == Type(d, q)
<1>1. p \in Procs /\ q \in Procs
  BY FlowEnds
<1>2. m \in 2 .. 6 /\ \A k \in 1 .. 6 : A[k] = B[k] <=> k >= m
  BY MeetIs
<1>3. t \in {"UE", "FOG", "EDGE", "DC"} /\ u \in {"UE", "FOG", "EDGE", "DC"}
  BY <1>1, SegmentAssumption DEF SegmentAssumption, Type
<1>4. t \in {"UE", "FOG"} \/ u \in {"UE", "FOG"}
  BY DEF Radio
<1>5. /\ \A k \in 1 .. 6 : A[k] # NoName /\ B[k] # NoName
      /\ t = "DC" /\ u # "DC" => A[4] # B[4]
      /\ u = "DC" /\ t # "DC" => A[4] # B[4]
      /\ t = "EDGE" /\ u \in {"UE", "FOG"} => A[3] # B[3]
      /\ u = "EDGE" /\ t \in {"UE", "FOG"} => A[3] # B[3]
  BY <1>1, TreeAssumption DEF TreeAssumption
<1>6. /\ Node(d, p) = A[2] /\ Node(d, q) = B[2] /\ A[1] = p /\ B[1] = q
      /\ Poa(d, p) = (IF t \in {"UE", "FOG"} THEN A[3] ELSE NoName)
      /\ Poa(d, q) = (IF u \in {"UE", "FOG"} THEN B[3] ELSE NoName)
      /\ Zone(d, p) = (IF t = "DC" THEN NoName ELSE A[4])
      /\ Zone(d, q) = (IF u = "DC" THEN NoName ELSE B[4])
      /\ Domain(d, p) = A[5] /\ Domain(d, q) = B[5] /\ A[6] = Scenario /\ B[6] = Scenario
  BY DEF Node, Poa, Zone, Domain, Above
<1>7. /\ Same(d, f, Node) <=> m = 2
      /\ m # 2 => (Same(d, f, Poa) <=> m = 3)
      /\ m \notin {2, 3} => (Same(d, f, Zone) <=> m = 4)
      /\ Same(d, f, Domain) <=> m <= 5
  <2>1. Same(d, f, Node) <=> A[2] = B[2]
    BY <1>6 DEF Same
  <2>2. Same(d, f, Poa) <=> Poa(d, p) = Poa(d, q)
    BY DEF Same
  <2>3. Same(d, f, Zone) <=> Zone(d, p) = Zone(d, q)
    BY DEF Same
  <2>4. Same(d, f, Domain) <=> A[5] = B[5]
    BY <1>6 DEF Same
  <2> HIDE DEF p, q, A, B, m, t, u
  <2>5. /\ A[2] = B[2] <=> m <= 2
        /\ A[3] = B[3] <=> m <= 3
        /\ A[4] = B[4] <=> m <= 4
        /\ A[5] = B[5] <=> m <= 5
        /\ A[3] # NoName /\ B[3] # NoName /\ A[4] # NoName /\ B[4] # NoName
    BY <1>2, <1>5
  <2> QED BY <1>2, <1>3, <1>4, <1>5, <1>6, <2>1, <2>2, <2>3, <2>4, <2>5
<1> DEFINE Up(n, k)   == n = <<A[k], "uplink">>
           Down(n, k) == n = <<B[k], "downlink">>
<1>8. ASSUME NEW n
      PROVE  /\ n \in Ends(d, f) <=> Up(n, 1) \/ Down(n, 1) \/ Up(n, 2) \/ Down(n, 2)
             /\ n \in Hops(d, f, {"UE"}, Poa) <=> (t = "UE" /\ Up(n, 3)) \/ (u = "UE" /\ Down(n, 3))
             /\ n \in Hops(d, f, NotDC, Zone) <=> (t # "DC" /\ Up(n, 4)) \/ (u # "DC" /\ Down(n, 4))
             /\ n \in Hops(d, f, NotDC, Domain) <=> (t # "DC" /\ Up(n, 5)) \/ (u # "DC" /\ Down(n, 5))
             /\ n \in {Uplink(Scenario), Downlink(Scenario)} <=> Up(n, 6) \/ Down(n, 6)
  <2>1. n \in Ends(d, f) <=> Up(n, 1) \/ Down(n, 1) \/ Up(n, 2) \/ Down(n, 2)
    BY <1>6 DEF Ends, Uplink, Downlink
  <2>2. n \in Hops(d, f, {"UE"}, Poa) <=>
          (t \in {"UE"} /\ n = <<Poa(d, p), "uplink">>) \/ (u \in {"UE"} /\ n = <<Poa(d, q), "downlink">>)
    BY DEF Hops, Uplink, Downlink
  <2>3. n \in Hops(d, f, NotDC, Zone) <=>
          (t \in NotDC /\ n = <<Zone(d, p), "uplink">>) \/ (u \in NotDC /\ n = <<Zone(d, q), "downlink">>)
    BY DEF Hops, Uplink, Downlink
  <2>4. n \in Hops(d, f, NotDC, Domain) <=>
          (t \in NotDC /\ n = <<Domain(d, p), "uplink">>) \/ (u \in NotDC /\ n = <<Domain(d, q), "downlink">>)
    BY DEF Hops, Uplink, Downlink
  <2>5. n \in {Uplink(Scenario), Downlink(Scenario)} <=> Up(n, 6) \/ Down(n, 6)
    BY <1>6 DEF Uplink, Downlink
  <2> HIDE DEF p, q, A, B, t, u
  <2> QED BY <1>3, <1>6, <2>1, <2>2, <2>3, <2>4, <2>5 DEF NotDC
<1>9. ASSUME NEW n
      PROVE  n \in Path(d, f) <=>
               \E k \in 1 .. 6 : \/ Climbs(d, p, m, k) /\ Up(n, k)
                                 \/ Climbs(d, q, m, k) /\ Down(n, k)
  <2> DEFINE Level(k) == \/ Climbs(d, p, m, k) /\ Up(n, k)
                         \/ Climbs(d, q, m, k) /\ Down(n, k)
  <2>1. (\E k \in 1 .. 6 : Level(k)) <=> Level(1) \/ Level(2) \/ Level(3) \/ Level(4) \/ Level(5) \/ Level(6)
    <3> HIDE DEF Level
    <3> QED OBVIOUS
  <2>2. n \in Path(d, f) <=>
          \/ n \in Ends(d, f)
          \/ m # 2 /\ n \in Hops(d, f, {"UE"}, Poa)
          \/ m \notin {2, 3} /\ n \in Hops(d, f, NotDC, Zone)
          \/ m \notin {2, 3, 4} /\ n \in Hops(d, f, NotDC, Domain)
          \/ m = 6 /\ n \in {Uplink(Scenario), Downlink(Scenario)}
    <3> HIDE DEF m
    <3> QED BY <1>2, <1>7 DEF Path
  <2>3. /\ Level(1) <=> Up(n, 1) \/ Down(n, 1)
        /\ Level(2) <=> Up(n, 2) \/ Down(n, 2)
        /\ Level(3) <=> m >= 3 /\ ((t = "UE" /\ Up(n, 3)) \/ (u = "UE" /\ Down(n, 3)))
        /\ Level(4) <=> m >= 4 /\ ((t # "DC" /\ Up(n, 4)) \/ (u # "DC" /\ Down(n, 4)))
        /\ Level(5) <=> m >= 5 /\ ((t # "DC" /\ Up(n, 5)) \/ (u # "DC" /\ Down(n, 5)))
        /\ Level(6) <=> m >= 6 /\ (Up(n, 6) \/ Down(n, 6))
    <3> HIDE DEF m, A, B, p, q
    <3> QED BY <1>2 DEF Climbs
  <2>5. m \in 2 .. 6
    BY <1>2
  <2>6. n \in Path(d, f) <=> \E k \in 1 .. 6 : Level(k)
    <3> HIDE DEF Up, Down, Level, m, t, u
    <3> QED BY <1>8, <2>1, <2>2, <2>3, <2>5
  <2> QED BY <2>6
<1> QED BY <1>9 DEF Way

-----------------------------------------------------------------------------
\* What the levels of one lane add up to, those in T left out.
Share(d, p, top, dir, T, k) ==
  IF Climbs(d, p, top, k) /\ <<Above(d, p)[k], dir>> \notin T THEN Latency[Above(d, p)[k]] ELSE 0
Lane(d, p, top, dir, T) ==
  Share(d, p, top, dir, T, 1) + Share(d, p, top, dir, T, 2) + Share(d, p, top, dir, T, 3)
    + Share(d, p, top, dir, T, 4) + Share(d, p, top, dir, T, 5) + Share(d, p, top, dir, T, 6)

\* What has been added up for a flow when the segments in T are left.
Added(d, f, T) == Lane(d, f[1], Meet(d, f), "uplink", T) + Lane(d, f[2], Meet(d, f), "downlink", T)

\* What a lane has of one segment is a number.
LEMMA PartType ==
  ASSUME NEW d \in Docs, NEW p \in Procs, NEW top, NEW dir, NEW T, NEW k \in 1 .. 6
  PROVE  Share(d, p, top, dir, T, k) \in Nat
  BY TreeAssumption DEF TreeAssumption, Share

\* And so is the latency of a lane.
LEMMA LaneType ==
  ASSUME NEW d \in Docs, NEW p \in Procs, NEW top, NEW dir, NEW T
  PROVE  Lane(d, p, top, dir, T) \in Nat
<1>1. \A k \in 1 .. 6 : Share(d, p, top, dir, T, k) \in Nat
  BY PartType
<1> QED BY <1>1 DEF Lane

\* A segment that is visited adds its latency once to a lane it is on.
LEMMA LaneOn ==
  ASSUME NEW d \in Docs, NEW p \in Procs, NEW top, NEW dir, NEW T, NEW n, n \in T,
         NEW k \in 1 .. 6, Climbs(d, p, top, k), n = <<Above(d, p)[k], dir>>
  PROVE  Lane(d, p, top, dir, T \ {n}) = Lane(d, p, top, dir, T) + Latency[n[1]]
<1> DEFINE Before(j) == Share(d, p, top, dir, T, j)
           After(j) == Share(d, p, top, dir, T \ {n}, j)
<1>1. \A j \in 1 .. 6 : Before(j) \in Nat /\ After(j) \in Nat
  BY PartType
<1>2. \A j \in 1 .. 6 : j # k => Above(d, p)[j] # Above(d, p)[k]
  BY TreeAssumption DEF TreeAssumption
<1>3. \A j \in 1 .. 6 : j # k => After(j) = Before(j)
  BY <1>2 DEF Share
<1>4. Before(k) = 0 /\ After(k) = Latency[n[1]] /\ Latency[n[1]] \in Nat
  BY TreeAssumption DEF Share, TreeAssumption
<1>5. /\ Lane(d, p, top, dir, T) = Before(1) + Before(2) + Before(3) + Before(4) + Before(5) + Before(6)
      /\ Lane(d, p, top, dir, T \ {n}) = After(1) + After(2) + After(3) + After(4) + After(5) + After(6)
  BY DEF Lane
<1> HIDE DEF Before, After
<1> QED BY <1>1, <1>3, <1>4, <1>5

\* To another lane it adds nothing.
LEMMA LaneOff ==
  ASSUME NEW d, NEW p, NEW top, NEW dir, NEW T, NEW n,
         \A k \in 1 .. 6 : ~(Climbs(d, p, top, k) /\ n = <<Above(d, p)[k], dir>>)
  PROVE  Lane(d, p, top, dir, T \ {n}) = Lane(d, p, top, dir, T)
<1>1. \A j \in 1 .. 6 : Share(d, p, top, dir, T \ {n}, j) = Share(d, p, top, dir, T, j)
  BY DEF Share
<1> QED BY <1>1 DEF Lane

\* A visit adds the latency of the segment to the flows that cross it.
LEMMA AddedVisit ==
  ASSUME NEW d \in Docs, NEW f \in Flows, Radio(d, f), NEW T, NEW n, n \in T
  PROVE  Added(d, f, T \ {n}) = IF n \in Path(d, f) THEN Added(d, f, T) + Latency[n[1]] ELSE Added(d, f, T)
<1> DEFINE p == f[1]
           q == f[2]
           m == Meet(d, f)
           Up(k)   == Climbs(d, p, m, k) /\ n = <<Above(d, p)[k], "uplink">>
           Down(k) == Climbs(d, q, m, k) /\ n = <<Above(d, q)[k], "downlink">>
           up(S)   == Lane(d, p, m, "uplink", S)
           down(S) == Lane(d, q, m, "downlink", S)
<1>1. p \in Procs /\ q \in Procs
  BY FlowEnds
<1>2. n \in Path(d, f) <=> \E k \in 1 .. 6 : Up(k) \/ Down(k)
  BY PathIsTheWay DEF Way
<1>3. /\ up(T) \in Nat /\ up(T \ {n}) \in Nat /\ down(T) \in Nat /\ down(T \ {n}) \in Nat
      /\ Added(d, f, T) = up(T) + down(T) /\ Added(d, f, T \ {n}) = up(T \ {n}) + down(T \ {n})
  BY <1>1, LaneType DEF Added
<1>4. /\ (\E k \in 1 .. 6 : Up(k)) => up(T \ {n}) = up(T) + Latency[n[1]]
      /\ (\A k \in 1 .. 6 : ~Up(k)) => up(T \ {n}) = up(T)
  <2>1. ASSUME NEW k \in 1 .. 6, Climbs(d, p, m, k), n = <<Above(d, p)[k], "uplink">>
        PROVE  Lane(d, p, m, "uplink", T \ {n}) = Lane(d, p, m, "uplink", T) + Latency[n[1]]
    <3> HIDE DEF p, m
    <3> QED BY <1>1, <2>1, LaneOn
  <2>2. ASSUME \A k \in 1 .. 6 : ~(Climbs(d, p, m, k) /\ n = <<Above(d, p)[k], "uplink">>)
        PROVE  Lane(d, p, m, "uplink", T \ {n}) = Lane(d, p, m, "uplink", T)
    <3> HIDE DEF p, m
    <3> QED BY <1>1, <2>2, LaneOff
  <2> QED BY <2>1, <2>2
<1>5. /\ (\E k \in 1 .. 6 : Down(k)) => down(T \ {n}) = down(T) + Latency[n[1]]
      /\ (\A k \in 1 .. 6 : ~Down(k)) => down(T \ {n}) = down(T)
  <2>1. ASSUME NEW k \in 1 .. 6, Climbs(d, q, m, k), n = <<Above(d, q)[k], "downlink">>
        PROVE  Lane(d, q, m, "downlink", T \ {n}) = Lane(d, q, m, "downlink", T) + Latency[n[1]]
    <3> HIDE DEF q, m
    <3> QED BY <1>1, <2>1, LaneOn
  <2>2. ASSUME \A k \in 1 .. 6 : ~(Climbs(d, q, m, k) /\ n = <<Above(d, q)[k], "downlink">>)
        PROVE  Lane(d, q, m, "downlink", T \ {n}) = Lane(d, q, m, "downlink", T)
    <3> HIDE DEF q, m
    <3> QED BY <1>1, <2>2, LaneOff
  <2> QED BY <2>1, <2>2
<1>7. (\E k \in 1 .. 6 : Up(k) \/ Down(k)) => Latency[n[1]] \in Nat
  BY <1>1, TreeAssumption DEF TreeAssumption
<1>6. \A j, k \in 1 .. 6 : ~(Up(j) /\ Down(k))
  OBVIOUS
<1> HIDE DEF Up, Down, up, down
<1> QED BY <1>2, <1>3, <1>4, <1>5, <1>6, <1>7

\* It begins with nothing and ends with the way through the tree.
LEMMA AddedAll ==
  ASSUME NEW d \in Docs, NEW f \in Flows, Radio(d, f), NEW T, Path(d, f) \subseteq T
  PROVE  Added(d, f, {}) = EndToEnd(d, f) /\ Added(d, f, T) = 0
<1>1. ASSUME NEW p, NEW top, NEW dir
      PROVE  Lane(d, p, top, dir, {}) = Climb(d, p, top)
  BY DEF Lane, Share, Climb
<1>2. ASSUME NEW p, NEW dir,
             \A k \in 1 .. 6 : Climbs(d, p, Meet(d, f), k) => <<Above(d, p)[k], dir>> \in T
      PROVE  Lane(d, p, Meet(d, f), dir, T) = 0
  <2>1. \A k \in 1 .. 6 : Share(d, p, Meet(d, f), dir, T, k) = 0
    BY <1>2 DEF Share
  <2> QED BY <2>1 DEF Lane
<1>3. /\ \A k \in 1 .. 6 : Climbs(d, f[1], Meet(d, f), k) => <<Above(d, f[1])[k], "uplink">> \in T
      /\ \A k \in 1 .. 6 : Climbs(d, f[2], Meet(d, f), k) => <<Above(d, f[2])[k], "downlink">> \in T
  BY PathIsTheWay DEF Way
<1>4. Added(d, f, {}) = EndToEnd(d, f)
  BY <1>1 DEF Added, EndToEnd
<1>5. /\ Lane(d, f[1], Meet(d, f), "uplink", T) = 0
      /\ Lane(d, f[2], Meet(d, f), "downlink", T) = 0
  BY <1>2, <1>3
<1>6. Added(d, f, T) = 0
  BY <1>5 DEF Added
<1> QED BY <1>4, <1>6
-----------------------------------------------------------------------------
IsFlow(x) == x = [k \in DOMAIN NewFlow |-> x[k]]

FlowMapType == flowMap = [f \in Flows |-> flowMap[f]] /\ \A f \in Flows : IsFlow(flowMap[f])

\* The segments are those on the paths, each with the flows that cross it.
Crossed(d, segments) ==
  /\ DOMAIN segments = UNION {Path(d, f) : f \in Flows}
  /\ \A n \in DOMAIN segments : segments[n].name = n /\ segments[n].flows = {f \in Flows : n \in Path(d, f)}

MapsAgree ==
  doc # NoDoc => Crossed(doc, segmentMap) /\ \A f \in Flows : flowMap[f].path = Path(doc, f)

\* While a calculation runs it has added up what it has visited; the latency
\* that it ends with stays until the next one.
SumSoFar ==
  /\ busy => /\ doc # NoDoc /\ todo \subseteq DOMAIN segmentMap
             /\ \A f \in Flows : Radio(doc, f) => flowMap[f].computed = Added(doc, f, todo)
  /\ doc # NoDoc /\ ~busy => \A f \in Flows : Radio(doc, f) => flowMap[f].latency = Added(doc, f, {})

ShareInv ==
  /\ doc \in Docs \cup {NoDoc} /\ busy \in BOOLEAN
  /\ FlowMapType /\ MapsAgree /\ SumSoFar

\* What the helpers do to the fields of a flow.
LEMMA PopulatedIs ==
  ASSUME NEW d, NEW f, NEW x, IsFlow(x)
  PROVE  IsFlow(Populated(d, f, x)) /\ Populated(d, f, x).path = Path(d, f)
<1> DEFINE a == x.path # Path(d, f)
           b == Least(d.rate[f[1]], d.rate[f[2]])
           c == Path(d, f)
<1>1. Populated(d, f, x) = [x EXCEPT !.path = c, !.required = a, !.limit = b]
  BY DEF Populated
<1> HIDE DEF a, b, c
<1>2. IsFlow([x EXCEPT !.path = c, !.required = a, !.limit = b])
        /\ [x EXCEPT !.path = c, !.required = a, !.limit = b].path = c
  BY DEF IsFlow, NewFlow
<1> QED BY <1>1, <1>2 DEF c

\* A round that begins leaves the paths and their latencies, and computes anew.
LEMMA MeasuredIs ==
  ASSUME NEW fm, \A f \in Flows : IsFlow(fm[f])
  PROVE  /\ Measured(fm) = [f \in Flows |-> Measured(fm)[f]]
         /\ \A f \in Flows : /\ IsFlow(Measured(fm)[f]) /\ Measured(fm)[f].path = fm[f].path
                             /\ Measured(fm)[f].computed = 0
<1>2. ASSUME NEW f \in Flows
      PROVE  \E a : Measured(fm)[f] = [fm[f] EXCEPT !.current = a, !.most = Unplanned, !.computed = 0]
  BY DEF Measured
<1>3. Measured(fm) = [f \in Flows |-> Measured(fm)[f]]
  BY DEF Measured
<1>4. ASSUME NEW f \in Flows
      PROVE  IsFlow(Measured(fm)[f]) /\ Measured(fm)[f].path = fm[f].path /\ Measured(fm)[f].computed = 0
  <2>1. PICK a : Measured(fm)[f] = [fm[f] EXCEPT !.current = a, !.most = Unplanned, !.computed = 0]
    BY <1>2
  <2>2. IsFlow(fm[f])
    OBVIOUS
  <2> DEFINE x == fm[f]
             y == Measured(fm)[f]
  <2>3. y = [x EXCEPT !.current = a, !.most = Unplanned, !.computed = 0] /\ IsFlow(x)
    BY <2>1, <2>2
  <2> HIDE DEF x, y
  <2>4. IsFlow(y) /\ y.path = x.path /\ y.computed = 0
    BY <2>3 DEF IsFlow, NewFlow
  <2> QED BY <2>4 DEF x, y
<1> QED BY <1>3, <1>4

\* A segment that is visited adds its latency to the flows it lists.
LEMMA SegmentDoneIs ==
  ASSUME NEW s, NEW fm, \A f \in Flows : IsFlow(fm[f])
  PROVE  LET new == SegmentDone(s, fm)
         IN  /\ new = [f \in Flows |-> new[f]]
             /\ \A f \in Flows :
                  /\ IsFlow(new[f]) /\ new[f].path = fm[f].path /\ new[f].latency = fm[f].latency
                  /\ new[f].computed = IF f \in s.flows THEN fm[f].computed + Latency[s.name[1]]
                                                        ELSE fm[f].computed
<1> DEFINE new == SegmentDone(s, fm)
<1>2. ASSUME NEW f \in Flows
      PROVE  \E a, b : new[f] = [fm[f] EXCEPT !.planned = a, !.most = b, 
               !.computed = IF f \in s.flows THEN fm[f].computed + Latency[s.name[1]] ELSE fm[f].computed]
  <2> DEFINE share == FairShare(s, fm)
             again == {g \in s.flows : Reevaluate(share, fm[g])}
             plans == Planned(s, share, Unused(s, share, fm), fm, Listed(again))
  <2>1. new[f] = [fm[f] EXCEPT !.planned = plans[f],
                       !.most = IF f \in again /\ plans[f].bw < @.bw THEN plans[f] ELSE @,
                       !.computed = IF f \in s.flows THEN @ + Latency[s.name[1]] ELSE @]
    BY DEF SegmentDone
  <2> HIDE DEF again, plans, new, share
  <2>2. \E b : IF f \in again /\ plans[f].bw < fm[f].most.bw THEN b = plans[f] ELSE b = fm[f].most
    OBVIOUS
  <2>3. [fm[f] EXCEPT !.planned = plans[f],
                       !.most = IF f \in again /\ plans[f].bw < @.bw THEN plans[f] ELSE @,
                       !.computed = IF f \in s.flows THEN @ + Latency[s.name[1]] ELSE @]
          = [fm[f] EXCEPT !.planned = plans[f],
                       !.most = IF f \in again /\ plans[f].bw < fm[f].most.bw THEN plans[f] ELSE fm[f].most,
                       !.computed = IF f \in s.flows THEN fm[f].computed + Latency[s.name[1]] ELSE fm[f].computed]
    <3>1. IsFlow(fm[f])
      OBVIOUS
    <3> QED BY <3>1 DEF IsFlow, NewFlow
  <2> QED BY <2>1, <2>3
<1>3. new = [f \in Flows |-> new[f]]
  BY DEF SegmentDone
<1>4. ASSUME NEW f \in Flows
      PROVE  /\ IsFlow(new[f]) /\ new[f].path = fm[f].path /\ new[f].latency = fm[f].latency
             /\ new[f].computed = IF f \in s.flows THEN fm[f].computed + Latency[s.name[1]] ELSE fm[f].computed
  <2>1. PICK a, b : new[f] = [fm[f] EXCEPT !.planned = a, !.most = b, 
               !.computed = IF f \in s.flows THEN fm[f].computed + Latency[s.name[1]] ELSE fm[f].computed]
    BY <1>2
  <2> DEFINE x == fm[f]
             y == new[f]
             c == IF f \in s.flows THEN x.computed + Latency[s.name[1]] ELSE x.computed
  <2>2. y = [x EXCEPT !.planned = a, !.most = b, !.computed = c] /\ IsFlow(x)
    BY <2>1
  <2> HIDE DEF x, y, c
  <2>3. IsFlow(y) /\ y.path = x.path /\ y.latency = x.latency /\ y.computed = c
    BY <2>2 DEF IsFlow, NewFlow
  <2> QED BY <2>3 DEF x, y, c
<1> HIDE DEF new
<1>5. /\ new = [f \in Flows |-> new[f]]
      /\ \A f \in Flows :
                  /\ IsFlow(new[f]) /\ new[f].path = fm[f].path /\ new[f].latency = fm[f].latency
                  /\ new[f].computed = IF f \in s.flows THEN fm[f].computed + Latency[s.name[1]]
                                                        ELSE fm[f].computed
  BY <1>3, <1>4
<1> QED BY <1>5 DEF new

\* Apply gives the latency that was added up.
Applies(x, y) == IsFlow(y) /\ y.path = x.path /\ y.latency = x.computed /\ y.computed = x.computed
\* The end of a round gives every flow the latency that was computed.
LEMMA ApplyIs ==
  ASSUME FlowMapType, Apply
  PROVE  flowMap' = [f \in Flows |-> flowMap'[f]] /\ \A f \in Flows : Applies(flowMap[f], flowMap'[f])
<1> DEFINE Grants(x) == x.most.bw \notin {x.allocated, MAX_THROUGHPUT} /\ x.most.bw >= 0
           Applied(x) == [x EXCEPT !.latency = x.computed,
                                   !.allocated = IF Grants(x) THEN x.most.bw ELSE @,
                                   !.lo = IF Grants(x) THEN x.most.lo ELSE @,
                                   !.hi = IF Grants(x) THEN x.most.hi ELSE @]
<1>1. flowMap' = [f \in Flows |-> Applied(flowMap[f])]
  BY DEF Apply
<1>2. ASSUME NEW x, IsFlow(x) PROVE Applies(x, Applied(x))
  BY <1>2 DEF IsFlow, NewFlow, Applies
<1> HIDE DEF Applied
<1> QED BY <1>1, <1>2 DEF FlowMapType
-----------------------------------------------------------------------------
\* Nothing is deployed at first.
LEMMA InitShare == SaInit => ShareInv
<1> SUFFICES ASSUME SaInit PROVE ShareInv
  OBVIOUS
<1>1. doc = NoDoc /\ busy = FALSE /\ flowMap = [f \in Flows |-> NewFlow]
  BY DEF SaInit
<1>2. IsFlow(NewFlow)
  BY DEF IsFlow, NewFlow
<1>3. FlowMapType
  BY <1>1, <1>2 DEF FlowMapType
<1> QED BY <1>1, <1>3 DEF ShareInv, MapsAgree, SumSoFar

\* A scenario that is read makes the paths and the segments anew, and begins a
\* round.
LEMMA ScenarioUpdateShare ==
  ASSUME ShareInv, ScenarioUpdate PROVE ShareInv'
<1> DEFINE fm == [f \in Flows |-> Populated(doc', f, flowMap[f])]
<1>1. /\ doc' \in Docs /\ busy' = TRUE /\ flowMap' = Measured(fm)
      /\ segmentMap' = Segments(doc', fm) /\ todo' = DOMAIN segmentMap'
  BY DEF ScenarioUpdate
<1>2. doc' # NoDoc
  BY <1>1, SegmentAssumption DEF SegmentAssumption
<1>3. \A f \in Flows : IsFlow(fm[f]) /\ fm[f].path = Path(doc', f)
  BY PopulatedIs DEF ShareInv, FlowMapType
<1> HIDE DEF fm
<1>4. /\ flowMap' = [f \in Flows |-> flowMap'[f]]
      /\ \A f \in Flows : IsFlow(flowMap'[f]) /\ flowMap'[f].path = Path(doc', f) /\ flowMap'[f].computed = 0
  BY <1>1, <1>3, MeasuredIs
<1>5. Crossed(doc', segmentMap')
  <2>1. UNION {fm[f].path : f \in Flows} = UNION {Path(doc', f) : f \in Flows}
    BY <1>3
  <2>2. \A n : {f \in Flows : n \in fm[f].path} = {f \in Flows : n \in Path(doc', f)}
    BY <1>3
  <2>3. ASSUME NEW name, NEW rate, NEW flows
        PROVE  Segment(name, rate, flows).name = name /\ Segment(name, rate, flows).flows = flows
    BY DEF Segment
  <2>4. DOMAIN segmentMap' = UNION {fm[f].path : f \in Flows}
    BY <1>1 DEF Segments
  <2>5. \A n \in DOMAIN segmentMap' :
          segmentMap'[n] = Segment(n, doc'.rate[n[1]], {f \in Flows : n \in fm[f].path})
    BY <1>1, <2>4 DEF Segments
  <2>6. \A n \in DOMAIN segmentMap' :
          segmentMap'[n].name = n /\ segmentMap'[n].flows = {f \in Flows : n \in fm[f].path}
    <3> DEFINE Its(n) == {f \in Flows : n \in fm[f].path}
    <3>1. ASSUME NEW n \in DOMAIN segmentMap'
          PROVE  segmentMap'[n].name = n /\ segmentMap'[n].flows = Its(n)
      <4> DEFINE rate == doc'.rate[n[1]]
      <4>1. segmentMap'[n] = Segment(n, rate, Its(n))
        BY <2>5
      <4> HIDE DEF Its, rate
      <4> QED BY <2>3, <4>1
    <3> QED BY <3>1
  <2> QED BY <2>1, <2>2, <2>4, <2>6 DEF Crossed
<1>6. \A f \in Flows : Path(doc', f) \subseteq todo'
  BY <1>1, <1>5 DEF Crossed
<1>7. \A f \in Flows : Radio(doc', f) => flowMap'[f].computed = Added(doc', f, todo')
  BY <1>1, <1>4, <1>6, AddedAll
<1>8. FlowMapType'
  BY <1>4 DEF FlowMapType
<1>9. MapsAgree'
  BY <1>4, <1>5 DEF MapsAgree
<1>10. SumSoFar'
  BY <1>1, <1>2, <1>7 DEF SumSoFar
<1> QED BY <1>1, <1>8, <1>9, <1>10 DEF ShareInv

\* Without a scenario there is no path.
LEMMA TerminateShare ==
  ASSUME ShareInv, Terminate PROVE ShareInv'
<1>1. doc' = NoDoc /\ busy' = busy /\ ~busy /\ flowMap' = [f \in Flows |-> NewFlow]
  BY DEF Terminate
<1>2. IsFlow(NewFlow)
  BY DEF IsFlow, NewFlow
<1>3. FlowMapType'
  BY <1>1, <1>2 DEF FlowMapType
<1> QED BY <1>1, <1>3 DEF ShareInv, MapsAgree, SumSoFar

\* A round on the scenario of before.
LEMMA CalculateShare ==
  ASSUME ShareInv, CalculateNetChar PROVE ShareInv'
<1>1. /\ doc # NoDoc /\ doc' = doc /\ busy' = TRUE /\ flowMap' = Measured(flowMap)
      /\ segmentMap' = segmentMap /\ todo' = DOMAIN segmentMap
  BY DEF CalculateNetChar
<1>2. doc \in Docs /\ Crossed(doc, segmentMap) /\ \A f \in Flows : flowMap[f].path = Path(doc, f)
  BY <1>1 DEF ShareInv, MapsAgree
<1>3. /\ flowMap' = [f \in Flows |-> flowMap'[f]]
      /\ \A f \in Flows : IsFlow(flowMap'[f]) /\ flowMap'[f].path = Path(doc, f) /\ flowMap'[f].computed = 0
  BY <1>1, <1>2, MeasuredIs DEF ShareInv, FlowMapType
<1>4. \A f \in Flows : Path(doc, f) \subseteq todo'
  BY <1>1, <1>2 DEF Crossed
<1>5. \A f \in Flows : Radio(doc, f) => flowMap'[f].computed = Added(doc, f, todo')
  BY <1>2, <1>3, <1>4, AddedAll
<1>6. FlowMapType'
  BY <1>3 DEF FlowMapType
<1>7. MapsAgree'
  BY <1>1, <1>2, <1>3 DEF MapsAgree
<1>8. SumSoFar'
  BY <1>1, <1>5 DEF SumSoFar
<1> QED BY <1>1, <1>2, <1>6, <1>7, <1>8 DEF ShareInv

\* A visit moves a segment from those to do to those that are done.
LEMMA VisitShare ==
  ASSUME ShareInv, Visit PROVE ShareInv'
<1>1. PICK n \in todo : flowMap' = SegmentDone(segmentMap[n], flowMap) /\ todo' = todo \ {n}
  BY DEF Visit
<1>2. busy /\ doc' = doc /\ busy' = busy /\ segmentMap' = segmentMap
  BY DEF Visit
<1>3. /\ doc \in Docs /\ doc # NoDoc /\ todo \subseteq DOMAIN segmentMap /\ Crossed(doc, segmentMap)
      /\ \A f \in Flows : flowMap[f].path = Path(doc, f) /\ IsFlow(flowMap[f])
      /\ \A f \in Flows : Radio(doc, f) => flowMap[f].computed = Added(doc, f, todo)
  BY <1>2 DEF ShareInv, MapsAgree, SumSoFar, FlowMapType
<1>4. segmentMap[n].name = n /\ segmentMap[n].flows = {f \in Flows : n \in Path(doc, f)}
  BY <1>1, <1>3 DEF Crossed
<1>5. /\ flowMap' = [f \in Flows |-> flowMap'[f]]
      /\ \A f \in Flows : /\ IsFlow(flowMap'[f]) /\ flowMap'[f].path = Path(doc, f)
                          /\ flowMap'[f].computed = IF n \in Path(doc, f) THEN flowMap[f].computed + Latency[n[1]]
                                                                          ELSE flowMap[f].computed
  BY <1>1, <1>3, <1>4, SegmentDoneIs
<1>6. \A f \in Flows : Radio(doc, f) => flowMap'[f].computed = Added(doc, f, todo')
  BY <1>1, <1>3, <1>5, AddedVisit
<1>7. FlowMapType'
  BY <1>5 DEF FlowMapType
<1>8. MapsAgree'
  BY <1>2, <1>3, <1>5 DEF MapsAgree
<1>9. SumSoFar'
  BY <1>1, <1>2, <1>3, <1>6 DEF SumSoFar
<1> QED BY <1>2, <1>3, <1>7, <1>8, <1>9 DEF ShareInv

\* When all segments are done, the sum over those done is that of the path.
LEMMA ApplyShare ==
  ASSUME ShareInv, Apply PROVE ShareInv'
<1>1. busy /\ todo = {} /\ busy' = FALSE /\ doc' = doc /\ segmentMap' = segmentMap /\ todo' = todo
  BY DEF Apply
<1>2. /\ flowMap' = [f \in Flows |-> flowMap'[f]]
      /\ \A f \in Flows : Applies(flowMap[f], flowMap'[f])
  BY ApplyIs DEF ShareInv
<1>3. /\ doc \in Docs /\ doc # NoDoc /\ Crossed(doc, segmentMap)
      /\ \A f \in Flows : flowMap[f].path = Path(doc, f)
      /\ \A f \in Flows : Radio(doc, f) => flowMap[f].computed = Added(doc, f, {})
  BY <1>1 DEF ShareInv, MapsAgree, SumSoFar
<1>4. FlowMapType'
  BY <1>2 DEF FlowMapType, Applies
<1>5. MapsAgree'
  BY <1>1, <1>2, <1>3 DEF MapsAgree, Applies
<1>6. SumSoFar'
  BY <1>1, <1>2, <1>3 DEF SumSoFar, Applies
<1> QED BY <1>1, <1>3, <1>4, <1>5, <1>6 DEF ShareInv

\* Every step keeps the invariant.
LEMMA ShareStep == ShareInv /\ [SaNext]_saVars => ShareInv'
<1> SUFFICES ASSUME ShareInv, [SaNext]_saVars PROVE ShareInv'
  OBVIOUS
<1>1. ASSUME UNCHANGED <<doc, segmentMap, flowMap, todo, busy>> PROVE ShareInv'
  BY <1>1 DEF ShareInv, FlowMapType, MapsAgree, SumSoFar
<1>2. CASE Ask
  BY <1>1, <1>2 DEF Ask
<1>3. CASE NothingToShare \/ UNCHANGED saVars
  BY <1>1, <1>3 DEF NothingToShare, saVars
<1> QED BY <1>2, <1>3, ScenarioUpdateShare, TerminateShare, CalculateShare, VisitShare, ApplyShare DEF SaNext

\* What has been calculated is the way through the tree.
LEMMA ShareInvImplies == ShareInv => LatencyIsEndToEnd
<1> SUFFICES ASSUME ShareInv, doc # NoDoc, ~busy, NEW f \in Flows, Radio(doc, f)
             PROVE  flowMap[f].latency = EndToEnd(doc, f)
  BY DEF LatencyIsEndToEnd, Radio
<1>1. doc \in Docs /\ flowMap[f].latency = Added(doc, f, {})
  BY DEF ShareInv, SumSoFar
<1> QED BY <1>1, AddedAll

\* The paths and the segments are those of the tree, and a round has added up
\* what the segments that are done have.
THEOREM ShareInvariant == SaSpec => []ShareInv
  BY InitShare, ShareStep, PTL DEF SaSpec

\* In every order of the maps and of the visits, whatever moved before, the
\* latency that the segments add up is that of the way through the tree.
THEOREM LatencyFollowsTheTree == SaSpec => []LatencyIsEndToEnd
<1>1. ShareInv => LatencyIsEndToEnd
  BY ShareInvImplies
<1> QED BY <1>1, ShareInvariant, PTL
=============================================================================

------------------------------ MODULE Watchdog ------------------------------
(***************************************************************************)
(* The watchdog (meep-watchdog): it pings a peer over the global message   *)
(* queue every second and holds it for alive as long as the last ping that *)
(* was answered is not too old.                                            *)
(*                                                                         *)
(* Time passes in units; what code does between two waits takes less than  *)
(* one.  Ping sends its message and only then forgets the last answer, and *)
(* the handler of the queue stores answers at any time.                    *)
(***************************************************************************)
EXTENDS Naturals, Sequences

CONSTANTS
  Rate, Wait, Timeout,  \* in units: the ticker, the wait for a pong, pongTimeout
  MaxDelay,             \* bound: units a message may be under way
  MaxPings              \* bound

ASSUME WdAssumption ==
  /\ Rate \in Nat \ {0} /\ Wait \in Nat /\ Timeout \in Nat /\ MaxDelay \in Nat
  /\ MaxPings \in Nat

VARIABLES
  age,         \* units since pongTime
  toTick,      \* units until the ticker fires
  ticked,      \* a tick is in the channel
  task,        \* [at, n, waited]: n is the ping, told apart by its time
  pongMsg,     \* the ping that the last answer was for, 0 is none
  pings, pongs, \* messages under way: [n, old]
  peer,        \* the peer listens
  quiet,       \* history: units since the peer last answered
  smooth       \* history: every answer came within the unit of its ping, and
               \* none before Ping was ready for it

wdVars == <<age, toTick, ticked, task, pongMsg, pings, pongs, peer, quiet, smooth>>
net  == <<pings, pongs, peer, quiet, smooth>>

WdInit ==
  /\ age = 0 /\ toTick = Rate /\ ticked = FALSE
  /\ task = [at |-> "idle", n |-> 0, waited |-> 0]
  /\ pongMsg = 0 /\ pings = <<>> /\ pongs = <<>> /\ peer = TRUE /\ quiet = 0 /\ smooth = TRUE

\* Counters stop where nothing distinguishes them any more.
Later(x, most) == IF x > most THEN x ELSE x + 1
Older(ms) == [i \in DOMAIN ms |-> [ms[i] EXCEPT !.old = @ + 1]]
Young(ms) == \A i \in DOMAIN ms : ms[i].old < MaxDelay

Clock ==
  /\ task.at = "wait" => pongMsg = 0 /\ task.waited <= Wait
  /\ task.at # "sent" /\ ~(task.at = "idle" /\ (ticked \/ task.n = MaxPings))
  /\ Young(pings) /\ Young(pongs)
  /\ toTick' = IF toTick = 1 THEN Rate ELSE toTick - 1
  /\ ticked' = (ticked \/ toTick = 1)
  /\ age' = Later(age, Timeout) /\ quiet' = Later(quiet, Timeout + Wait + 1)
  /\ task' = [task EXCEPT !.waited = IF task.at = "wait" THEN @ + 1 ELSE @]
  /\ pings' = Older(pings) /\ pongs' = Older(pongs)
  /\ smooth' = (smooth /\ pings = <<>> /\ pongs = <<>>)
  /\ UNCHANGED <<pongMsg, peer>>
-----------------------------------------------------------------------------
(* watchdogTask and Ping.                                                  *)

Send ==
  /\ task.at = "idle" /\ ticked /\ task.n < MaxPings
  /\ ticked' = FALSE
  /\ task' = [at |-> "sent", n |-> task.n + 1, waited |-> 0]
  /\ pings' = Append(pings, [n |-> task.n + 1, old |-> 0])
  /\ UNCHANGED <<age, toTick, pongMsg, pongs, peer, quiet, smooth>>

Forget ==
  /\ task.at = "sent"
  /\ pongMsg' = 0 /\ task' = [task EXCEPT !.at = "wait"]
  /\ UNCHANGED <<age, toTick, ticked, net>>

\* Mutant: any answer counts.
AnsweredByAny ==
  /\ task.at = "wait" /\ pongMsg # 0
  /\ task' = [task EXCEPT !.at = "idle", !.waited = 0]
  /\ age' = 0
  /\ UNCHANGED <<toTick, ticked, pongMsg, net>>

\* The wait ends with any answer; only the one for this ping counts.
Answered ==
  /\ task.at = "wait" /\ pongMsg # 0
  /\ task' = [task EXCEPT !.at = "idle", !.waited = 0]
  /\ age' = IF pongMsg = task.n THEN 0 ELSE age
  /\ UNCHANGED <<toTick, ticked, pongMsg, net>>

\* Mutant: no wait.
GiveUpAtOnce ==
  /\ task.at = "wait" /\ pongMsg = 0
  /\ task' = [task EXCEPT !.at = "idle", !.waited = 0]
  /\ UNCHANGED <<age, toTick, ticked, pongMsg, net>>

GiveUp ==
  /\ task.at = "wait" /\ pongMsg = 0 /\ task.waited >= Wait
  /\ task' = [task EXCEPT !.at = "idle", !.waited = 0]
  /\ UNCHANGED <<age, toTick, ticked, pongMsg, net>>
-----------------------------------------------------------------------------
(* The queue, in order, and the handlers.                                  *)

PeerAnswers ==
  /\ pings # <<>> /\ peer
  /\ pings' = Tail(pings) /\ pongs' = Append(pongs, [n |-> Head(pings).n, old |-> 0])
  /\ quiet' = 0
  /\ UNCHANGED <<age, toTick, ticked, task, pongMsg, peer, smooth>>

\* The handler does not wait for Ping.
HandlePong ==
  /\ pongs # <<>>
  /\ smooth' = (smooth /\ task.at # "sent")
  /\ pongMsg' = Head(pongs).n /\ pongs' = Tail(pongs)
  /\ UNCHANGED <<age, toTick, ticked, task, pings, peer, quiet>>

LoseMessage ==
  /\ smooth' = FALSE
  /\ \/ pings # <<>> /\ pings' = Tail(pings) /\ UNCHANGED pongs
     \/ pongs # <<>> /\ pongs' = Tail(pongs) /\ UNCHANGED pings
  /\ UNCHANGED <<age, toTick, ticked, task, pongMsg, peer, quiet>>

PeerStopsOrStarts ==
  /\ peer' = ~peer /\ smooth' = FALSE
  /\ UNCHANGED <<age, toTick, ticked, task, pongMsg, pings, pongs, quiet>>

WdNext ==
  \/ Clock \/ Send \/ Forget \/ Answered \/ GiveUp
  \/ PeerAnswers \/ HandlePong \/ LoseMessage \/ PeerStopsOrStarts

WdSpec == WdInit /\ [][WdNext]_wdVars
-----------------------------------------------------------------------------
(* Properties.                                                             *)

\* Answers are for pings that were sent; a ping is waited for within bounds.
WdTypeOK ==
  /\ age \in Nat /\ quiet \in Nat
  /\ toTick \in 1 .. Rate /\ ticked \in BOOLEAN /\ peer \in BOOLEAN
  /\ task \in [at : {"idle", "sent", "wait"}, n : Nat, waited : 0 .. Wait + 1]
  /\ pongMsg \in 0 .. task.n
  /\ pings \in Seq([n : 1 .. task.n, old : 0 .. MaxDelay])
  /\ pongs \in Seq([n : 1 .. task.n, old : 0 .. MaxDelay])

IsAlive == age <= Timeout

\* A peer that has not answered for longer than the timeout and one wait is not
\* held for alive, however late earlier answers come in.
AliveHasAnswered == IsAlive => quiet <= Timeout + Wait + 1

\* Why it is so: an answer to the ping of now came after that ping was sent, and
\* the wait for it is bounded.
Fresh ==
  \/ task.at # "idle" /\ pongMsg = task.n
  \/ \E i \in DOMAIN pongs : pongs[i].n = task.n

Inductive ==
  /\ WdTypeOK
  /\ task.at = "idle" \/ (task.n > 0 /\ (Fresh => quiet <= task.waited))
  /\ IsAlive => quiet <= age + Wait + 1

\* A peer that has answered every ping promptly, but not before Ping was ready
\* for the answer, is held for alive.
PromptIsAlive == smooth => IsAlive
=============================================================================

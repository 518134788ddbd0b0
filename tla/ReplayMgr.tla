----------------------------- MODULE ReplayMgr ------------------------------
(***************************************************************************)
(* The replay manager of a sandbox controller (meep-replay-manager).       *)
(*                                                                         *)
(* A request to play a file sends the first event and leaves a goroutine   *)
(* that waits for a ticker; when it fires, the goroutine sends the next    *)
(* event and leaves another one.  One such succession is a chain here.     *)
(* Chains and requests share the fields of one ReplayMgr and no lock.      *)
(* An event goes to the controller in a request that takes time: a chain   *)
(* is cut there.                                                           *)
(***************************************************************************)
EXTENDS Naturals, Sequences, FiniteSets

CONSTANTS
  Chains,     \* bound: chains there may ever be at a time
  NoChain,
  Files,      \* name -> sequence of events [time, init]
  MaxStarts   \* bound on the requests to play

ASSUME RpAssumption ==
  /\ NoChain \notin Chains /\ MaxStarts \in Nat
  /\ \A f \in DOMAIN Files : Files[f] \in Seq([time : Nat, init : BOOLEAN])

VARIABLES
  isStarted, file, loop, ignoreInitEvent, nextEventIndex,
  ticker,     \* the chain that r.ticker was made by
  chain,      \* chain -> what it does
  crashed,    \* the process has ended
  starts,
  last,       \* history: the number of the event of this replay that ran last, or 0
  tangled     \* history: a request came while a chain was not waiting

mgr  == <<isStarted, file, loop, ignoreInitEvent, nextEventIndex, ticker>>
vars == <<mgr, chain, crashed, starts, last, tangled>>

\* of, index: the event in hand; from: what the chain was before it, "new" when it
\* runs in the goroutine of a request, where net/http recovers a panic.
Nothing == [at |-> "none", of |-> "", index |-> 0, from |-> "none", loop |-> FALSE, skip |-> FALSE]

Alive == {c \in Chains : chain[c].at \notin {"none", "new"}}
New   == {c \in Chains : chain[c].at = "new"}
Calm  == \A c \in Chains : chain[c].at \in {"none", "wait"}

\* Indexes count from 0, as in the code.
Events(f)   == Files[f]
Event(f, i) == Files[f][i + 1]
MaxIndex(f) == Len(Files[f]) - 1

Init ==
  /\ isStarted = FALSE /\ file \in DOMAIN Files /\ loop = FALSE /\ ignoreInitEvent = FALSE
  /\ nextEventIndex = 0 /\ ticker = NoChain
  /\ chain = [c \in Chains |-> Nothing]
  /\ crashed = FALSE /\ starts = 0 /\ last = 0 /\ tangled = FALSE

\* r.ticker.Stop(): the chain that waits for it waits for ever.  A tick that is
\* in the channel stays there.
Stopped == IF ticker # NoChain /\ chain[ticker].at = "wait"
           THEN [chain EXCEPT ![ticker] = Nothing] ELSE chain

\* A panic in a chain ends the process; in a request it ends the request.
Panic(c) ==
  /\ crashed' = (chain[c].from # "new")
  /\ chain' = [chain EXCEPT ![c] = Nothing]
-----------------------------------------------------------------------------
(* playEventByIndex.                                                       *)

\* Up to the request that sends the event: the event at i, or the next one if
\* that is an Init event to ignore.
Play(c, chains, f, i, skip) ==
  LET j == IF i <= MaxIndex(f) /\ Event(f, i).init /\ skip THEN i + 1 ELSE i
  IN  IF j > MaxIndex(f)
      THEN crashed' = (chain[c].at # "new") /\ chain' = [chains EXCEPT ![c] = Nothing]
      ELSE /\ chain' = [chains EXCEPT ![c] = [Nothing EXCEPT !.at = "send", !.of = f, !.index = j,
                                                             !.from = chain[c].at]]
           /\ UNCHANGED crashed

\* Mutant: the last event has one after it.
NextIndexEndless(i) == {i + 1}

\* After it: the index of the event to come, in the list of now.
NextIndex(i) == IF i # MaxIndex(file) THEN {i + 1} ELSE IF loop THEN {0} ELSE {}

\* NewTicker accepts no interval of 0 or less.
Interval(c, n) == n = 0 \/ Event(file, n).time > Event(chain[c].of, chain[c].index).time

\* Mutant: the manager stays started.
CompletedStaysStarted(c) ==
  /\ ~crashed /\ chain[c].at = "send" /\ NextIndex(chain[c].index) = {}
  /\ chain' = [chain EXCEPT ![c] = Nothing] /\ last' = chain[c].index + 1
  /\ UNCHANGED <<mgr, crashed, starts, tangled>>

Completed(c) ==
  /\ ~crashed /\ chain[c].at = "send" /\ NextIndex(chain[c].index) = {}
  /\ isStarted' = FALSE /\ chain' = [chain EXCEPT ![c] = Nothing]
  /\ last' = chain[c].index + 1
  /\ UNCHANGED <<file, loop, ignoreInitEvent, nextEventIndex, ticker, crashed, starts, tangled>>

Schedule(c) ==
  /\ ~crashed /\ chain[c].at = "send"
  /\ \E n \in NextIndex(chain[c].index) :
       IF n > MaxIndex(file) \/ ~Interval(c, n)
       THEN Panic(c) /\ UNCHANGED mgr
       ELSE /\ ticker' = c /\ nextEventIndex' = n
            /\ chain' = [chain EXCEPT ![c] = [Nothing EXCEPT !.at = "wait"]]
            /\ UNCHANGED <<isStarted, file, loop, ignoreInitEvent, crashed>>
  /\ last' = chain[c].index + 1
  /\ UNCHANGED <<starts, tangled>>

Tick(c) ==
  /\ ~crashed /\ chain[c].at = "wait" /\ chain' = [chain EXCEPT ![c].at = "due"]
  /\ UNCHANGED <<mgr, crashed, starts, last, tangled>>

\* Mutant: Init is ignored in the first event only.
DuePlaysInit(c) ==
  /\ ~crashed /\ chain[c].at = "due"
  /\ Play(c, Stopped, file, nextEventIndex, FALSE)
  /\ UNCHANGED <<mgr, starts, last, tangled>>

\* The goroutine stops r.ticker, whosever it is, and plays.
Due(c) ==
  /\ ~crashed /\ chain[c].at = "due"
  /\ Play(c, Stopped, file, nextEventIndex, ignoreInitEvent)
  /\ UNCHANGED <<mgr, starts, last, tangled>>
-----------------------------------------------------------------------------
(* Requests.                                                               *)

\* Start: the test, and what follows it.
Check(c, f, l, skip) ==
  /\ ~crashed /\ starts < MaxStarts /\ starts' = starts + 1
  /\ ~isStarted /\ Len(Events(f)) > 1
  /\ chain[c].at = "none"
  /\ chain' = [chain EXCEPT ![c] = [Nothing EXCEPT !.at = "new", !.of = f, !.loop = l, !.skip = skip]]
  /\ tangled' = (tangled \/ New # {})
  /\ UNCHANGED <<mgr, crashed, last>>

Start(c) ==
  /\ ~crashed /\ chain[c].at = "new"
  /\ isStarted' = TRUE /\ nextEventIndex' = 0 /\ file' = chain[c].of
  /\ loop' = chain[c].loop /\ ignoreInitEvent' = chain[c].skip
  /\ Play(c, chain, chain[c].of, 0, chain[c].skip)
  /\ last' = 0 /\ tangled' = (tangled \/ Alive # {})
  /\ UNCHANGED <<ticker, starts>>

\* Mutant: the ticker goes on.
StopKeepsTicker ==
  /\ ~crashed /\ isStarted /\ ticker # NoChain /\ isStarted' = FALSE
  /\ tangled' = (tangled \/ ~Calm)
  /\ UNCHANGED <<file, loop, ignoreInitEvent, nextEventIndex, ticker, chain, crashed, starts, last>>

\* Stop and ForceStop.  Without a ticker the request panics and changes nothing.
Stop ==
  /\ ~crashed /\ isStarted /\ ticker # NoChain
  /\ chain' = Stopped /\ isStarted' = FALSE
  /\ tangled' = (tangled \/ ~Calm)
  /\ UNCHANGED <<file, loop, ignoreInitEvent, nextEventIndex, ticker, crashed, starts, last>>

\* Nothing goes on any more, or nothing that a request could change: started,
\* without a ticker to stop.
Rest ==
  /\ crashed \/ (Alive \cup New = {} /\ (starts = MaxStarts \/ isStarted))
  /\ UNCHANGED vars

Progress(c) == Completed(c) \/ Schedule(c) \/ Tick(c) \/ Due(c) \/ Start(c)

Next ==
  \/ \E c \in Chains :
       \/ Progress(c)
       \/ \E f \in DOMAIN Files, l, skip \in BOOLEAN : Check(c, f, l, skip)
  \/ Stop \/ Rest

Spec == Init /\ [][Next]_vars

\* Goroutines run, requests are answered, tickers fire.
FairSpec == Spec /\ \A c \in Chains : WF_vars(Progress(c))
-----------------------------------------------------------------------------
(* Properties.                                                             *)

\* A file that cannot be played to its end: no ticker can be made between events
\* of the same time or out of order, and no event follows an Init that is last.
Unplayable(f) ==
  \E i \in 2 .. Len(Files[f]) :
    Files[f][i].time <= Files[f][i - 1].time \/ (i = Len(Files[f]) /\ Files[f][i].init)

\* One chain plays, and one plays when the manager says so, unless the file has
\* ended it.
OneReplay ==
  ~tangled => /\ Cardinality(Alive) <= 1
              /\ Alive # {} => isStarted
              /\ isStarted => Alive # {} \/ Unplayable(file)

\* Mutant: the event to come.
StatusIsNext == nextEventIndex

\* GetStatus: the index of the last ran event.
Status == IF nextEventIndex # 0 THEN nextEventIndex - 1 ELSE IF loop THEN MaxIndex(file) ELSE 0

\* While a chain plays the status names the event that ran last, once one has.
StatusIsLastRan == ~tangled /\ Alive # {} /\ last # 0 => Status = last - 1

\* The events run one after the other, none is left out or repeated, Init
\* excepted when it is to be ignored, and a loop starts again.
Following ==
  LET n == IF last = Len(Events(file)) THEN 0 ELSE last
  IN  IF Event(file, n).init /\ ignoreInitEvent THEN n + 1 ELSE n

RunInOrder ==
  [][\A c \in Chains : chain[c].at = "send" /\ chain'[c].at # "send" /\ ~tangled =>
        chain[c].index = Following]_vars

\* Only a request in the wrong moment or an unplayable file can end the process.
CrashIsExplained == crashed => tangled \/ Unplayable(file)

\* A replay that does not loop ends, even when a request in the wrong moment has
\* made two chains of it, unless the file ends it before.
Completes == isStarted /\ ~loop ~> ~isStarted \/ loop \/ crashed \/ Unplayable(file)
=============================================================================

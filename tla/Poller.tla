-------------------------------- MODULE Poller --------------------------------
(***************************************************************************)
(* The departure poller (internal/runtime/poller.go, classify.go) under    *)
(* its watchdog: one goroutine that fetches, publishes a snapshot, beats   *)
(* and waits, while the feed fails and recovers, the connectivity manager  *)
(* pokes it, and a component may hang. Time is discrete and every bound of *)
(* the code is a constant.                                                 *)
(***************************************************************************)
EXTENDS Watchdog, Sequences

CONSTANTS
  Interval,           \* the configured RefreshSeconds
  CallTimeout,        \* of one HTTP call: the board, then the headcodes
  StaleGrace,
  ErrorBackoffSteps,  \* the delays after 1, 2, ... consecutive failures
  AgeBound            \* ages are counted up to here

ASSUME PollerAssumption ==
  /\ Interval \in Nat \ {0} /\ CallTimeout \in Nat \ {0}
  /\ StaleGrace \in Nat \ {0}
  /\ ErrorBackoffSteps \in Seq(Nat \ {0}) /\ ErrorBackoffSteps # <<>>
  /\ \A i, j \in DOMAIN ErrorBackoffSteps :
       i < j => ErrorBackoffSteps[i] <= ErrorBackoffSteps[j]
  /\ AgeBound \in Nat /\ AgeBound > StaleGrace + Interval + 3 * CallTimeout

\* pollerBeatDeadlineExtra covers the two calls of a fetch.
ASSUME DeadlineAssumption ==
  /\ "poller" \in Component
  /\ Deadline["poller"] >= Interval + 2 * CallTimeout

VARIABLES
  pc,        \* "fetching", "enriching" (headcodes) or "waiting"
  spent,     \* time in the present call or wait
  snap,      \* the published snapshot
  failures,  \* consecutive polls that left the snapshot in StateError
  poke,      \* the buffered poke channel
  wedged,    \* components that have stopped for good
  goodFor,   \* time the feed has been up in this process; -1 while it is not
  unheard,   \* history: time since the oldest poke no fetch has begun after
  spoilt     \* history: since the last board the clock was found wrong

pollVars == <<pc, spent, snap, failures, poke>>
history  == <<unheard, spoilt>>
vars     == <<pollVars, wdVars, wedged, goodFor, history>>

Never == -1
Lesser(a, b) == IF a < b THEN a ELSE b
Aged(n) == Lesser(n + 1, AgeBound)
AgedIf(n) == IF n = Never THEN Never ELSE Aged(n)

(***************************************************************************)
(* A snapshot: what it says, how long ago FetchedAt was, and how long ago  *)
(* the feed gave the board it carries. StateDepartures and StateNoServices *)
(* are both "live". Before the first poll there is none.                   *)
(***************************************************************************)
Age == Nat \cup {Never}
Snapshot == [state : {"none", "live", "clock", "error"}, age : Age, data : Age]
Blank == [state |-> "none", age |-> Never, data |-> Never]

\* Mutant: the last step of the table is never left, nor capped.
NextDelayUncapped(n) ==
  IF n = 0 THEN Interval ELSE Interval + ErrorBackoffSteps[Lesser(n, Len(ErrorBackoffSteps))]

NextDelay(n) ==
  IF n = 0 THEN Interval
  ELSE Lesser(ErrorBackoffSteps[Lesser(n, Len(ErrorBackoffSteps))], Interval)

\* Mutant: good data is kept however old it is.
ClassifiedForgiving(outcome, age) ==
  IF outcome = "good" THEN [state |-> "live", age |-> 0, data |-> age]
  ELSE IF outcome = "bad" /\ snap.state = "live" THEN snap
  ELSE [snap EXCEPT !.state = IF outcome = "clock" THEN "clock" ELSE "error"]

\* Mutant: good data gets no grace.
ClassifiedStrict(outcome, age) ==
  IF outcome = "good" THEN [state |-> "live", age |-> 0, data |-> age]
  ELSE [snap EXCEPT !.state = IF outcome = "clock" THEN "clock" ELSE "error"]

\* Classify: a board now in hand is age old.
Classified(outcome, age) ==
  IF outcome = "good" THEN [state |-> "live", age |-> 0, data |-> age]
  ELSE IF outcome = "bad" /\ snap.state = "live" /\ snap.age < StaleGrace THEN snap
  ELSE [snap EXCEPT !.state = IF outcome = "clock" THEN "clock" ELSE "error"]

-----------------------------------------------------------------------------
Init ==
  /\ pc = "fetching" /\ spent = 0
  /\ snap = Blank /\ failures = 0 /\ poke = FALSE
  /\ wedged = {} /\ goodFor \in {Never, 0}
  /\ unheard = Never /\ spoilt = FALSE
  /\ WDInit

BeginFetch == pc' = "fetching" /\ spent' = 0 /\ unheard' = Never

\* The streak is counted as far as it makes a difference to NextDelay.
Counted(next) == IF next.state = "error" THEN Lesser(failures + 1, Len(ErrorBackoffSteps))
                 ELSE 0

\* Mutant: the loop beats only after a poll that did not fail.
AfterPollQuiet(outcome, age) ==
  /\ snap' = Classified(outcome, age)
  /\ failures' = Counted(snap')
  /\ beatAge' = [beatAge EXCEPT !["poller"] = IF outcome = "bad" THEN @ ELSE 0]
  /\ spoilt' = (outcome = "clock" \/ (spoilt /\ outcome # "good"))
  /\ pc' = "waiting" /\ spent' = 0
  /\ UNCHANGED <<poke, wedged, goodFor, unheard, tickIn, petAge>>

\* The rest of pollOnce and the head of Run's loop: publish, count, beat,
\* start a new timer.
AfterPoll(outcome, age) ==
  /\ snap' = Classified(outcome, age)
  /\ failures' = Counted(snap')
  /\ beatAge' = [beatAge EXCEPT !["poller"] = 0]
  /\ spoilt' = (outcome = "clock" \/ (spoilt /\ outcome # "good"))
  /\ pc' = "waiting" /\ spent' = 0
  /\ UNCHANGED <<poke, wedged, goodFor, unheard, tickIn, petAge>>

\* The feed answers in time when it has been up for the whole call.
MustSucceed == goodFor >= spent

\* Fetch: the board's call fails. An expired certificate is a wrong clock.
FetchFails ==
  /\ pc = "fetching" /\ "poller" \notin wedged /\ ~MustSucceed
  /\ \E outcome \in {"clock", "bad"} : AfterPoll(outcome, 0)

FetchSucceeds ==
  /\ pc = "fetching" /\ "poller" \notin wedged /\ goodFor # Never
  /\ AfterPoll("good", 0)

\* With headcodes, a second call follows: whether it fails or not, however
\* long it takes, the board is used.
EnrichBegins ==
  /\ pc = "fetching" /\ "poller" \notin wedged /\ goodFor # Never
  /\ pc' = "enriching" /\ spent' = 0
  /\ UNCHANGED <<snap, failures, poke, wedged, goodFor, history, wdVars>>

EnrichEnds ==
  /\ pc = "enriching" /\ "poller" \notin wedged
  /\ AfterPoll("good", spent)

TimerFires ==
  /\ pc = "waiting" /\ "poller" \notin wedged /\ spent = NextDelay(failures)
  /\ BeginFetch
  /\ UNCHANGED <<snap, failures, poke, wedged, goodFor, spoilt, wdVars>>

PokeReceived ==
  /\ pc = "waiting" /\ "poller" \notin wedged /\ poke
  /\ poke' = FALSE
  /\ BeginFetch
  /\ UNCHANGED <<snap, failures, wedged, goodFor, spoilt, wdVars>>

\* Mutant: the channel has no buffer, a poke that nobody waits for is lost.
PokeUnbuffered ==
  /\ poke' = (pc = "waiting")
  /\ unheard' = IF unheard = Never THEN 0 ELSE unheard
  /\ UNCHANGED <<pc, spent, snap, failures, wedged, goodFor, spoilt, wdVars>>

\* Poke never blocks: a poke already in the channel stands for this one too.
Poke ==
  /\ poke' = TRUE
  /\ unheard' = IF unheard = Never THEN 0 ELSE unheard
  /\ UNCHANGED <<pc, spent, snap, failures, wedged, goodFor, spoilt, wdVars>>

-----------------------------------------------------------------------------
(***************************************************************************)
(* The surroundings.                                                       *)
(***************************************************************************)
FeedMoves ==
  /\ goodFor' = IF goodFor = Never THEN 0 ELSE Never
  /\ UNCHANGED <<pollVars, wedged, history, wdVars>>

\* One component hangs; the poller does inside a call.
Wedge(c) ==
  /\ wedged = {} /\ (c = "poller" => pc # "waiting")
  /\ wedged' = {c}
  /\ UNCHANGED <<pollVars, goodFor, unheard, spoilt, wdVars>>

\* The process ends and systemd starts it again: killed because nobody has
\* petted, or for a reason of its own. Nothing of the poller survives.
Restarted ==
  /\ pc' = "fetching" /\ spent' = 0
  /\ snap' = Blank /\ failures' = 0 /\ poke' = FALSE
  /\ wedged' = {} /\ unheard' = Never /\ spoilt' = FALSE
  /\ WDRestart
  /\ goodFor' = Lesser(goodFor, 0)

Killed == petAge = WatchdogSec /\ Restarted
Exit == pc = "waiting" /\ "poller" \notin wedged /\ Restarted

\* Calls time out, timers fire, the ticker ticks: time does not pass them.
Urgent ==
  /\ "poller" \notin wedged
  /\ \/ pc \in {"fetching", "enriching"} /\ spent = CallTimeout
     \/ pc = "waiting" /\ (poke \/ spent = NextDelay(failures))

\* Whoever is not wedged and not the poller beats all the time.
BeatAges ==
  [c \in Component |-> IF c # "poller" /\ c \notin wedged THEN 0 ELSE beatAge[c] + 1]

Tick ==
  /\ ~Urgent /\ WDMayPass /\ WDPass
  /\ spent' = IF "poller" \in wedged THEN spent ELSE spent + 1
  /\ snap' = [state |-> snap.state, age |-> AgedIf(snap.age), data |-> AgedIf(snap.data)]
  /\ beatAge' = BeatAges
  /\ goodFor' = AgedIf(goodFor)
  /\ unheard' = AgedIf(unheard)
  /\ UNCHANGED <<pc, failures, poke, wedged, spoilt>>

Pet == PetTick /\ UNCHANGED <<pollVars, wedged, goodFor, history>>

PollerStep == FetchFails \/ FetchSucceeds \/ EnrichBegins \/ EnrichEnds
              \/ TimerFires \/ PokeReceived

Next == PollerStep \/ Poke \/ FeedMoves \/ (\E c \in Component : Wedge(c))
        \/ Pet \/ Killed \/ Exit \/ Tick

Spec == Init /\ [][Next]_vars
-----------------------------------------------------------------------------
TypeOK ==
  /\ pc \in {"fetching", "enriching", "waiting"}
  /\ spent \in Nat /\ snap \in Snapshot
  /\ failures \in 0 .. Len(ErrorBackoffSteps) /\ poke \in BOOLEAN
  /\ wedged \subseteq Component /\ goodFor \in Age
  /\ unheard \in Age
  /\ spoilt \in BOOLEAN
  /\ WDTypeOK

Unwedged == "poller" \notin wedged

\* How old the departures on the board can get: the grace is only asked for
\* at a poll, a poll is a whole interval and a failing call after the one
\* before, and a board is a headcode call older than its FetchedAt.
BoardAge ==
  Unwedged /\ snap.state = "live" => snap.data < StaleGrace + Interval + 3 * CallTimeout

\* The error scene is earned: departures are given up only when none have
\* been fetched for the whole grace, unless the clock was found wrong.
ErrorEarned ==
  snap.state = "error" => spoilt \/ snap.age = Never \/ snap.age >= StaleGrace

\* A poke that arrives at any time, in the middle of a fetch that began
\* before the network was there too, is followed by a fetch that begins
\* after it, as soon as the poll in flight is over.
PokeHeard == Unwedged => unheard <= 2 * CallTimeout

\* A feed that is back is on the board within one poll in flight, one wait
\* and one fetch; from the error scene the wait is the short one.
LongestBackoff == Lesser(ErrorBackoffSteps[Len(ErrorBackoffSteps)], Interval)

BackInTime ==
  Unwedged =>
    /\ goodFor > 3 * CallTimeout + LongestBackoff => snap.state # "error"
    /\ goodFor > 3 * CallTimeout + Interval => snap.state = "live"

\* systemd is denied its pet only for a component that has really stopped:
\* the longest poll of a failing feed is inside the poller's deadline.
NoNeedlessKill == petAge > PetInterval => wedged # {}

\* A component that stops takes the process down in bounded time, however
\* lively the others are: none is ever silent for longer than this.
WedgeEnds == \A c \in Component : beatAge[c] <= Deadline[c] + WatchdogSec
=============================================================================

----------------------------- MODULE PollerProofs -----------------------------
(***************************************************************************)
(* Theorems about the poller, for every interval, timeout, grace, backoff  *)
(* table and set of watched components the assumptions allow.              *)
(***************************************************************************)
EXTENDS Poller, TLAPS

USE DEF Never, Age, Snapshot

LEMMA Sizes ==
  /\ Interval \in Nat \ {0} /\ CallTimeout \in Nat \ {0} /\ StaleGrace \in Nat \ {0}
  /\ AgeBound \in Nat /\ AgeBound > StaleGrace + Interval + 3 * CallTimeout
  /\ PetInterval \in Nat \ {0} /\ WatchdogSec \in Nat /\ PetInterval < WatchdogSec
BY PollerAssumption, WatchdogAssumption

\* The steps of the backoff table, its length and its greatest entry.
LEMMA Table ==
  /\ Len(ErrorBackoffSteps) \in Nat \ {0}
  /\ \A i \in 1 .. Len(ErrorBackoffSteps) :
       /\ ErrorBackoffSteps[i] \in Nat \ {0}
       /\ ErrorBackoffSteps[i] <= ErrorBackoffSteps[Len(ErrorBackoffSteps)]
<1>1. Len(ErrorBackoffSteps) \in Nat \ {0}
  BY PollerAssumption
<1>2. ASSUME NEW i \in 1 .. Len(ErrorBackoffSteps)
      PROVE  /\ ErrorBackoffSteps[i] \in Nat \ {0}
             /\ ErrorBackoffSteps[i] <= ErrorBackoffSteps[Len(ErrorBackoffSteps)]
  <2>1. DOMAIN ErrorBackoffSteps = 1 .. Len(ErrorBackoffSteps)
    BY PollerAssumption
  <2>2. \A j \in 1 .. Len(ErrorBackoffSteps) : ErrorBackoffSteps[j] \in Nat \ {0}
    BY PollerAssumption, <2>1
  <2>3. CASE i = Len(ErrorBackoffSteps)
    BY <2>2, <2>3
  <2>4. CASE i < Len(ErrorBackoffSteps)
    <3>1. Len(ErrorBackoffSteps) \in DOMAIN ErrorBackoffSteps
      BY <1>1, <2>1
    <3>2. ErrorBackoffSteps[i] <= ErrorBackoffSteps[Len(ErrorBackoffSteps)]
      BY <2>1, <2>4, <3>1, PollerAssumption
    <3> QED BY <2>2, <3>2
  <2> QED BY <1>1, <2>3, <2>4
<1> QED BY <1>1, <1>2

\* No wait is longer than the interval, nor, after a failure, than the
\* longest backoff.
LEMMA Delays ==
  /\ LongestBackoff \in Nat /\ LongestBackoff <= Interval
  /\ \A n \in 0 .. Len(ErrorBackoffSteps) :
       /\ NextDelay(n) \in Nat \ {0} /\ NextDelay(n) <= Interval
       /\ n # 0 => NextDelay(n) <= LongestBackoff
<1>1. LongestBackoff \in Nat /\ LongestBackoff <= Interval
  BY Sizes, Table DEF LongestBackoff, Lesser
<1>2. ASSUME NEW n \in 0 .. Len(ErrorBackoffSteps), n # 0
      PROVE  NextDelay(n) = Lesser(ErrorBackoffSteps[n], Interval)
  BY <1>2, Table DEF NextDelay, Lesser
<1>3. ASSUME NEW n \in 0 .. Len(ErrorBackoffSteps)
      PROVE  /\ NextDelay(n) \in Nat \ {0} /\ NextDelay(n) <= Interval
             /\ n # 0 => NextDelay(n) <= LongestBackoff
  <2>1. CASE n = 0
    BY <2>1, Sizes DEF NextDelay
  <2>2. CASE n # 0
    BY <2>2, <1>2, Sizes, Table DEF LongestBackoff, Lesser
  <2> QED BY <2>1, <2>2
<1> QED BY <1>1, <1>3

LEMMA Ageing ==
  ASSUME NEW n \in Age
  PROVE  /\ AgedIf(n) \in Age /\ AgedIf(n) <= n + 1
         /\ (AgedIf(n) = Never) <=> (n = Never)
         /\ n < AgeBound => AgedIf(n) >= n
         /\ n # Never /\ n >= StaleGrace => AgedIf(n) >= StaleGrace
BY Sizes DEF AgedIf, Aged, Lesser

-----------------------------------------------------------------------------
(***************************************************************************)
(* Types.                                                                  *)
(***************************************************************************)
LEMMA Blanks ==
  /\ Blank \in Snapshot /\ Blank.state = "none" /\ Blank.age = Never
  /\ [c \in Component |-> 0] \in [Component -> Nat]
BY DEF Blank

LEMMA TypeInit == ASSUME Init PROVE TypeOK
<1>0. snap \in Snapshot
  <2>1. snap = Blank
    BY DEF Init
  <2> QED BY <2>1, Blanks
<1>4. goodFor \in Age
  BY DEF Init
<1>1. /\ unheard \in Age /\ pc = "fetching" /\ spent \in Nat /\ poke \in BOOLEAN /\ spoilt \in BOOLEAN
      /\ wedged \subseteq Component
  BY DEF Init
<1>2. failures \in 0 .. Len(ErrorBackoffSteps)
  BY Table DEF Init
<1>3. WDTypeOK
  BY Blanks, Sizes DEF Init, WDInit, WDTypeOK
<1> QED BY <1>0, <1>1, <1>2, <1>3, <1>4 DEF TypeOK

LEMMA ClassifiedType ==
  ASSUME TypeOK, NEW outcome \in {"good", "clock", "bad"}, NEW age \in Nat
  PROVE  Classified(outcome, age) \in Snapshot
BY DEF TypeOK, Classified

LEMMA AfterPollType ==
  ASSUME TypeOK, NEW outcome \in {"good", "clock", "bad"}, NEW age \in Nat,
         AfterPoll(outcome, age)
  PROVE  TypeOK'
<1>1. snap' \in Snapshot
  BY ClassifiedType DEF AfterPoll
<1>2. failures' \in 0 .. Len(ErrorBackoffSteps)
  BY Table DEF AfterPoll, Counted, Lesser, TypeOK
<1>3. beatAge' \in [Component -> Nat]
  BY DEF AfterPoll, TypeOK, WDTypeOK
<1>4. spoilt' \in BOOLEAN
  BY DEF AfterPoll, TypeOK
<1> QED BY <1>1, <1>2, <1>3, <1>4 DEF AfterPoll, TypeOK, WDTypeOK

LEMMA RestartedType == ASSUME TypeOK, Restarted PROVE TypeOK'
<1>1. goodFor' \in Age
  BY DEF Restarted, TypeOK, Lesser
<1>2. /\ snap' \in Snapshot /\ unheard' \in Age /\ pc' = "fetching" /\ spent' \in Nat
      /\ poke' \in BOOLEAN /\ spoilt' \in BOOLEAN /\ wedged' \subseteq Component
  BY Blanks DEF Restarted
<1>3. failures' \in 0 .. Len(ErrorBackoffSteps)
  BY Table DEF Restarted
<1>4. WDTypeOK'
  BY Blanks, Sizes DEF Restarted, WDRestart, WDTypeOK
<1> QED BY <1>1, <1>2, <1>3, <1>4 DEF TypeOK

LEMMA TickType == ASSUME TypeOK, Tick PROVE TypeOK'
<1>1. spent' \in Nat
  BY DEF Tick, TypeOK
<1>2. snap' \in Snapshot
  BY Ageing DEF Tick, TypeOK
<1>3. goodFor' \in Age /\ unheard' \in Age
  BY Ageing DEF Tick, TypeOK
<1>4. beatAge' \in [Component -> Nat]
  BY DEF Tick, BeatAges, TypeOK, WDTypeOK
<1>5. tickIn' \in 0 .. PetInterval /\ petAge' \in 0 .. WatchdogSec
  BY Sizes DEF Tick, WDMayPass, WDPass, TypeOK, WDTypeOK
<1> QED BY <1>1, <1>2, <1>3, <1>4, <1>5 DEF Tick, TypeOK, WDTypeOK

LEMMA TypeStep == ASSUME TypeOK, [Next]_vars PROVE TypeOK'
<1>1. CASE FetchFails
  BY <1>1, AfterPollType DEF FetchFails
<1>2. CASE FetchSucceeds
  BY <1>2, AfterPollType DEF FetchSucceeds
<1>3. CASE EnrichBegins
  BY <1>3 DEF EnrichBegins, TypeOK, WDTypeOK, history, wdVars
<1>4. CASE EnrichEnds
  BY <1>4, AfterPollType DEF EnrichEnds, TypeOK
<1>5. CASE TimerFires
  BY <1>5 DEF TimerFires, BeginFetch, TypeOK, WDTypeOK, wdVars
<1>6. CASE PokeReceived
  BY <1>6 DEF PokeReceived, BeginFetch, TypeOK, WDTypeOK, wdVars
<1>7. CASE Poke
  BY <1>7 DEF Poke, TypeOK, WDTypeOK, wdVars
<1>8. CASE FeedMoves
  BY <1>8 DEF FeedMoves, TypeOK, WDTypeOK, pollVars, history, wdVars
<1>9. CASE \E c \in Component : Wedge(c)
  BY <1>9 DEF Wedge, TypeOK, WDTypeOK, pollVars, wdVars
<1>10. CASE Pet
  BY <1>10, Sizes DEF Pet, PetTick, TypeOK, WDTypeOK, pollVars, history
<1>11. CASE Killed \/ Exit
  BY <1>11, RestartedType DEF Killed, Exit
<1>12. CASE Tick
  BY <1>12, TickType
<1>13. CASE UNCHANGED vars
  BY <1>13 DEF vars, TypeOK, WDTypeOK, pollVars, history, wdVars
<1> QED
  BY <1>1, <1>2, <1>3, <1>4, <1>5, <1>6, <1>7, <1>8, <1>9, <1>10, <1>11, <1>12, <1>13
  DEF Next, PollerStep

\* Type correctness, for every value of the constants.
THEOREM TypeCorrect == Spec => []TypeOK
<1>1. Init => TypeOK
  BY TypeInit
<1>2. TypeOK /\ [Next]_vars => TypeOK'
  BY TypeStep
<1> QED BY <1>1, <1>2, PTL DEF Spec

-----------------------------------------------------------------------------
(***************************************************************************)
(* The inductive invariant: how far every clock can be at each place of    *)
(* the loop.                                                               *)
(***************************************************************************)
\* Calls end at their timeout and waits at their delay.
SpentInv == Unwedged => spent <= (IF pc = "waiting" THEN NextDelay(failures) ELSE CallTimeout)

CountInv == failures = 0 <=> snap.state # "error"

\* What is on the board, and since when.
BoardInv ==
  Unwedged /\ snap.state = "live" =>
    /\ snap.data <= snap.age + CallTimeout
    /\ pc = "waiting"   => snap.age < StaleGrace + spent
    /\ pc = "fetching"  => snap.age < StaleGrace + Interval + spent
    /\ pc = "enriching" => snap.age < StaleGrace + Interval + CallTimeout + spent

EarnedInv ==
  /\ snap.age = Never <=> snap.data = Never
  /\ snap.state = "none"  => snap.age = Never
  /\ snap.state = "live"  => snap.age # Never /\ ~spoilt
  /\ snap.state = "clock" => spoilt
  /\ snap.state = "error" => spoilt \/ snap.age = Never \/ snap.age >= StaleGrace

PokeInv ==
  Unwedged /\ unheard # Never =>
    /\ poke
    /\ pc = "fetching"  => unheard <= spent
    /\ pc = "enriching" => unheard <= CallTimeout + spent
    /\ pc = "waiting"   => unheard <= 2 * CallTimeout

WaitBound == IF snap.state = "error" THEN LongestBackoff ELSE Interval

\* While the feed is up, a board that is not live is one poll behind.
FeedInv ==
  Unwedged /\ snap.state # "live" =>
    /\ pc = "waiting"   => goodFor < CallTimeout + spent
    /\ pc = "fetching"  => goodFor < CallTimeout + WaitBound + spent
    /\ pc = "enriching" => goodFor < 2 * CallTimeout + WaitBound + spent

BeatInv ==
  Unwedged =>
    /\ pc = "waiting"   => beatAge["poller"] <= spent
    /\ pc = "fetching"  => beatAge["poller"] <= Interval + spent
    /\ pc = "enriching" => beatAge["poller"] <= Interval + CallTimeout + spent

PetInv ==
  /\ \A c \in Component : c # "poller" /\ c \notin wedged => beatAge[c] = 0
  /\ wedged = {} => petAge <= PetInterval - tickIn
  /\ \A c \in Component : beatAge[c] <= Deadline[c] + petAge

IInv == /\ TypeOK /\ SpentInv /\ CountInv /\ BoardInv /\ EarnedInv
        /\ PokeInv /\ FeedInv /\ BeatInv /\ PetInv

-----------------------------------------------------------------------------
\* What a poll that ends does to the snapshot.
LEMMA Polled ==
  ASSUME TypeOK, NEW outcome \in {"good", "clock", "bad"}, NEW age \in Nat,
         AfterPoll(outcome, age)
  PROVE  \/ /\ outcome = "good" /\ ~spoilt'
            /\ snap'.state = "live" /\ snap'.age = 0 /\ snap'.data = age
         \/ /\ outcome = "bad" /\ spoilt' = spoilt
            /\ snap' = snap /\ snap.state = "live" /\ snap.age < StaleGrace
         \/ /\ outcome = "bad" /\ spoilt' = spoilt
            /\ ~(snap.state = "live" /\ snap.age < StaleGrace)
            /\ snap'.state = "error" /\ snap'.age = snap.age /\ snap'.data = snap.data
         \/ /\ outcome = "clock" /\ spoilt'
            /\ snap'.state = "clock" /\ snap'.age = snap.age /\ snap'.data = snap.data
<1>1. snap' = Classified(outcome, age)
  BY DEF AfterPoll
<1>2. snap \in Snapshot
  BY DEF TypeOK
<1>3. spoilt' = (outcome = "clock" \/ (spoilt /\ outcome # "good"))
  BY DEF AfterPoll
<1>4. CASE outcome = "good"
  BY <1>1, <1>3, <1>4 DEF Classified
<1>5. CASE outcome = "clock"
  BY <1>1, <1>2, <1>3, <1>5 DEF Classified
<1>6. CASE outcome = "bad"
  <2>1. spoilt' = spoilt
    BY <1>3, <1>6 DEF TypeOK
  <2>2. CASE snap.state = "live" /\ snap.age < StaleGrace
    BY <1>1, <1>6, <2>1, <2>2 DEF Classified
  <2>3. CASE ~(snap.state = "live" /\ snap.age < StaleGrace)
    BY <1>1, <1>2, <1>6, <2>1, <2>3 DEF Classified
  <2> QED BY <2>2, <2>3
<1> QED BY <1>4, <1>5, <1>6

\* The three ways a poll ends, as one.
PollEnds(outcome, age) ==
  /\ Unwedged /\ AfterPoll(outcome, age) /\ age <= CallTimeout
  /\ outcome # "good" => pc = "fetching" /\ goodFor < spent

LEMMA PollOver ==
  ASSUME TypeOK, SpentInv, FetchFails \/ FetchSucceeds \/ EnrichEnds
  PROVE  \E outcome \in {"good", "clock", "bad"}, age \in Nat : PollEnds(outcome, age)
<1>1. CASE FetchFails
  <2>1. PICK outcome \in {"clock", "bad"} : AfterPoll(outcome, 0)
    BY <1>1 DEF FetchFails
  <2>2. PollEnds(outcome, 0)
    BY <1>1, <2>1, Sizes DEF FetchFails, PollEnds, Unwedged, MustSucceed, TypeOK
  <2> QED BY <2>1, <2>2
<1>2. CASE FetchSucceeds
  <2>1. PollEnds("good", 0)
    BY <1>2, Sizes DEF FetchSucceeds, PollEnds, Unwedged
  <2> QED BY <2>1
<1>3. CASE EnrichEnds
  <2>1. PollEnds("good", spent)
    BY <1>3, Sizes DEF EnrichEnds, PollEnds, Unwedged, SpentInv
  <2> QED BY <2>1 DEF TypeOK
<1> QED BY <1>1, <1>2, <1>3

\* Every call and every wait ends in time.
LEMMA SpentInvStep == ASSUME TypeOK, SpentInv, [Next]_vars PROVE SpentInv'
<1>0. TypeOK'
  BY TypeStep
<1>1. ASSUME NEW outcome \in {"good", "clock", "bad"}, NEW age \in Nat, PollEnds(outcome, age)
      PROVE  SpentInv'
  BY <1>0, <1>1, Delays DEF PollEnds, AfterPoll, SpentInv, TypeOK
<1>2. CASE EnrichBegins
  BY <1>2, Sizes, Delays, Table DEF EnrichBegins, history, wdVars, SpentInv, Unwedged, TypeOK
<1>3. CASE TimerFires
  BY <1>3, Sizes, Delays, Table DEF TimerFires, BeginFetch, wdVars, SpentInv, Unwedged, TypeOK
<1>4. CASE PokeReceived
  BY <1>4, Sizes, Delays, Table DEF PokeReceived, BeginFetch, wdVars, SpentInv, Unwedged, TypeOK
<1>5. CASE Poke
  BY <1>5, Sizes, Delays, Table DEF Poke, wdVars, SpentInv, Unwedged, TypeOK
<1>6. CASE FeedMoves
  BY <1>6, Sizes, Delays, Table DEF FeedMoves, pollVars, history, wdVars, SpentInv, Unwedged, TypeOK
<1>7. CASE \E c \in Component : Wedge(c)
  BY <1>7, Sizes, Delays, Table DEF Wedge, pollVars, wdVars, SpentInv, Unwedged, TypeOK
<1>8. CASE Pet
  BY <1>8, Sizes, Delays, Table DEF Pet, PetTick, pollVars, history, SpentInv, Unwedged, TypeOK
<1>9. CASE Killed \/ Exit
  BY <1>9, Sizes, Delays, Table DEF Killed, Exit, Restarted, WDRestart, SpentInv, Unwedged, TypeOK
<1>10. CASE Tick
  BY <1>10, Sizes, Delays, Table DEF Tick, Urgent, SpentInv, Unwedged, TypeOK
<1>11. CASE UNCHANGED vars
  BY <1>11, Sizes, Delays, Table DEF vars, pollVars, history, wdVars, SpentInv, Unwedged, TypeOK
<1> QED
  BY <1>1, <1>2, <1>3, <1>4, <1>5, <1>6, <1>7, <1>8, <1>9, <1>10, <1>11, PollOver
  DEF Next, PollerStep

\* The streak is counted as long as the error scene is on.
LEMMA CountInvStep == ASSUME TypeOK, CountInv, SpentInv, [Next]_vars PROVE CountInv'
<1>0. TypeOK'
  BY TypeStep
<1>1. ASSUME NEW outcome \in {"good", "clock", "bad"}, NEW age \in Nat, PollEnds(outcome, age)
      PROVE  CountInv'
  BY <1>0, <1>1, Polled, Table, Blanks DEF PollEnds, AfterPoll, CountInv, Counted, Lesser, TypeOK
<1>2. CASE EnrichBegins
  BY <1>2, Table, Blanks DEF EnrichBegins, history, wdVars, CountInv, Counted, Lesser, TypeOK
<1>3. CASE TimerFires
  BY <1>3, Table, Blanks DEF TimerFires, BeginFetch, wdVars, CountInv, Counted, Lesser, TypeOK
<1>4. CASE PokeReceived
  BY <1>4, Table, Blanks DEF PokeReceived, BeginFetch, wdVars, CountInv, Counted, Lesser, TypeOK
<1>5. CASE Poke
  BY <1>5, Table, Blanks DEF Poke, wdVars, CountInv, Counted, Lesser, TypeOK
<1>6. CASE FeedMoves
  BY <1>6, Table, Blanks DEF FeedMoves, pollVars, history, wdVars, CountInv, Counted, Lesser, TypeOK
<1>7. CASE \E c \in Component : Wedge(c)
  BY <1>7, Table, Blanks DEF Wedge, pollVars, wdVars, CountInv, Counted, Lesser, TypeOK
<1>8. CASE Pet
  BY <1>8, Table, Blanks DEF Pet, PetTick, pollVars, history, CountInv, Counted, Lesser, TypeOK
<1>9. CASE Killed \/ Exit
  BY <1>9, Table, Blanks DEF Killed, Exit, Restarted, WDRestart, CountInv, Counted, Lesser, TypeOK
<1>10. CASE Tick
  BY <1>10, Table, Blanks DEF Tick, Urgent, CountInv, Counted, Lesser, TypeOK
<1>11. CASE UNCHANGED vars
  BY <1>11, Table, Blanks DEF vars, pollVars, history, wdVars, CountInv, Counted, Lesser, TypeOK
<1> QED
  BY <1>1, <1>2, <1>3, <1>4, <1>5, <1>6, <1>7, <1>8, <1>9, <1>10, <1>11, PollOver
  DEF Next, PollerStep

\* The grace, a wait and the poll in flight.
LEMMA BoardInvStep == ASSUME TypeOK, SpentInv, BoardInv, EarnedInv, [Next]_vars PROVE BoardInv'
<1>0. TypeOK'
  BY TypeStep
<1>1. ASSUME NEW outcome \in {"good", "clock", "bad"}, NEW age \in Nat, PollEnds(outcome, age)
      PROVE  BoardInv'
  <2>1. /\ pc' = "waiting" /\ spent' = 0 /\ wedged' = wedged /\ goodFor' = goodFor
        /\ unheard' = unheard /\ poke' = poke
    BY <1>1 DEF PollEnds, AfterPoll
  <2>2. snap'.state # "live" \/ (snap'.age = 0 /\ snap'.data = age)
          \/ (snap' = snap /\ snap.state = "live" /\ snap.age < StaleGrace)
    BY <1>1, Polled DEF PollEnds
  <2>3. age <= CallTimeout /\ Unwedged
    BY <1>1 DEF PollEnds
  <2> QED BY <2>1, <2>2, <2>3, Sizes DEF BoardInv, Unwedged, TypeOK
<1>2. CASE EnrichBegins
  BY <1>2, Sizes, Delays, Ageing, Blanks
     DEF EnrichBegins, history, wdVars, BoardInv, EarnedInv, SpentInv, Unwedged, TypeOK
<1>3. CASE TimerFires
  BY <1>3, Sizes, Delays, Ageing, Blanks
     DEF TimerFires, BeginFetch, wdVars, BoardInv, EarnedInv, SpentInv, Unwedged, TypeOK
<1>4. CASE PokeReceived
  <2>1. /\ snap.age \in Age /\ snap.data \in Age /\ spent \in Nat
        /\ NextDelay(failures) \in Nat /\ NextDelay(failures) <= Interval
    BY Delays DEF TypeOK
  <2> QED
    BY <1>4, <2>1, Sizes DEF PokeReceived, BeginFetch, BoardInv, SpentInv, Unwedged
<1>5. CASE Poke
  BY <1>5, Sizes, Delays, Ageing, Blanks
     DEF Poke, wdVars, BoardInv, EarnedInv, SpentInv, Unwedged, TypeOK
<1>6. CASE FeedMoves
  BY <1>6, Sizes, Delays, Ageing, Blanks
     DEF FeedMoves, pollVars, history, wdVars, BoardInv, EarnedInv, SpentInv, Unwedged, TypeOK
<1>7. CASE \E c \in Component : Wedge(c)
  BY <1>7, Sizes, Delays, Ageing, Blanks
     DEF Wedge, pollVars, wdVars, BoardInv, EarnedInv, SpentInv, Unwedged, TypeOK
<1>8. CASE Pet
  BY <1>8, Sizes, Delays, Ageing, Blanks
     DEF Pet, PetTick, pollVars, history, BoardInv, EarnedInv, SpentInv, Unwedged, TypeOK
<1>9. CASE Killed \/ Exit
  BY <1>9, Sizes, Delays, Ageing, Blanks
     DEF Killed, Exit, Restarted, WDRestart, BoardInv, EarnedInv, SpentInv, Unwedged, TypeOK
<1>10. CASE Tick
  <2>1. /\ snap.age \in Age /\ snap.data \in Age /\ spent \in Nat
        /\ NextDelay(failures) \in Nat /\ NextDelay(failures) <= Interval
    BY Delays DEF TypeOK
  <2>2. /\ snap'.state = snap.state /\ pc' = pc /\ wedged' = wedged
        /\ snap'.age = AgedIf(snap.age) /\ snap'.data = AgedIf(snap.data)
        /\ Unwedged => spent' = spent + 1
    BY <1>10 DEF Tick, Unwedged
  <2>3. SUFFICES ASSUME Unwedged, snap.state = "live" PROVE BoardInv'
    BY <2>2 DEF BoardInv, Unwedged
  <2>4. snap.age # Never /\ snap.data # Never
    BY <2>3 DEF EarnedInv
  <2>5. /\ snap'.age <= snap.age + 1
        /\ snap.data <= snap.age + CallTimeout => snap'.data <= snap'.age + CallTimeout
    BY <2>1, <2>2, <2>4, Sizes DEF AgedIf, Aged, Lesser
  <2>6. snap'.age \in Age /\ snap'.data \in Age
    BY <2>1, <2>2, Ageing
  <2> QED BY <2>1, <2>2, <2>3, <2>5, <2>6, Sizes DEF BoardInv, Unwedged, TypeOK
<1>11. CASE UNCHANGED vars
  BY <1>11, Sizes, Delays, Ageing, Blanks
     DEF vars, pollVars, history, wdVars, BoardInv, EarnedInv, SpentInv, Unwedged, TypeOK
<1> QED
  BY <1>1, <1>2, <1>3, <1>4, <1>5, <1>6, <1>7, <1>8, <1>9, <1>10, <1>11, PollOver
  DEF Next, PollerStep

\* What the state of the snapshot says of its age.
LEMMA EarnedInvStep == ASSUME TypeOK, EarnedInv, SpentInv, [Next]_vars PROVE EarnedInv'
<1>0. TypeOK'
  BY TypeStep
<1>1. ASSUME NEW outcome \in {"good", "clock", "bad"}, NEW age \in Nat, PollEnds(outcome, age)
      PROVE  EarnedInv'
  <2>1. snap.state \in {"none", "live", "clock", "error"} /\ snap.age \in Age
    BY DEF TypeOK
  <2> QED BY <1>1, <2>1, Polled, Sizes DEF PollEnds, EarnedInv
<1>2. CASE EnrichBegins
  BY <1>2, Sizes, Ageing, Blanks DEF EnrichBegins, history, wdVars, EarnedInv, TypeOK
<1>3. CASE TimerFires
  BY <1>3, Sizes, Ageing, Blanks DEF TimerFires, BeginFetch, wdVars, EarnedInv, TypeOK
<1>4. CASE PokeReceived
  BY <1>4, Sizes, Ageing, Blanks DEF PokeReceived, BeginFetch, wdVars, EarnedInv, TypeOK
<1>5. CASE Poke
  BY <1>5, Sizes, Ageing, Blanks DEF Poke, wdVars, EarnedInv, TypeOK
<1>6. CASE FeedMoves
  BY <1>6, Sizes, Ageing, Blanks DEF FeedMoves, pollVars, history, wdVars, EarnedInv, TypeOK
<1>7. CASE \E c \in Component : Wedge(c)
  BY <1>7, Sizes, Ageing, Blanks DEF Wedge, pollVars, wdVars, EarnedInv, TypeOK
<1>8. CASE Pet
  BY <1>8, Sizes, Ageing, Blanks DEF Pet, PetTick, pollVars, history, EarnedInv, TypeOK
<1>9. CASE Killed \/ Exit
  <2>1. snap'.state = "none" /\ snap'.age = Never /\ snap'.data = Never
    BY <1>9 DEF Killed, Exit, Restarted, Blank
  <2> QED BY <2>1 DEF EarnedInv
<1>10. CASE Tick
  BY <1>10, Sizes, Ageing, Blanks DEF Tick, Urgent, EarnedInv, TypeOK
<1>11. CASE UNCHANGED vars
  BY <1>11, Sizes, Ageing, Blanks DEF vars, pollVars, history, wdVars, EarnedInv, TypeOK
<1> QED
  BY <1>1, <1>2, <1>3, <1>4, <1>5, <1>6, <1>7, <1>8, <1>9, <1>10, <1>11, PollOver
  DEF Next, PollerStep

\* A poke outlives the poll in flight in the channel.
LEMMA PokeInvStep == ASSUME TypeOK, SpentInv, PokeInv, [Next]_vars PROVE PokeInv'
<1>0. TypeOK'
  BY TypeStep
<1>1. ASSUME NEW outcome \in {"good", "clock", "bad"}, NEW age \in Nat, PollEnds(outcome, age)
      PROVE  PokeInv'
  <2>1. /\ pc' = "waiting" /\ spent' = 0 /\ wedged' = wedged /\ goodFor' = goodFor
        /\ unheard' = unheard /\ poke' = poke
    BY <1>1 DEF PollEnds, AfterPoll
  <2>2. Unwedged /\ spent \in Nat /\ unheard \in Age /\ (spent <= CallTimeout \/ pc = "waiting")
    BY <1>1 DEF PollEnds, SpentInv, TypeOK
  <2> QED BY <2>1, <2>2, Sizes DEF PokeInv, SpentInv, Unwedged, TypeOK
<1>2. CASE EnrichBegins
  BY <1>2, Sizes, Ageing DEF EnrichBegins, history, wdVars, PokeInv, SpentInv, Unwedged, TypeOK
<1>3. CASE TimerFires
  BY <1>3, Sizes, Ageing DEF TimerFires, BeginFetch, wdVars, PokeInv, SpentInv, Unwedged, TypeOK
<1>4. CASE PokeReceived
  BY <1>4, Sizes, Ageing DEF PokeReceived, BeginFetch, wdVars, PokeInv, SpentInv, Unwedged, TypeOK
<1>5. CASE Poke
  <2>1. /\ pc' = pc /\ spent' = spent /\ wedged' = wedged /\ poke'
        /\ unheard' = IF unheard = Never THEN 0 ELSE unheard
    BY <1>5 DEF Poke
  <2>2. spent \in Nat /\ unheard \in Age
    BY DEF TypeOK
  <2> QED BY <2>1, <2>2, Sizes DEF PokeInv, Unwedged
<1>6. CASE FeedMoves
  BY <1>6, Sizes, Ageing
     DEF FeedMoves, pollVars, history, wdVars, PokeInv, SpentInv, Unwedged, TypeOK
<1>7. CASE \E c \in Component : Wedge(c)
  BY <1>7, Sizes, Ageing DEF Wedge, pollVars, wdVars, PokeInv, SpentInv, Unwedged, TypeOK
<1>8. CASE Pet
  BY <1>8, Sizes, Ageing DEF Pet, PetTick, pollVars, history, PokeInv, SpentInv, Unwedged, TypeOK
<1>9. CASE Killed \/ Exit
  BY <1>9, Sizes, Ageing DEF Killed, Exit, Restarted, WDRestart, PokeInv, SpentInv, Unwedged, TypeOK
<1>10. CASE Tick
  <2>1. /\ pc' = pc /\ wedged' = wedged /\ poke' = poke /\ unheard' = AgedIf(unheard)
        /\ Unwedged => spent' = spent + 1 /\ ~(pc = "waiting" /\ poke)
    BY <1>10 DEF Tick, Urgent, Unwedged
  <2>2. spent \in Nat /\ unheard \in Age
    BY DEF TypeOK
  <2>3. /\ AgedIf(unheard) \in Age /\ AgedIf(unheard) <= unheard + 1
        /\ AgedIf(unheard) = Never <=> unheard = Never
    BY <2>2, Ageing
  <2> QED BY <2>1, <2>2, <2>3, Sizes DEF PokeInv, Unwedged
<1>11. CASE UNCHANGED vars
  BY <1>11, Sizes, Ageing DEF vars, pollVars, history, wdVars, PokeInv, SpentInv, Unwedged, TypeOK
<1> QED
  BY <1>1, <1>2, <1>3, <1>4, <1>5, <1>6, <1>7, <1>8, <1>9, <1>10, <1>11, PollOver
  DEF Next, PollerStep

\* A failing poll began before the feed was back.
LEMMA FeedInvStep == ASSUME TypeOK, SpentInv, CountInv, FeedInv, [Next]_vars PROVE FeedInv'
<1>0. TypeOK'
  BY TypeStep
<1>1. ASSUME NEW outcome \in {"good", "clock", "bad"}, NEW age \in Nat, PollEnds(outcome, age)
      PROVE  FeedInv'
  <2>1. /\ pc' = "waiting" /\ spent' = 0 /\ wedged' = wedged /\ goodFor' = goodFor
        /\ unheard' = unheard /\ poke' = poke
    BY <1>1 DEF PollEnds, AfterPoll
  <2>2. spent \in Nat /\ goodFor \in Age
    BY DEF TypeOK
  <2>3. CASE outcome = "good"
    <3>1. snap'.state = "live"
      BY <1>1, <2>3, Polled DEF PollEnds
    <3> QED BY <3>1 DEF FeedInv
  <2>4. CASE outcome # "good"
    <3>1. Unwedged /\ pc = "fetching" /\ goodFor < spent
      BY <1>1, <2>4 DEF PollEnds
    <3>2. goodFor < CallTimeout
      BY <2>2, <3>1, Sizes DEF SpentInv
    <3> QED BY <2>1, <2>2, <3>2, Sizes DEF FeedInv
  <2> QED BY <2>3, <2>4
<1>2. CASE EnrichBegins
  <2>1. /\ spent \in Nat /\ goodFor \in Age
        /\ NextDelay(failures) \in Nat /\ NextDelay(failures) <= WaitBound
        /\ WaitBound \in Nat
    BY Sizes, Delays DEF TypeOK, WaitBound, CountInv
  <2>2. /\ wedged' = wedged /\ snap' = snap /\ WaitBound' = WaitBound
    BY <1>2 DEF EnrichBegins, WaitBound
  <2> QED
    BY <1>2, <2>1, <2>2, Sizes DEF EnrichBegins, FeedInv, SpentInv, Unwedged
<1>3. CASE TimerFires
  <2>1. /\ spent \in Nat /\ goodFor \in Age
        /\ NextDelay(failures) \in Nat /\ NextDelay(failures) <= WaitBound
        /\ WaitBound \in Nat
    BY Sizes, Delays DEF TypeOK, WaitBound, CountInv
  <2>2. /\ wedged' = wedged /\ snap' = snap /\ WaitBound' = WaitBound
    BY <1>3 DEF TimerFires, BeginFetch, WaitBound
  <2> QED
    BY <1>3, <2>1, <2>2, Sizes DEF TimerFires, BeginFetch, FeedInv, SpentInv, Unwedged
<1>4. CASE PokeReceived
  <2>1. /\ spent \in Nat /\ goodFor \in Age
        /\ NextDelay(failures) \in Nat /\ NextDelay(failures) <= WaitBound
        /\ WaitBound \in Nat
    BY Sizes, Delays DEF TypeOK, WaitBound, CountInv
  <2>2. /\ wedged' = wedged /\ snap' = snap /\ WaitBound' = WaitBound
    BY <1>4 DEF PokeReceived, BeginFetch, WaitBound
  <2> QED
    BY <1>4, <2>1, <2>2, Sizes DEF PokeReceived, BeginFetch, FeedInv, SpentInv, Unwedged
<1>5. CASE Poke
  BY <1>5, Sizes, Delays, Ageing, Blanks
     DEF Poke, wdVars, FeedInv, WaitBound, SpentInv, CountInv, Unwedged, TypeOK
<1>6. CASE FeedMoves
  <2>1. /\ spent \in Nat /\ goodFor \in Age
        /\ NextDelay(failures) \in Nat /\ NextDelay(failures) <= WaitBound
        /\ WaitBound \in Nat
    BY Sizes, Delays DEF TypeOK, WaitBound, CountInv
  <2>2. /\ wedged' = wedged /\ snap' = snap /\ WaitBound' = WaitBound
    BY <1>6 DEF FeedMoves, pollVars, WaitBound
  <2> QED
    BY <1>6, <2>1, <2>2, Sizes DEF FeedMoves, pollVars, FeedInv, SpentInv, Unwedged
<1>7. CASE \E c \in Component : Wedge(c)
  BY <1>7, Sizes, Delays, Ageing, Blanks
     DEF Wedge, pollVars, wdVars, FeedInv, WaitBound, SpentInv, CountInv, Unwedged, TypeOK
<1>8. CASE Pet
  BY <1>8, Sizes, Delays, Ageing, Blanks
     DEF Pet, PetTick, pollVars, history, FeedInv, WaitBound, SpentInv, CountInv, Unwedged,
         TypeOK
<1>9. CASE Killed \/ Exit
  <2>1. pc' = "fetching" /\ spent' = 0 /\ goodFor' <= 0
    BY <1>9 DEF Killed, Exit, Restarted, Lesser, TypeOK
  <2>2. WaitBound' \in Nat /\ goodFor' \in Age
    BY <1>0, Sizes, Delays DEF WaitBound, TypeOK
  <2>3. ASSUME NEW w \in Nat, NEW g \in Age, g <= 0 PROVE g < CallTimeout + w + 0
    BY <2>3, Sizes
  <2>4. goodFor' < CallTimeout + WaitBound' + spent'
    BY <2>1, <2>2, <2>3
  <2> QED BY <2>1, <2>4 DEF FeedInv
<1>10. CASE Tick
  <2>1. /\ spent \in Nat /\ goodFor \in Age
        /\ NextDelay(failures) \in Nat /\ NextDelay(failures) <= WaitBound
        /\ WaitBound \in Nat
    BY Sizes, Delays DEF TypeOK, WaitBound, CountInv
  <2>2. /\ wedged' = wedged /\ pc' = pc /\ snap'.state = snap.state
        /\ goodFor' = AgedIf(goodFor)
        /\ Unwedged => spent' = spent + 1
    BY <1>10 DEF Tick, Unwedged
  <2>3. goodFor' \in Age /\ goodFor' <= goodFor + 1
    BY <2>1, <2>2, Ageing
  <2>4. WaitBound' = WaitBound
    BY <2>2 DEF WaitBound
  <2> QED BY <2>1, <2>2, <2>3, <2>4, Sizes DEF FeedInv, Unwedged
<1>11. CASE UNCHANGED vars
  BY <1>11, Sizes, Delays, Ageing, Blanks
     DEF vars, pollVars, history, wdVars, FeedInv, WaitBound, SpentInv, CountInv, Unwedged,
         TypeOK
<1> QED
  BY <1>1, <1>2, <1>3, <1>4, <1>5, <1>6, <1>7, <1>8, <1>9, <1>10, <1>11, PollOver
  DEF Next, PollerStep

\* The beat is one wait and one poll old at most.
LEMMA BeatInvStep == ASSUME TypeOK, SpentInv, BeatInv, [Next]_vars PROVE BeatInv'
<1>0. TypeOK'
  BY TypeStep
<1>1. ASSUME NEW outcome \in {"good", "clock", "bad"}, NEW age \in Nat, PollEnds(outcome, age)
      PROVE  BeatInv'
  BY <1>0, <1>1, Polled, Sizes, Delays, DeadlineAssumption
     DEF PollEnds, AfterPoll, BeatInv, SpentInv, Unwedged, TypeOK, WDTypeOK
<1>2. CASE EnrichBegins
  BY <1>2, Sizes, Delays, DeadlineAssumption
     DEF EnrichBegins, history, wdVars, BeatInv, SpentInv, Unwedged, TypeOK, WDTypeOK
<1>3. CASE TimerFires
  BY <1>3, Sizes, Delays, DeadlineAssumption
     DEF TimerFires, BeginFetch, wdVars, BeatInv, SpentInv, Unwedged, TypeOK, WDTypeOK
<1>4. CASE PokeReceived
  BY <1>4, Sizes, Delays, DeadlineAssumption
     DEF PokeReceived, BeginFetch, wdVars, BeatInv, SpentInv, Unwedged, TypeOK, WDTypeOK
<1>5. CASE Poke
  BY <1>5, Sizes, Delays, DeadlineAssumption
     DEF Poke, wdVars, BeatInv, SpentInv, Unwedged, TypeOK, WDTypeOK
<1>6. CASE FeedMoves
  BY <1>6, Sizes, Delays, DeadlineAssumption
     DEF FeedMoves, pollVars, history, wdVars, BeatInv, SpentInv, Unwedged, TypeOK, WDTypeOK
<1>7. CASE \E c \in Component : Wedge(c)
  BY <1>7, Sizes, Delays, DeadlineAssumption
     DEF Wedge, pollVars, wdVars, BeatInv, SpentInv, Unwedged, TypeOK, WDTypeOK
<1>8. CASE Pet
  BY <1>8, Sizes, Delays, DeadlineAssumption
     DEF Pet, PetTick, pollVars, history, BeatInv, SpentInv, Unwedged, TypeOK, WDTypeOK
<1>9. CASE Killed \/ Exit
  BY <1>9, Sizes, Delays, DeadlineAssumption
     DEF Killed, Exit, Restarted, WDRestart, BeatInv, SpentInv, Unwedged, TypeOK, WDTypeOK
<1>10. CASE Tick
  BY <1>10, Sizes, Delays, DeadlineAssumption
     DEF Tick, Urgent, BeatInv, SpentInv, Unwedged, TypeOK, WDTypeOK, BeatAges, WDPass,
         WDMayPass
<1>11. CASE UNCHANGED vars
  BY <1>11, Sizes, Delays, DeadlineAssumption
     DEF vars, pollVars, history, wdVars, BeatInv, SpentInv, Unwedged, TypeOK, WDTypeOK
<1> QED
  BY <1>1, <1>2, <1>3, <1>4, <1>5, <1>6, <1>7, <1>8, <1>9, <1>10, <1>11, PollOver
  DEF Next, PollerStep

\* A component that is late is late by less than the pet.
LEMMA PetInvStep == ASSUME TypeOK, SpentInv, BeatInv, PetInv, [Next]_vars PROVE PetInv'
<1>0. TypeOK'
  BY TypeStep
<1>1. ASSUME NEW outcome \in {"good", "clock", "bad"}, NEW age \in Nat, PollEnds(outcome, age)
      PROVE  PetInv'
  <2>1. /\ wedged' = wedged /\ petAge' = petAge /\ tickIn' = tickIn
        /\ \A c \in Component : beatAge'[c] = IF c = "poller" THEN 0 ELSE beatAge[c]
    BY <1>1 DEF PollEnds, AfterPoll, TypeOK, WDTypeOK
  <2> QED BY <2>1, Sizes, WatchdogAssumption DEF PetInv, TypeOK, WDTypeOK
<1>2. CASE EnrichBegins
  BY <1>2, Sizes, WatchdogAssumption, DeadlineAssumption
     DEF EnrichBegins, history, wdVars, PetInv, TypeOK, WDTypeOK
<1>3. CASE TimerFires
  BY <1>3, Sizes, WatchdogAssumption, DeadlineAssumption
     DEF TimerFires, BeginFetch, wdVars, PetInv, TypeOK, WDTypeOK
<1>4. CASE PokeReceived
  BY <1>4, Sizes, WatchdogAssumption, DeadlineAssumption
     DEF PokeReceived, BeginFetch, wdVars, PetInv, TypeOK, WDTypeOK
<1>5. CASE Poke
  BY <1>5, Sizes, WatchdogAssumption, DeadlineAssumption DEF Poke, wdVars, PetInv, TypeOK, WDTypeOK
<1>6. CASE FeedMoves
  BY <1>6, Sizes, WatchdogAssumption, DeadlineAssumption
     DEF FeedMoves, pollVars, history, wdVars, PetInv, TypeOK, WDTypeOK
<1>7. CASE \E c \in Component : Wedge(c)
  BY <1>7, Sizes, WatchdogAssumption, DeadlineAssumption
     DEF Wedge, pollVars, wdVars, PetInv, TypeOK, WDTypeOK
<1>8. CASE Pet
  <2>1. CASE Healthy
    BY <1>8, <2>1, Sizes, WatchdogAssumption
    DEF Pet, PetTick, Healthy, PetInv, TypeOK, WDTypeOK
  <2>2. CASE ~Healthy
    <3>1. wedged # {}
      <4>1. SUFFICES ASSUME wedged = {} PROVE Healthy
        BY <2>2
      <4>2. \A c \in Component : c # "poller" => beatAge[c] = 0
        BY <4>1 DEF PetInv
      <4>3. beatAge["poller"] <= Deadline["poller"]
        BY <4>1, Sizes, Delays, DeadlineAssumption, WatchdogAssumption
        DEF BeatInv, SpentInv, Unwedged, TypeOK, WDTypeOK
      <4> QED BY <4>2, <4>3, WatchdogAssumption DEF Healthy
    <3> QED
      BY <1>8, <2>2, <3>1 DEF Pet, PetTick, PetInv
  <2> QED BY <2>1, <2>2
<1>9. CASE Killed \/ Exit
  BY <1>9, Sizes, WatchdogAssumption, DeadlineAssumption
     DEF Killed, Exit, Restarted, WDRestart, PetInv, TypeOK, WDTypeOK
<1>10. CASE Tick
  BY <1>10, Sizes, WatchdogAssumption, DeadlineAssumption
     DEF Tick, Urgent, PetInv, TypeOK, WDTypeOK, BeatAges, WDPass, WDMayPass
<1>11. CASE UNCHANGED vars
  BY <1>11, Sizes, WatchdogAssumption, DeadlineAssumption
     DEF vars, pollVars, history, wdVars, PetInv, TypeOK, WDTypeOK
<1> QED
  BY <1>1, <1>2, <1>3, <1>4, <1>5, <1>6, <1>7, <1>8, <1>9, <1>10, <1>11, PollOver
  DEF Next, PollerStep

-----------------------------------------------------------------------------
LEMMA Begins == ASSUME Init PROVE IInv
<1>1. TypeOK
  BY TypeInit
<1>2. /\ pc = "fetching" /\ spent = 0 /\ failures = 0 /\ ~spoilt /\ unheard = Never
      /\ snap.state = "none" /\ snap.age = Never /\ snap.data = Never /\ goodFor <= 0
      /\ tickIn = PetInterval /\ petAge = 0 /\ \A c \in Component : beatAge[c] = 0
  BY Blanks DEF Init, WDInit, Blank
<1>3. SpentInv /\ CountInv /\ BoardInv /\ EarnedInv /\ PokeInv
  BY <1>2, Sizes DEF SpentInv, CountInv, BoardInv, EarnedInv, PokeInv
<1>4. FeedInv
  <2>1. WaitBound \in Nat /\ goodFor \in Age
    BY <1>1, Sizes, Delays DEF WaitBound, TypeOK
  <2>2. goodFor < CallTimeout + WaitBound + spent
    BY <1>2, <2>1, Sizes
  <2> QED BY <1>2, <2>2 DEF FeedInv
<1>5. BeatInv /\ PetInv
  BY <1>2, Sizes, WatchdogAssumption, DeadlineAssumption DEF BeatInv, PetInv
<1> QED BY <1>1, <1>3, <1>4, <1>5 DEF IInv

LEMMA Steps == ASSUME IInv, [Next]_vars PROVE IInv'
BY TypeStep, SpentInvStep, CountInvStep, BoardInvStep, EarnedInvStep, PokeInvStep,
   FeedInvStep, BeatInvStep, PetInvStep
DEF IInv

THEOREM Inductive == Spec => []IInv
<1>1. Init => IInv
  BY Begins
<1>2. IInv /\ [Next]_vars => IInv'
  BY Steps
<1> QED BY <1>1, <1>2, PTL DEF Spec

\* Departures on the board are never older than the grace, one interval and
\* three calls, whatever the interval, the backoff table and the timing.
THEOREM BoardAgeBounded == Spec => []BoardAge
<1>1. ASSUME IInv, Unwedged, snap.state = "live"
      PROVE  snap.data < StaleGrace + Interval + 3 * CallTimeout
  <2>1. /\ spent \in Nat /\ snap.age \in Nat /\ snap.data \in Age
        /\ NextDelay(failures) \in Nat /\ NextDelay(failures) <= Interval
    BY <1>1, Delays DEF IInv, TypeOK, EarnedInv
  <2>2. snap.data <= snap.age + CallTimeout
    BY <1>1 DEF IInv, BoardInv
  <2>3. snap.age < StaleGrace + Interval + 2 * CallTimeout
    BY <1>1, <2>1, Sizes DEF IInv, BoardInv, SpentInv, TypeOK
  <2> QED BY <2>1, <2>2, <2>3, Sizes
<1>2. IInv => BoardAge
  BY <1>1 DEF BoardAge
<1> QED BY <1>2, Inductive, PTL

\* The board is not given up for the error scene within the grace.
THEOREM ErrorIsEarned == Spec => []ErrorEarned
<1>1. IInv => ErrorEarned
  BY DEF IInv, EarnedInv, ErrorEarned
<1> QED BY <1>1, Inductive, PTL

\* No poke is lost or waits for more than the poll in flight.
THEOREM PokesAreHeard == Spec => []PokeHeard
<1>1. IInv => PokeHeard
  BY Sizes DEF IInv, PokeHeard, PokeInv, SpentInv, TypeOK, Unwedged
<1> QED BY <1>1, Inductive, PTL

\* A feed that is back is back on the board in time.
THEOREM FeedIsBackInTime == Spec => []BackInTime
<1>1. ASSUME IInv, Unwedged, snap.state # "live"
      PROVE  goodFor <= 3 * CallTimeout + WaitBound
  <2>1. /\ spent \in Nat /\ goodFor \in Age /\ WaitBound \in Nat
        /\ NextDelay(failures) <= WaitBound /\ NextDelay(failures) \in Nat
    BY <1>1, Sizes, Delays DEF IInv, TypeOK, WaitBound, CountInv
  <2> QED BY <1>1, <2>1, Sizes DEF IInv, FeedInv, SpentInv, TypeOK
<1>2. IInv => BackInTime
  <2>1. LongestBackoff \in Nat /\ LongestBackoff <= Interval
    BY Delays
  <2>2. IInv => goodFor \in Age
    BY DEF IInv, TypeOK
  <2> QED BY <1>1, <2>1, <2>2, Sizes DEF BackInTime, WaitBound
<1> QED BY <1>2, Inductive, PTL

\* Only a component that has stopped costs systemd its pet.
THEOREM KillsAreNeeded == Spec => []NoNeedlessKill
<1>1. IInv => NoNeedlessKill
  BY Sizes DEF IInv, PetInv, NoNeedlessKill, TypeOK, WDTypeOK
<1> QED BY <1>1, Inductive, PTL

\* No component is silent for longer than its deadline and WatchdogSec.
THEOREM WedgesEnd == Spec => []WedgeEnds
<1>1. ASSUME IInv, NEW c \in Component PROVE beatAge[c] <= Deadline[c] + WatchdogSec
  <2>1. beatAge[c] \in Nat /\ Deadline[c] \in Nat /\ petAge \in 0 .. WatchdogSec
    BY <1>1, WatchdogAssumption DEF IInv, TypeOK, WDTypeOK
  <2>2. beatAge[c] <= Deadline[c] + petAge
    BY <1>1 DEF IInv, PetInv
  <2> QED BY <2>1, <2>2, Sizes
<1>2. IInv => WedgeEnds
  BY <1>1 DEF WedgeEnds
<1> QED BY <1>2, Inductive, PTL
=============================================================================

------------------------------- MODULE Checker -------------------------------
(***************************************************************************)
(* The release checker (internal/update/checker.go): its own loop (tick)   *)
(* and the web's check and apply requests share the release last found,    *)
(* available, under mu, and the one apply pipeline, under applyMu. A call  *)
(* to the feed is made with no lock held, so answers are recorded in an    *)
(* order of their own. What the launcher and the health check make of a    *)
(* staged release is one step here; Updater takes it apart.                *)
(***************************************************************************)
EXTENDS SlotState

CONSTANTS
  Web,         \* the web requests that may be in progress at a time
  Tick,        \* the checker's loop
  NoCaller,    \* nobody: applyMu is free
  Initial,     \* the version installed first
  Good,        \* the releases that pass their health check
  AutoApply,   \* config: update.auto_apply
  DisableChecks \* config: update.disable_checks

ASSUME CheckerAssumption ==
  /\ Tick \notin Web
  /\ NoCaller \notin Web \cup {Tick}
  /\ Initial \in Version
  /\ Good \subseteq Release
  /\ AutoApply \in BOOLEAN /\ DisableChecks \in BOOLEAN

Caller == Web \cup {Tick}

VARIABLES
  latest,      \* feed: the newest release of the channel, 0 if there is none
  running,     \* version of this process
  staged,      \* release the next boot tries, or None
  rolledBack,  \* state.json: rolled_back_from
  floor,       \* state.json: version_floor
  available,   \* Checker.available, or None
  due,         \* the last check is checkEvery old
  window,      \* inside the unattended-update window
  looked,      \* a tick has looked since the window opened
  pc,          \* pc[c]: where caller c is
  got,         \* got[c]: the version c works with, None after a failed call
  applyMu,     \* holder of applyMu, or NoCaller
  restarting,  \* an apply succeeded: this process is about to exit
  quiet,       \* from now on nothing external disturbs the device
  crossed      \* history: another caller has written available since the
               \* tick's last look at it

state == <<running, staged, rolledBack, floor>>
clock == <<due, window, looked>>
call  == <<available, pc, got, applyMu, restarting, crossed>>
vars  == <<latest, state, clock, call, quiet>>

Place == {"idle", "asking", "answered", "look", "gate", "queue", "reread", "install"}

\* What a new process starts with; lastCheck is the zero time.
FreshStart ==
  /\ available' = None /\ due' = TRUE
  /\ pc' = [c \in Caller |-> "idle"] /\ got' = [c \in Caller |-> None]
  /\ applyMu' = NoCaller /\ restarting' = FALSE /\ crossed' = FALSE

Init ==
  /\ latest = 0 /\ running = Initial /\ staged = None /\ rolledBack = None
  /\ floor = 0
  /\ due = TRUE /\ window = FALSE /\ looked = FALSE
  /\ available = None
  /\ pc = [c \in Caller |-> "idle"] /\ got = [c \in Caller |-> None]
  /\ applyMu = NoCaller /\ restarting = FALSE /\ crossed = FALSE
  /\ quiet = FALSE

Goto(c, place) == pc' = [pc EXCEPT ![c] = place]

\* Another caller than the tick writes available, after the tick's look.
Crossing(c) == crossed \/ (c # Tick /\ pc[Tick] \in {"gate", "queue"})

-----------------------------------------------------------------------------
(***************************************************************************)
(* CheckNow: ask the feed, then record the answer under mu.                *)
(***************************************************************************)

\* The feed answers with its newest release, or the call fails.
Answered(c) ==
  /\ pc[c] = "asking"
  /\ \/ got' = [got EXCEPT ![c] = latest]
     \/ ~quiet /\ got' = [got EXCEPT ![c] = None]
  /\ Goto(c, "answered")
  /\ UNCHANGED <<latest, state, clock, available, applyMu, restarting, crossed, quiet>>

\* Mutant: the running version itself is offered.
FoundAgain(v) == IF v >= running /\ v > 0 THEN v ELSE None

\* Only a release newer than the running version is available.
Found(v) == IF v > running THEN v ELSE None

\* Mutant: a tick that checked goes straight on to the apply.
AfterRecordAtOnce(c) ==
  IF applyMu = c THEN IF got[c] = None THEN "idle" ELSE "reread"
  ELSE IF c = Tick THEN "queue" ELSE "idle"

\* Inside ApplyNow a failed check ends the call; the tick goes on in any case.
AfterRecord(c) ==
  IF applyMu = c THEN IF got[c] = None THEN "idle" ELSE "reread"
  ELSE IF c = Tick THEN "look" ELSE "idle"

Recorded(c) ==
  /\ pc[c] = "answered"
  /\ available' = Found(got[c])
  /\ due' = FALSE
  /\ crossed' = Crossing(c)
  /\ Goto(c, AfterRecord(c))
  /\ applyMu' = IF applyMu = c /\ got[c] = None THEN NoCaller ELSE applyMu
  /\ UNCHANGED <<latest, state, window, looked, got, restarting, quiet>>

-----------------------------------------------------------------------------
(***************************************************************************)
(* ApplyNow.                                                               *)
(***************************************************************************)

\* Mutant: no lock around the pipeline.
MayApplyAnyone == TRUE
MayApply == applyMu = NoCaller

\* Take applyMu and read available; check first if nothing is.
ApplyBegins(c) ==
  /\ pc[c] = "queue"
  /\ MayApply
  /\ applyMu' = c
  /\ IF available # None
     THEN Goto(c, "install") /\ got' = [got EXCEPT ![c] = available]
     ELSE Goto(c, "asking") /\ UNCHANGED got
  /\ UNCHANGED <<latest, state, clock, available, restarting, crossed, quiet>>

\* After that check: apply what is available now, or give up.
RereadFinds(c) ==
  /\ pc[c] = "reread" /\ available # None
  /\ got' = [got EXCEPT ![c] = available]
  /\ Goto(c, "install")
  /\ UNCHANGED <<latest, state, clock, available, applyMu, restarting, crossed, quiet>>

RereadFindsNothing(c) ==
  /\ pc[c] = "reread" /\ available = None
  /\ Goto(c, "idle") /\ applyMu' = NoCaller
  /\ UNCHANGED <<latest, state, clock, available, got, restarting, crossed, quiet>>

\* Applier.Apply succeeds: the release is staged, forgotten as available,
\* and the caller has the process restarted.
Installed(c) ==
  /\ pc[c] = "install"
  /\ CheckInstallable(got[c], running, floor)
  /\ staged' = got[c] /\ floor' = MaxOfVersions(floor, MinVersion[got[c]])
  /\ available' = None
  /\ crossed' = Crossing(c)
  /\ restarting' = TRUE
  /\ Goto(c, "idle") /\ applyMu' = NoCaller
  /\ UNCHANGED <<latest, running, rolledBack, clock, got, quiet>>

\* A fetch, a check, the download or a write fails; available is kept.
InstallFails(c) ==
  /\ pc[c] = "install"
  /\ ~quiet \/ ~CheckInstallable(got[c], running, floor)
  /\ Goto(c, "idle") /\ applyMu' = NoCaller
  /\ UNCHANGED <<latest, state, clock, available, got, restarting, crossed, quiet>>

-----------------------------------------------------------------------------
(***************************************************************************)
(* tick, every tickEvery.                                                  *)
(***************************************************************************)
TickBegins ==
  /\ ~DisableChecks
  /\ pc[Tick] = "idle"
  /\ Goto(Tick, IF due THEN "asking" ELSE "look")
  /\ UNCHANGED <<latest, state, clock, available, got, applyMu, restarting, crossed, quiet>>

TickLooks ==
  /\ pc[Tick] = "look"
  /\ looked' = (looked \/ window)
  /\ crossed' = FALSE
  /\ IF available # None /\ AutoApply /\ window
     THEN Goto(Tick, "gate") /\ got' = [got EXCEPT ![Tick] = available]
     ELSE Goto(Tick, "idle") /\ UNCHANGED got
  /\ UNCHANGED <<latest, state, due, window, available, applyMu, restarting, quiet>>

\* Mutant: the gate is missing.
SuppressedNever(v) == FALSE

\* The version the launcher last rolled back from is not applied again.
Suppressed(v) == v = rolledBack

TickGates ==
  /\ pc[Tick] = "gate"
  /\ Goto(Tick, IF Suppressed(got[Tick]) THEN "idle" ELSE "queue")
  /\ UNCHANGED <<latest, state, clock, available, got, applyMu, restarting, crossed, quiet>>

-----------------------------------------------------------------------------
(***************************************************************************)
(* The web's requests, and the world around.                               *)
(***************************************************************************)
WebBegins(c) ==
  /\ ~quiet
  /\ c \in Web /\ pc[c] = "idle"
  /\ \/ Goto(c, "asking")   \* POST /update/check
     \/ Goto(c, "queue")    \* POST /update/apply
  /\ UNCHANGED <<latest, state, clock, available, got, applyMu, restarting, crossed, quiet>>

Dismiss ==
  /\ ~quiet
  /\ rolledBack' = None
  /\ UNCHANGED <<latest, running, staged, floor, clock, call, quiet>>

\* A release is published, or the newest one withdrawn.
FeedMoves ==
  /\ ~quiet
  /\ latest' \in {latest - 1, latest + 1} \cap Version
  /\ UNCHANGED <<state, clock, call, quiet>>

Age ==
  /\ ~due /\ due' = TRUE
  /\ UNCHANGED <<latest, state, window, looked, call, quiet>>

\* The window stays open long enough for a tick to look at it.
WindowMoves ==
  /\ window => looked
  /\ window' = ~window /\ looked' = FALSE
  /\ UNCHANGED <<latest, state, due, call, quiet>>

MayExit == restarting \/ ~quiet

\* A restart with nothing staged.
Reboot ==
  /\ MayExit /\ staged = None
  /\ FreshStart
  /\ UNCHANGED <<latest, state, window, looked, quiet>>

\* The staged release passes its health check and is promoted.
Upgraded ==
  /\ MayExit /\ staged \in Good
  /\ running' = staged /\ staged' = None /\ rolledBack' = None
  /\ FreshStart
  /\ UNCHANGED <<latest, floor, window, looked, quiet>>

\* It never does: the launcher returns to the known-good version.
RolledBack ==
  /\ MayExit /\ staged \in Release \ Good
  /\ rolledBack' = staged /\ staged' = None
  /\ FreshStart
  /\ UNCHANGED <<latest, running, floor, window, looked, quiet>>

Settle ==
  /\ ~quiet /\ quiet' = TRUE
  /\ UNCHANGED <<latest, state, clock, call>>

-----------------------------------------------------------------------------
CallStep(c) ==
  \/ Answered(c) \/ Recorded(c)
  \/ ApplyBegins(c) \/ RereadFinds(c) \/ RereadFindsNothing(c)
  \/ Installed(c) \/ InstallFails(c)

TickStep == TickBegins \/ TickLooks \/ TickGates
Restart == Reboot \/ Upgraded \/ RolledBack

Next ==
  \/ \E c \in Caller : CallStep(c)
  \/ TickStep \/ Restart
  \/ \E c \in Web : WebBegins(c)
  \/ Dismiss \/ FeedMoves \/ Age \/ WindowMoves \/ Settle

\* The ticker fires, calls end, time passes, an exit asked for happens, and
\* at some time the disturbances end.
Fairness ==
  /\ \A c \in Caller : WF_vars(CallStep(c))
  /\ WF_vars(TickStep)
  /\ WF_vars(restarting /\ Restart)
  /\ WF_vars(Age) /\ WF_vars(WindowMoves) /\ WF_vars(Settle)

Spec == Init /\ [][Next]_vars
FairSpec == Spec /\ Fairness

-----------------------------------------------------------------------------
(***************************************************************************)
(* Properties.                                                             *)
(***************************************************************************)
TypeOK ==
  /\ latest \in Version /\ running \in Version /\ floor \in Version
  /\ staged \in Release \cup {None} /\ rolledBack \in Release \cup {None}
  /\ available \in Release \cup {None}
  /\ due \in BOOLEAN /\ window \in BOOLEAN /\ looked \in BOOLEAN
  /\ pc \in [Caller -> Place]
  /\ got \in [Caller -> Version \cup {None}]
  /\ applyMu \in Caller \cup {NoCaller}
  /\ restarting \in BOOLEAN /\ quiet \in BOOLEAN /\ crossed \in BOOLEAN

\* checker.go (applyMu): however the tick, checks and applies interleave, no
\* two callers are in the download/install pipeline, or between its check
\* and its second read of available, at once.
OnePipeline ==
  \A c, d \in Caller :
    /\ pc[c] \in {"reread", "install"}
    /\ pc[d] \in {"reread", "install"}
    => c = d

\* checker.go tick: an unattended apply installs the version its gate let
\* through, which is not the one rolled back from, unless another caller
\* recorded an answer or finished an apply between the gate and ApplyNow's
\* own read of available. Only that race can undo a rollback.
GateRespected ==
  pc[Tick] = "install" /\ ~crossed => got[Tick] # rolledBack

\* checker.go tick: "Don't auto-apply a version the launcher just rolled
\* back from" - whatever else is going on.
NeverReapplied ==
  pc[Tick] = "install" => got[Tick] # rolledBack

\* A restart never brings back an older version: whatever is withdrawn from
\* the feed, recorded late or rolled back, the version in charge only grows,
\* and a release offered or staged is newer than it.
OnlyForward ==
  /\ available # None => available > running
  /\ staged # None => staged > running

\* With auto-apply on and the feed at rest, the device ends up on the newest
\* release, or newer (one was withdrawn), or that release has been tried and
\* rolled back, or is below the version floor. It does not restart for ever.
Converges ==
  <>[] /\ ~restarting
       /\ \/ latest <= running
          \/ latest = rolledBack
          \/ latest < floor
=============================================================================

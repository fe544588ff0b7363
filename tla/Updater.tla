------------------------------- MODULE Updater -------------------------------
(***************************************************************************)
(* Self-update over two slots. One process at a time: the launcher         *)
(* (cmd/trainboard-launcher) decides and persists, then becomes the        *)
(* payload by exec; in the payload three activities read, modify and       *)
(* write state.json with no lock between them: the health check            *)
(* (update.Health, Promote), the apply pipeline (Checker.ApplyNow,         *)
(* Applier.Apply) and the operator's dismissal (DismissRollback). Each     *)
(* read and each write of the document is a step of its own. systemd       *)
(* restarts the launcher whenever the payload exits.                       *)
(***************************************************************************)
EXTENDS SlotState

CONSTANTS
  Initial,    \* the version the migration found running, in slot a
  Loadable,   \* the versions whose binary the kernel can exec
  Healthy,    \* those that can render a frame and answer the web probe
  Crashing,   \* those that die by themselves, in whatever mode they run
  Hazards     \* what the environment may do (see HazardKind)

(***************************************************************************)
(* PowerCut       power is lost; the last rename of state.json may be      *)
(*                undone, as SaveState does not sync the directory         *)
(* SaveFails      a write of state.json returns an error                   *)
(* BadConfig      a boot finds config.json unusable and runs the E04 loop  *)
(* ExecFails      an exec fails although the binary is sound               *)
(* EarlyOperator  the operator applies or dismisses while the health       *)
(*                check of the same process is still undecided             *)
(***************************************************************************)
HazardKind == {"PowerCut", "SaveFails", "BadConfig", "ExecFails", "EarlyOperator"}

ASSUME KindAssumption ==
  /\ Initial \in Healthy
  /\ Healthy \subseteq Loadable
  /\ Crashing \subseteq Loadable \ Healthy
  /\ Loadable \subseteq Version
  /\ Hazards \subseteq HazardKind

VARIABLES
  doc,       \* state.json as the running processes read it
  durable,   \* state.json as a power cut may restore it
  slots,     \* slots[s]: the version of the binary in slot s, or None
  feed,      \* newest release on the feed
  pc,        \* "down", "exec" and "fallback" (launcher), or "running"
  boot,      \* the launcher's decision
  run,       \* the payload: slot and version it was exec'd from, mode
  health,    \* progress of the health check
  apply,     \* progress of the apply pipeline
  dismiss,   \* progress of a dismissal
  available, \* Checker.available: the release a check found, or None
  exiting,   \* an apply succeeded: the payload is about to exit
  quiet,     \* from now on nothing external disturbs the device
  passed,    \* history: versions that once passed their health check
  strikes    \* history: execs of the unproven binary, since its install or
             \* the last power cut

device  == <<doc, durable, slots>>
process == <<run, health, apply, dismiss, available, exiting>>
vars == <<doc, durable, slots, feed, pc, boot, run, health, apply, dismiss,
          available, exiting, quiet, passed, strikes>>

NoBoot    == [slot |-> "a", recovery |-> FALSE, state |-> SeedState(Initial)]
NoRun     == [slot |-> "a", version |-> Initial, mode |-> "normal"]
NoHealth  == [pc |-> "off", state |-> SeedState(Initial)]
NoApply   == [pc |-> "idle", version |-> Initial, state |-> SeedState(Initial)]
NoDismiss == [pc |-> "idle", state |-> SeedState(Initial)]

May(hazard) == hazard \in Hazards /\ ~quiet

(***************************************************************************)
(* SaveState: temporary file, fsync, rename. The fsync of the temporary    *)
(* file also commits every earlier rename (ordered journal), so only the   *)
(* rename of the newest write can still be lost.                           *)
(***************************************************************************)
Save(s) == doc' = s /\ durable' = doc

\* A write that may fail; the caller goes on in both cases.
TrySave(s) ==
  \/ Save(s)
  \/ May("SaveFails") /\ UNCHANGED <<doc, durable>>

ForgetProcess ==
  /\ run' = NoRun
  /\ health' = NoHealth
  /\ apply' = NoApply
  /\ dismiss' = NoDismiss
  /\ available' = None
  /\ exiting' = FALSE

Init ==
  /\ doc = SeedState(Initial) /\ durable = SeedState(Initial)
  /\ slots = [s \in Slot |-> IF s = "a" THEN Initial ELSE None]
  /\ feed = Initial
  /\ pc = "down" /\ boot = NoBoot
  /\ run = NoRun /\ health = NoHealth /\ apply = NoApply /\ dismiss = NoDismiss
  /\ available = None /\ exiting = FALSE
  /\ quiet = FALSE
  /\ passed = {Initial} /\ strikes = 0

-----------------------------------------------------------------------------
(***************************************************************************)
(* The launcher.                                                           *)
(***************************************************************************)

\* Load, decide, and persist before the exec. A failed write is a warning.
LauncherDecide ==
  /\ pc = "down"
  /\ pc' = "exec"
  /\ boot' = Decide(doc)
  /\ TrySave(Decide(doc).state)
  /\ UNCHANGED <<slots, feed, process, quiet, passed, strikes>>

\* The exec replaces the launcher with the payload of boot.slot. main picks
\* the mode: --recovery, an unusable config (E04 loop), or the normal boot,
\* the only one that starts a health check.
Become(mode) ==
  /\ slots[boot.slot] \in Loadable
  /\ pc' = "running"
  /\ run' = [slot |-> boot.slot, version |-> slots[boot.slot], mode |-> mode]
  /\ health' = [NoHealth EXCEPT !.pc = IF mode = "normal" THEN "waiting" ELSE "off"]
  /\ boot' = NoBoot
  /\ strikes' = IF slots[boot.slot] \in passed \/ strikes > MaxBootAttempts
                THEN strikes ELSE strikes + 1
  /\ UNCHANGED <<device, feed, apply, dismiss, available, exiting, quiet, passed>>

LauncherExec ==
  /\ pc \in {"exec", "fallback"}
  /\ \/ boot.recovery /\ Become("recovery")
     \/ ~boot.recovery /\ Become("normal")
     \/ ~boot.recovery /\ May("BadConfig") /\ Become("fault")

ExecMayFail == slots[boot.slot] \notin Loadable \/ May("ExecFails")

\* The selected slot does not exec and is not known-good: persist the
\* rollback, then exec known-good (without --recovery).
LauncherFallBack ==
  /\ pc = "exec"
  /\ ExecMayFail
  /\ boot.slot # boot.state.knownGood
  /\ pc' = "fallback"
  /\ boot' = [slot |-> boot.state.knownGood, recovery |-> FALSE,
              state |-> Rollback(boot.state)]
  /\ TrySave(Rollback(boot.state))
  /\ UNCHANGED <<slots, feed, process, quiet, passed, strikes>>

\* Nothing could be exec'd: the launcher exits with an error.
LauncherFails ==
  /\ pc \in {"exec", "fallback"}
  /\ ExecMayFail
  /\ pc = "fallback" \/ boot.slot = boot.state.knownGood
  /\ pc' = "down" /\ boot' = NoBoot
  /\ UNCHANGED <<device, feed, process, quiet, passed, strikes>>

-----------------------------------------------------------------------------
(***************************************************************************)
(* The payload's health check.                                             *)
(***************************************************************************)
HealthUndecided == health.pc \in {"waiting", "checked", "loaded"}

\* First frame seen and web probe answered, then runningSlotOK: the running
\* executable must be the binary path of the active slot.
HealthCheck ==
  /\ pc = "running" /\ health.pc = "waiting"
  /\ run.version \in Healthy
  /\ passed' = passed \cup {run.version}
  /\ health' = [health EXCEPT !.pc = IF doc.active = run.slot THEN "checked" ELSE "done"]
  /\ UNCHANGED <<device, feed, pc, boot, run, apply, dismiss, available, exiting,
                 quiet, strikes>>

\* The deadline passes: no promotion, and the payload runs on.
HealthDeadline ==
  /\ pc = "running" /\ health.pc = "waiting"
  /\ health' = [health EXCEPT !.pc = "done"]
  /\ UNCHANGED <<device, feed, pc, boot, run, apply, dismiss, available, exiting,
                 quiet, passed, strikes>>

\* Promote reads the document a second time.
PromoteLoad ==
  /\ pc = "running" /\ health.pc = "checked"
  /\ health' = [pc |-> "loaded", state |-> doc]
  /\ UNCHANGED <<device, feed, pc, boot, run, apply, dismiss, available, exiting,
                 quiet, passed, strikes>>

PromoteSave ==
  /\ pc = "running" /\ health.pc = "loaded"
  /\ health' = [NoHealth EXCEPT !.pc = "done"]
  /\ TrySave(Promoted(health.state, run.version))
  /\ UNCHANGED <<slots, feed, pc, boot, run, apply, dismiss, available, exiting,
                 quiet, passed, strikes>>

-----------------------------------------------------------------------------
(***************************************************************************)
(* The release feed and the apply pipeline. applyMu admits one pipeline at *)
(* a time; "staged" is a pipeline that has finished.                       *)
(***************************************************************************)
Publish ==
  /\ feed < MaxVersion
  /\ feed' = feed + 1
  /\ UNCHANGED <<device, pc, boot, process, quiet, passed, strikes>>

\* A check that failed, or found nothing newer than the running version,
\* forgets what an earlier one found.
CheckNow ==
  /\ pc = "running"
  /\ \/ available' = None
     \/ feed > run.version /\ available' = feed
  /\ UNCHANGED <<device, feed, pc, boot, run, health, apply, dismiss, exiting,
                 quiet, passed, strikes>>

OperatorMayAct == ~quiet /\ (HealthUndecided => "EarlyOperator" \in Hazards)

\* The operator applies the release found, or checks first if none is.
OperatorApply ==
  /\ pc = "running" /\ apply.pc \in {"idle", "staged"}
  /\ OperatorMayAct
  /\ LET v == IF available # None THEN available ELSE feed IN
       /\ v > run.version
       /\ apply' = [NoApply EXCEPT !.pc = "fetched", !.version = v]
       /\ available' = v
  /\ UNCHANGED <<device, feed, pc, boot, run, health, dismiss, exiting, quiet,
                 passed, strikes>>

\* Checker.tick, with auto-apply on and inside the window. Only the normal
\* mode runs it, no sooner than initialDelay (2 min) after the start, when
\* the health check (60 s) is over.
AutoApply ==
  /\ pc = "running" /\ apply.pc \in {"idle", "staged"}
  /\ run.mode = "normal" /\ ~HealthUndecided
  /\ available # None
  /\ doc.rolledBackFrom # available
  /\ apply' = [NoApply EXCEPT !.pc = "fetched", !.version = available]
  /\ UNCHANGED <<device, feed, pc, boot, run, health, dismiss, available, exiting,
                 quiet, passed, strikes>>

\* The manifest is fetched and verified: read the document, and go on if
\* the release is installable.
ApplyLoad ==
  /\ pc = "running" /\ apply.pc = "fetched"
  /\ CheckInstallable(apply.version, run.version, doc.versionFloor)
  /\ apply' = [apply EXCEPT !.pc = "loaded", !.state = doc]
  /\ UNCHANGED <<device, feed, pc, boot, run, health, dismiss, available, exiting,
                 quiet, passed, strikes>>

\* The download is complete, its hash right: rename it into the slot that
\* was not known-good when the document was read. installBinary syncs file
\* and directory, so the document on disk is durable from here on too.
ApplyInstall ==
  /\ pc = "running" /\ apply.pc = "loaded"
  /\ slots' = [slots EXCEPT ![Target(apply.state)] = apply.version]
  /\ durable' = doc
  /\ apply' = [apply EXCEPT !.pc = "installed"]
  /\ strikes' = 0
  /\ UNCHANGED <<doc, feed, pc, boot, run, health, dismiss, available, exiting,
                 quiet, passed>>

\* Write back the document read before the download, flipped to the new
\* release. On success both callers exit the process soon after.
ApplySave ==
  /\ pc = "running" /\ apply.pc = "installed"
  /\ Save(Staged(apply.state, apply.version))
  /\ apply' = [NoApply EXCEPT !.pc = "staged"]
  /\ available' = None
  /\ exiting' = TRUE
  /\ UNCHANGED <<slots, feed, pc, boot, run, health, dismiss, quiet, passed,
                 strikes>>

\* A fetch, a check, the download or the final write fails.
ApplyFails ==
  /\ pc = "running"
  /\ \/ apply.pc \in {"fetched", "loaded"}
     \/ apply.pc = "installed" /\ May("SaveFails")
  /\ apply' = NoApply
  /\ UNCHANGED <<device, feed, pc, boot, run, health, dismiss, available, exiting,
                 quiet, passed, strikes>>

-----------------------------------------------------------------------------
(***************************************************************************)
(* The operator dismisses the rollback banner.                             *)
(***************************************************************************)
DismissLoad ==
  /\ pc = "running" /\ dismiss.pc = "idle"
  /\ OperatorMayAct
  /\ dismiss' = [pc |-> "loaded", state |-> doc]
  /\ UNCHANGED <<device, feed, pc, boot, run, health, apply, available, exiting,
                 quiet, passed, strikes>>

DismissSave ==
  /\ pc = "running" /\ dismiss.pc = "loaded"
  /\ dismiss' = NoDismiss
  /\ TrySave(Dismissed(dismiss.state))
  /\ UNCHANGED <<slots, feed, pc, boot, run, health, apply, available, exiting,
                 quiet, passed, strikes>>

-----------------------------------------------------------------------------
(***************************************************************************)
(* The end of a process.                                                   *)
(***************************************************************************)
Die ==
  /\ pc' = "down" /\ boot' = NoBoot
  /\ ForgetProcess
  /\ UNCHANGED <<slots, feed, quiet, passed>>

\* The exit that follows a successful apply.
ExitToRestart == pc = "running" /\ exiting /\ Die /\ UNCHANGED <<doc, durable, strikes>>

Crash ==
  /\ pc = "running" /\ run.version \in Crashing
  /\ Die /\ UNCHANGED <<doc, durable, strikes>>

\* A restart from outside: the operator's restart or reboot, a saved config,
\* the watchdog. A quiet operator still restarts out of recovery mode.
Restart ==
  /\ pc = "running" /\ (quiet => run.mode = "recovery")
  /\ Die /\ UNCHANGED <<doc, durable, strikes>>

PowerCut ==
  /\ May("PowerCut")
  /\ Die
  /\ doc' \in {doc, durable} /\ durable' = doc'
  /\ strikes' = 0

Settle ==
  /\ quiet' = TRUE
  /\ ~quiet
  /\ UNCHANGED <<device, feed, pc, boot, process, passed, strikes>>

-----------------------------------------------------------------------------
Launcher == LauncherDecide \/ LauncherExec \/ LauncherFallBack \/ LauncherFails
HealthRun == HealthCheck \/ HealthDeadline \/ PromoteLoad \/ PromoteSave
ApplyRun == ApplyLoad \/ ApplyInstall \/ ApplySave \/ ApplyFails
Dismissal == DismissLoad \/ DismissSave
Environment == Publish \/ Crash \/ Restart \/ PowerCut \/ Settle

Next ==
  \/ Launcher \/ HealthRun
  \/ CheckNow \/ OperatorApply \/ AutoApply \/ ApplyRun \/ Dismissal
  \/ ExitToRestart \/ Environment

\* systemd restarts the launcher and the launcher never blocks; every
\* goroutine of the payload is scheduled; a build that crashes does so; and
\* at some time the disturbances end.
Fairness ==
  /\ WF_vars(Launcher)
  /\ WF_vars(HealthRun)
  /\ WF_vars(ApplyRun)
  /\ WF_vars(DismissSave)
  /\ WF_vars(ExitToRestart)
  /\ WF_vars(Crash)
  /\ WF_vars(Settle)

Spec == Init /\ [][Next]_vars
FairSpec == Spec /\ Fairness

-----------------------------------------------------------------------------
(***************************************************************************)
(* Properties.                                                             *)
(***************************************************************************)
TypeOK ==
  /\ doc \in State /\ durable \in State
  /\ slots \in [Slot -> Version \cup {None}]
  /\ feed \in Version
  /\ pc \in {"down", "exec", "fallback", "running"}
  /\ boot \in [slot : Slot, recovery : BOOLEAN, state : State]
  /\ run \in [slot : Slot, version : Version, mode : {"normal", "fault", "recovery"}]
  /\ health \in [pc : {"off", "waiting", "checked", "loaded", "done"}, state : State]
  /\ apply \in [pc : {"idle", "fetched", "loaded", "installed", "staged"},
                version : Version, state : State]
  /\ dismiss \in [pc : {"idle", "loaded"}, state : State]
  /\ available \in Release \cup {None}
  /\ exiting \in BOOLEAN /\ quiet \in BOOLEAN
  /\ passed \subseteq Version /\ strikes \in 0 .. MaxBootAttempts + 1

\* The double-fault guarantee (state.go: "KnownGood is the last slot that
\* passed the payload health check"): whatever the interleaving of launcher,
\* health check, apply pipeline and dismissal, and wherever power is cut,
\* the slot the launcher falls back to holds a binary that has passed.
KnownGoodProven ==
  \A d \in {doc, durable} : slots[d.knownGood] \in passed

\* "The apply pipeline never writes this slot" (state.go, apply.go): no step
\* changes the binary of the slot named known-good at that moment.
KnownGoodKept ==
  [][\A s \in Slot : slots'[s] # slots[s] => s # doc.knownGood]_vars

\* The rollback restores ActiveVersion from KnownGoodVersion: that must be
\* the version of the binary really there, after any crash.
KnownGoodVersionTrue ==
  \A d \in {doc, durable} : slots[d.knownGood] = d.knownGoodVersion

\* The version the device can always return to never gets older: "version must
\* be strictly newer than running" (manifest.go) is checked once, before the
\* download, and has to survive every order of rollbacks, promotions and stale
\* write-backs after it. Only a power cut may undo the last promotion, whose
\* rename was not yet synced.
NeverOlder ==
  [][PowerCut \/ doc'.knownGoodVersion >= doc.knownGoodVersion]_vars

\* There is always something to boot: the launcher gives up only when the
\* exec of a binary that is sound has failed, whatever was downloaded into
\* the other slot and wherever power was cut while state.json was written.
AlwaysBootable == [][LauncherFails => slots[boot.slot] \in Loadable]_vars

\* "3 strikes" (slots.go): a release that never passes its health check is
\* exec'd at most MaxBootAttempts times per install, over all restarts,
\* rollbacks and interleaved writes of the document. (A power cut may undo
\* the last count: the three are then counted afresh.)
ThreeStrikes == strikes <= MaxBootAttempts

\* Once nothing external disturbs the device and with auto-apply on, it
\* ends up running, for good, a version able to pass its health check: bad
\* releases are rolled back and not applied again (checker.go tick: "reapply
\* it forever, undoing the rollback nightly").
Converges == <>[](pc = "running" /\ run.version \in Healthy)

AB == INSTANCE SlotGuarantee
        WITH Slots <- Slot, Binaries <- Version \cup {None}, good <- doc.knownGood,
             content <- slots, proven <- passed

\* The two slots implement the guarantee of an A/B device.
Guarantee == AB!Spec
=============================================================================

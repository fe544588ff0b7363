---------------------------- MODULE UpdaterProofs ----------------------------
(***************************************************************************)
(* Theorems about Updater, for every set of releases and every kind of     *)
(* build.                                                                  *)
(***************************************************************************)
EXTENDS Updater, TLAPS

-----------------------------------------------------------------------------
(***************************************************************************)
(* The pure operators stay within the document's type.                     *)
(***************************************************************************)
\* Two documents name the same known-good slot and version.
SameGood(s, t) ==
  s.knownGood = t.knownGood /\ s.knownGoodVersion = t.knownGoodVersion

LEMMA SeedType == \A v \in Version : SeedState(v) \in State
  BY VersionAssumption DEF SeedState, State, Version, Slot, None, MaxBootAttempts

LEMMA RollbackType ==
  \A s \in State : Rollback(s) \in State /\ SameGood(Rollback(s), s)
<1>1. SUFFICES ASSUME NEW s \in State
               PROVE  Rollback(s) \in State /\ SameGood(Rollback(s), s)
  OBVIOUS
<1>2. 1 \in 0 .. MaxBootAttempts
  BY DEF MaxBootAttempts
<1>3. QED
  BY <1>2 DEF Rollback, State, SameGood

LEMMA DecideType ==
  \A s \in State :
    /\ Decide(s) \in [slot : Slot, recovery : BOOLEAN, state : State]
    /\ SameGood(Decide(s).state, s)
<1>1. SUFFICES ASSUME NEW s \in State
               PROVE  /\ Decide(s) \in [slot : Slot, recovery : BOOLEAN, state : State]
                      /\ SameGood(Decide(s).state, s)
  OBVIOUS
<1>2. CASE s.bootAttempts + 1 <= MaxBootAttempts
  BY <1>2 DEF Decide, State, MaxBootAttempts, SameGood
<1>3. CASE ~(s.bootAttempts + 1 <= MaxBootAttempts) /\ s.active # s.knownGood
  BY <1>3, RollbackType DEF Decide, State
<1>4. CASE ~(s.bootAttempts + 1 <= MaxBootAttempts) /\ s.active = s.knownGood
  BY <1>4 DEF Decide, State, MaxBootAttempts, SameGood
<1>5. QED
  BY <1>2, <1>3, <1>4

LEMMA PromotedType ==
  \A s \in State, v \in Version :
    /\ Promoted(s, v) \in State
    /\ Promoted(s, v).knownGood = s.active
    /\ Promoted(s, v).knownGoodVersion = v
<1>1. SUFFICES ASSUME NEW s \in State, NEW v \in Version
               PROVE  /\ Promoted(s, v) \in State
                      /\ Promoted(s, v).knownGood = s.active
                      /\ Promoted(s, v).knownGoodVersion = v
  OBVIOUS
<1>2. 0 \in 0 .. MaxBootAttempts
  BY DEF MaxBootAttempts
<1>3. QED
  BY <1>2 DEF Promoted, State

LEMMA DismissedType ==
  \A s \in State : Dismissed(s) \in State /\ SameGood(Dismissed(s), s)
  BY DEF Dismissed, State, None, SameGood

LEMMA TargetType ==
  \A s \in State : Target(s) \in Slot /\ Target(s) # s.knownGood
  BY DEF Target, OtherSlot, State, Slot

LEMMA StagedType ==
  \A s \in State, v \in Release :
    Staged(s, v) \in State /\ SameGood(Staged(s, v), s)
<1>1. SUFFICES ASSUME NEW s \in State, NEW v \in Release
               PROVE  Staged(s, v) \in State /\ SameGood(Staged(s, v), s)
  OBVIOUS
<1>2. v \in Version /\ MinVersion[v] \in Version
  BY VersionAssumption DEF Release, Version
<1>3. MaxOfVersions(s.versionFloor, MinVersion[v]) \in Version
  BY <1>2 DEF MaxOfVersions, State
<1>4. 0 \in 0 .. MaxBootAttempts
  BY DEF MaxBootAttempts
<1>5. QED
  BY <1>2, <1>3, <1>4, TargetType DEF Staged, State, SameGood

-----------------------------------------------------------------------------
(***************************************************************************)
(* Types. A pipeline under way holds a release, never a "dev" version: it  *)
(* is newer than the running version.                                      *)
(***************************************************************************)
ApplyingRelease ==
  apply.pc \in {"fetched", "loaded", "installed"} => apply.version \in Release

TypeInv == TypeOK /\ ApplyingRelease

LEMMA InitialVersion == Initial \in Version /\ Initial \in Loadable
  BY KindAssumption

LEMMA NoStates ==
  /\ NoBoot \in [slot : Slot, recovery : BOOLEAN, state : State]
  /\ NoRun \in [slot : Slot, version : Version, mode : {"normal", "fault", "recovery"}]
  /\ NoHealth \in [pc : {"off", "waiting", "checked", "loaded", "done"}, state : State]
  /\ NoApply \in [pc : {"idle", "fetched", "loaded", "installed", "staged"},
                  version : Version, state : State]
  /\ NoDismiss \in [pc : {"idle", "loaded"}, state : State]
  BY SeedType, InitialVersion DEF NoBoot, NoRun, NoHealth, NoApply, NoDismiss, Slot

LEMMA TypeInit == Init => TypeInv
<1> SUFFICES ASSUME Init PROVE TypeInv
  OBVIOUS
<1>1. doc \in State /\ durable \in State
  BY SeedType, InitialVersion DEF Init
<1>2. slots \in [Slot -> Version \cup {None}]
  BY InitialVersion DEF Init
<1>3. strikes \in 0 .. MaxBootAttempts + 1
  BY DEF Init, MaxBootAttempts
<1>4. ApplyingRelease
  BY DEF Init, ApplyingRelease, NoApply
<1>5. QED
  BY <1>1, <1>2, <1>3, <1>4, NoStates, InitialVersion DEF Init, TypeInv, TypeOK

LEMMA TypeLauncher == TypeInv /\ Launcher => TypeInv'
<1> SUFFICES ASSUME TypeInv, Launcher PROVE TypeInv'
  OBVIOUS
<1> USE DEF TypeInv, TypeOK, ApplyingRelease, device, process
<1>1. CASE LauncherDecide
  BY <1>1, DecideType DEF LauncherDecide, TrySave, Save
<1>2. CASE LauncherExec
  <2>1. PICK mode \in {"normal", "fault", "recovery"} : Become(mode)
    BY <1>2 DEF LauncherExec
  <2>2. run' \in [slot : Slot, version : Version, mode : {"normal", "fault", "recovery"}]
    BY <2>1, KindAssumption DEF Become
  <2>3. health' \in [pc : {"off", "waiting", "checked", "loaded", "done"}, state : State]
    BY <2>1, NoStates DEF Become
  <2>4. strikes' \in 0 .. MaxBootAttempts + 1
    BY <2>1 DEF Become, MaxBootAttempts
  <2>5. QED
    BY <2>1, <2>2, <2>3, <2>4, NoStates DEF Become
<1>3. CASE LauncherFallBack
  BY <1>3, RollbackType DEF LauncherFallBack, TrySave, Save, State
<1>4. CASE LauncherFails
  BY <1>4, NoStates DEF LauncherFails
<1>5. QED
  BY <1>1, <1>2, <1>3, <1>4 DEF Launcher

LEMMA TypeHealth == TypeInv /\ HealthRun => TypeInv'
<1> SUFFICES ASSUME TypeInv, HealthRun PROVE TypeInv'
  OBVIOUS
<1> USE DEF TypeInv, TypeOK, ApplyingRelease, device
<1>1. CASE HealthCheck
  BY <1>1 DEF HealthCheck
<1>2. CASE HealthDeadline
  BY <1>2 DEF HealthDeadline
<1>3. CASE PromoteLoad
  BY <1>3 DEF PromoteLoad
<1>4. CASE PromoteSave
  <2>1. Promoted(health.state, run.version) \in State
    BY PromotedType
  <2>2. QED
    BY <1>4, <2>1, NoStates DEF PromoteSave, TrySave, Save
<1>5. QED
  BY <1>1, <1>2, <1>3, <1>4 DEF HealthRun

LEMMA TypeApply ==
  TypeInv /\ (CheckNow \/ OperatorApply \/ AutoApply \/ ApplyRun) => TypeInv'
<1> SUFFICES ASSUME TypeInv, CheckNow \/ OperatorApply \/ AutoApply \/ ApplyRun
             PROVE TypeInv'
  OBVIOUS
<1> USE DEF TypeInv, TypeOK, ApplyingRelease, device
<1>1. CASE CheckNow
  BY <1>1, VersionAssumption DEF CheckNow, Version, Release
<1>2. CASE OperatorApply
  <2> DEFINE v == IF available # None THEN available ELSE feed
  <2>1. v \in Release
    BY <1>2, VersionAssumption DEF OperatorApply, Version, Release, None
  <2>2. v \in Version
    BY <2>1 DEF Release, Version
  <2>3. apply' = [NoApply EXCEPT !.pc = "fetched", !.version = v] /\ available' = v
    BY <1>2 DEF OperatorApply
  <2>4. apply' \in [pc : {"idle", "fetched", "loaded", "installed", "staged"},
                    version : Version, state : State] /\ apply'.version = v
    BY <2>2, <2>3, NoStates
  <2>5. QED
    BY <1>2, <2>1, <2>2, <2>3, <2>4 DEF OperatorApply
<1>3. CASE AutoApply
  <2>1. available \in Release /\ available \in Version
    BY <1>3, VersionAssumption DEF AutoApply, Release, Version
  <2>2. apply' = [NoApply EXCEPT !.pc = "fetched", !.version = available]
    BY <1>3 DEF AutoApply
  <2>3. apply' \in [pc : {"idle", "fetched", "loaded", "installed", "staged"},
                    version : Version, state : State] /\ apply'.version = available
    BY <2>1, <2>2, NoStates
  <2>4. QED
    BY <1>3, <2>1, <2>3 DEF AutoApply
<1>4. CASE ApplyLoad
  BY <1>4 DEF ApplyLoad
<1>5. CASE ApplyInstall
  BY <1>5, TargetType DEF ApplyInstall, MaxBootAttempts, None
<1>6. CASE ApplySave
  <2>1. Staged(apply.state, apply.version) \in State
    BY <1>6, StagedType DEF ApplySave
  <2>2. QED
    BY <1>6, <2>1, NoStates DEF ApplySave, Save, None, NoApply
<1>7. CASE ApplyFails
  BY <1>7, NoStates DEF ApplyFails, NoApply
<1>8. QED
  BY <1>1, <1>2, <1>3, <1>4, <1>5, <1>6, <1>7 DEF ApplyRun

LEMMA TypeDismissal == TypeInv /\ Dismissal => TypeInv'
<1> SUFFICES ASSUME TypeInv, Dismissal PROVE TypeInv'
  OBVIOUS
<1> USE DEF TypeInv, TypeOK, ApplyingRelease, device
<1>1. CASE DismissLoad
  BY <1>1 DEF DismissLoad
<1>2. CASE DismissSave
  BY <1>2, DismissedType, NoStates DEF DismissSave, TrySave, Save
<1>3. QED
  BY <1>1, <1>2 DEF Dismissal

\* A process that ends leaves the types alone.
LEMMA TypeDie ==
  TypeInv /\ Die /\ doc' \in State /\ durable' \in State
    /\ strikes' \in 0 .. MaxBootAttempts + 1 => TypeInv'
  BY NoStates DEF TypeInv, TypeOK, ApplyingRelease, Die, ForgetProcess, NoApply

LEMMA TypeEnvironment == TypeInv /\ (ExitToRestart \/ Environment) => TypeInv'
<1> SUFFICES ASSUME TypeInv, ExitToRestart \/ Environment PROVE TypeInv'
  OBVIOUS
<1>1. CASE Publish
  BY <1>1, VersionAssumption
     DEF Publish, TypeInv, TypeOK, ApplyingRelease, device, process, Version
<1>2. CASE ExitToRestart \/ Crash \/ Restart
  BY <1>2, TypeDie DEF ExitToRestart, Crash, Restart, TypeInv, TypeOK
<1>3. CASE PowerCut
  BY <1>3, TypeDie DEF PowerCut, TypeInv, TypeOK, MaxBootAttempts
<1>4. CASE Settle
  BY <1>4 DEF Settle, TypeInv, TypeOK, ApplyingRelease, device, process
<1>5. QED
  BY <1>1, <1>2, <1>3, <1>4 DEF Environment

LEMMA TypeStutter == TypeInv /\ UNCHANGED vars => TypeInv'
  BY DEF TypeInv, TypeOK, ApplyingRelease, vars

\* Every variable keeps its type, and a pipeline under way holds a release.
THEOREM TypeInvariance == Spec => []TypeInv
<1>1. TypeInv /\ [Next]_vars => TypeInv'
  BY TypeLauncher, TypeHealth, TypeApply, TypeDismissal, TypeEnvironment,
     TypeStutter DEF Next
<1>2. QED
  BY <1>1, TypeInit, PTL DEF Spec

\* Every variable of the updater keeps its type (launcher, health, apply).
THEOREM TypeCorrect == Spec => []TypeOK
<1>1. TypeInv => TypeOK
  BY DEF TypeInv
<1>2. QED
  BY <1>1, TypeInvariance, PTL

-----------------------------------------------------------------------------
(***************************************************************************)
(* The double-fault guarantee, provided the operator leaves the updater    *)
(* alone until the health check is decided. KnownGoodProven is not         *)
(* inductive: a stale document may be written back, so what the writers    *)
(* still hold in memory has to agree with the disk. While the health check *)
(* is undecided no other writer is under way; afterwards no writer moves   *)
(* the known-good slot, so every copy names the one on disk.               *)
(***************************************************************************)
Good(d) == slots[d.knownGood] \in passed /\ slots[d.knownGood] = d.knownGoodVersion

OneProcess ==
  pc # "running" => health.pc = "off" /\ apply.pc = "idle" /\ dismiss.pc = "idle"

HealthAlone ==
  HealthUndecided =>
    /\ apply.pc = "idle" /\ dismiss.pc = "idle"
    /\ slots[run.slot] = run.version

Blessing ==
  /\ health.pc \in {"checked", "loaded"} =>
       doc.active = run.slot /\ run.version \in passed
  /\ health.pc = "loaded" => health.state.active = run.slot

CopiesAgree ==
  /\ pc \in {"exec", "fallback"} => SameGood(boot.state, doc)
  /\ apply.pc \in {"loaded", "installed"} => SameGood(apply.state, doc)
  /\ dismiss.pc = "loaded" => SameGood(dismiss.state, doc)

GoodInv ==
  Good(doc) /\ Good(durable) /\ OneProcess /\ HealthAlone /\ Blessing /\ CopiesAgree

LEMMA GoodInit == Init => GoodInv
  BY DEF Init, GoodInv, Good, OneProcess, HealthAlone, Blessing, CopiesAgree,
         HealthUndecided, SeedState, NoHealth, NoApply, NoDismiss, Slot

\* A write that leaves the known-good slot and version alone.
LEMMA GoodSave ==
  ASSUME GoodInv, NEW s, TrySave(s), SameGood(s, doc), UNCHANGED <<slots, passed>>
  PROVE  Good(doc)' /\ Good(durable)' /\ SameGood(doc', doc)
  BY DEF GoodInv, Good, TrySave, Save, SameGood

LEMMA GoodLauncher == TypeInv /\ GoodInv /\ Launcher => GoodInv'
<1> SUFFICES ASSUME TypeInv, GoodInv, Launcher PROVE GoodInv'
  OBVIOUS
<1> USE DEF device, process, HealthUndecided
<1>1. CASE LauncherDecide
  <2>1. SameGood(Decide(doc).state, doc)
    BY DecideType DEF TypeInv, TypeOK
  <2>2. Good(doc)' /\ Good(durable)' /\ SameGood(doc', doc)
    BY <1>1, <2>1, GoodSave DEF LauncherDecide
  <2>3. QED
    BY <1>1, <2>1, <2>2
       DEF LauncherDecide, GoodInv, OneProcess, HealthAlone, Blessing, CopiesAgree, SameGood
<1>2. CASE LauncherExec
  <2>1. PICK mode \in {"normal", "fault", "recovery"} : Become(mode)
    BY <1>2 DEF LauncherExec
  <2>2. health'.pc \in {"waiting", "off"}
    BY <2>1 DEF Become, NoHealth
  <2>3. pc # "running" /\ pc' = "running"
    BY <1>2, <2>1 DEF LauncherExec, Become
  <2>4. slots[run.slot]' = run'.version
    BY <2>1 DEF Become
  <2>5. QED
    BY <2>1, <2>2, <2>3, <2>4
       DEF Become, GoodInv, Good, OneProcess, HealthAlone, Blessing, CopiesAgree
<1>3. CASE LauncherFallBack
  <2>1. SameGood(Rollback(boot.state), doc)
    BY <1>3, RollbackType
       DEF LauncherFallBack, GoodInv, CopiesAgree, SameGood, TypeInv, TypeOK
  <2>2. Good(doc)' /\ Good(durable)' /\ SameGood(doc', doc)
    BY <1>3, <2>1, GoodSave DEF LauncherFallBack
  <2>3. QED
    BY <1>3, <2>1, <2>2
       DEF LauncherFallBack, GoodInv, OneProcess, HealthAlone, Blessing, CopiesAgree,
           SameGood
<1>4. CASE LauncherFails
  BY <1>4 DEF LauncherFails, GoodInv, Good, OneProcess, HealthAlone, Blessing,
              CopiesAgree
<1>5. QED
  BY <1>1, <1>2, <1>3, <1>4 DEF Launcher

LEMMA GoodHealth == TypeInv /\ GoodInv /\ HealthRun => GoodInv'
<1> SUFFICES ASSUME TypeInv, GoodInv, HealthRun PROVE GoodInv'
  OBVIOUS
<1> USE DEF device, HealthUndecided, GoodInv, Good, OneProcess, HealthAlone, Blessing,
            CopiesAgree
<1>1. CASE HealthCheck
  BY <1>1 DEF HealthCheck, TypeInv, TypeOK
<1>2. CASE HealthDeadline
  BY <1>2 DEF HealthDeadline, TypeInv, TypeOK
<1>3. CASE PromoteLoad
  BY <1>3 DEF PromoteLoad
<1>4. CASE PromoteSave
  <2> DEFINE p == Promoted(health.state, run.version)
  <2>0. health.state \in State /\ run.version \in Version
    BY DEF TypeInv, TypeOK
  <2>1. p.knownGood = run.slot /\ p.knownGoodVersion = run.version
    <3>1. p.knownGood = health.state.active /\ p.knownGoodVersion = run.version
      BY <2>0, PromotedType
    <3>2. QED
      BY <1>4, <3>1 DEF PromoteSave
  <2>2. slots[run.slot] = run.version /\ run.version \in passed
    BY <1>4 DEF PromoteSave
  <2>3. Good(doc)' /\ Good(durable)'
    BY <1>4, <2>1, <2>2 DEF PromoteSave, TrySave, Save
  <2>4. QED
    BY <1>4, <2>3 DEF PromoteSave, NoHealth
<1>5. QED
  BY <1>1, <1>2, <1>3, <1>4 DEF HealthRun

LEMMA GoodApply ==
  ASSUME "EarlyOperator" \notin Hazards
  PROVE  TypeInv /\ GoodInv /\ (CheckNow \/ OperatorApply \/ AutoApply \/ ApplyRun)
           => GoodInv'
<1> SUFFICES ASSUME TypeInv, GoodInv,
                    CheckNow \/ OperatorApply \/ AutoApply \/ ApplyRun
             PROVE GoodInv'
  OBVIOUS
<1> USE DEF device, HealthUndecided, GoodInv, Good, OneProcess, HealthAlone, Blessing,
            CopiesAgree
<1>1. CASE CheckNow
  BY <1>1 DEF CheckNow
<1>2. CASE OperatorApply
  BY <1>2 DEF OperatorApply, OperatorMayAct, NoApply
<1>3. CASE AutoApply
  BY <1>3 DEF AutoApply, NoApply
<1>4. CASE ApplyLoad
  BY <1>4 DEF ApplyLoad, SameGood, TypeInv, TypeOK
<1>5. CASE ApplyInstall
  <2>1. Target(apply.state) \in Slot /\ Target(apply.state) # doc.knownGood
    BY <1>5, TargetType DEF ApplyInstall, SameGood, TypeInv, TypeOK
  <2>2. slots'[doc.knownGood] = slots[doc.knownGood]
    BY <1>5, <2>1 DEF ApplyInstall, TypeInv, TypeOK
  <2>3. Good(doc)' /\ Good(durable)'
    BY <1>5, <2>2 DEF ApplyInstall
  <2>4. ~HealthUndecided /\ ~HealthUndecided'
    BY <1>5 DEF ApplyInstall
  <2>5. QED
    BY <1>5, <2>3, <2>4 DEF ApplyInstall, TypeInv, TypeOK
<1>6. CASE ApplySave
  <2> DEFINE s == Staged(apply.state, apply.version)
  <2>1. SameGood(s, doc)
    BY <1>6, StagedType DEF ApplySave, SameGood, TypeInv, TypeOK, ApplyingRelease
  <2>2. Good(doc)' /\ Good(durable)' /\ SameGood(doc', doc)
    BY <1>6, <2>1 DEF ApplySave, Save, SameGood
  <2>3. ~HealthUndecided
    BY <1>6 DEF ApplySave
  <2>4. QED
    BY <1>6, <2>2, <2>3 DEF ApplySave, NoApply, SameGood
<1>7. CASE ApplyFails
  BY <1>7 DEF ApplyFails, NoApply
<1>8. QED
  BY <1>1, <1>2, <1>3, <1>4, <1>5, <1>6, <1>7 DEF ApplyRun

LEMMA GoodDismissal ==
  ASSUME "EarlyOperator" \notin Hazards
  PROVE  TypeInv /\ GoodInv /\ Dismissal => GoodInv'
<1> SUFFICES ASSUME TypeInv, GoodInv, Dismissal PROVE GoodInv'
  OBVIOUS
<1> USE DEF device, HealthUndecided, OneProcess, HealthAlone, Blessing, CopiesAgree
<1>1. CASE DismissLoad
  BY <1>1 DEF DismissLoad, OperatorMayAct, GoodInv, Good, SameGood
<1>2. CASE DismissSave
  <2>1. SameGood(Dismissed(dismiss.state), doc)
    BY <1>2, DismissedType DEF DismissSave, GoodInv, SameGood, TypeInv, TypeOK
  <2>2. Good(doc)' /\ Good(durable)' /\ SameGood(doc', doc)
    BY <1>2, <2>1, GoodSave DEF DismissSave
  <2>3. QED
    BY <1>2, <2>2 DEF DismissSave, NoDismiss, GoodInv, SameGood
<1>3. QED
  BY <1>1, <1>2 DEF Dismissal

LEMMA GoodDie ==
  GoodInv /\ Die /\ doc' \in {doc, durable} /\ durable' \in {doc, durable} => GoodInv'
  BY DEF GoodInv, Good, OneProcess, HealthAlone, Blessing, CopiesAgree, HealthUndecided,
         Die, ForgetProcess, NoHealth, NoApply, NoDismiss

LEMMA GoodEnvironment == GoodInv /\ (ExitToRestart \/ Environment) => GoodInv'
<1> SUFFICES ASSUME GoodInv, ExitToRestart \/ Environment PROVE GoodInv'
  OBVIOUS
<1>1. CASE Publish \/ Settle
  BY <1>1 DEF Publish, Settle, device, process, GoodInv, Good, OneProcess, HealthAlone,
              Blessing, CopiesAgree, HealthUndecided
<1>2. CASE ExitToRestart \/ Crash \/ Restart \/ PowerCut
  BY <1>2, GoodDie DEF ExitToRestart, Crash, Restart, PowerCut
<1>3. QED
  BY <1>1, <1>2 DEF Environment

LEMMA GoodStutter == GoodInv /\ UNCHANGED vars => GoodInv'
  BY DEF vars, GoodInv, Good, OneProcess, HealthAlone, Blessing, CopiesAgree,
         HealthUndecided

LEMMA GoodInvariance ==
  ASSUME "EarlyOperator" \notin Hazards
  PROVE  Spec => []GoodInv
<1>1. TypeInv /\ GoodInv /\ [Next]_vars => GoodInv'
  BY GoodLauncher, GoodHealth, GoodApply, GoodDismissal, GoodEnvironment, GoodStutter
     DEF Next
<1>2. QED
  BY <1>1, GoodInit, TypeInvariance, PTL DEF Spec

\* The slot the launcher falls back to always holds a binary that passed its
\* health check, also in the copy of the document a power cut may restore,
\* and the document records its version.
THEOREM KnownGoodIsProven ==
  ASSUME "EarlyOperator" \notin Hazards
  PROVE  Spec => [](KnownGoodProven /\ KnownGoodVersionTrue)
<1>1. GoodInv => KnownGoodProven /\ KnownGoodVersionTrue
  BY DEF GoodInv, Good, KnownGoodProven, KnownGoodVersionTrue
<1>2. QED
  BY <1>1, GoodInvariance, PTL

\* No step of the device overwrites the slot named known-good.
THEOREM KnownGoodIsKept ==
  ASSUME "EarlyOperator" \notin Hazards
  PROVE  Spec => KnownGoodKept
<1>1. TypeInv /\ GoodInv /\ [Next]_vars
        => [\A s \in Slot : slots'[s] # slots[s] => s # doc.knownGood]_vars
  <2> SUFFICES ASSUME TypeInv, GoodInv, Next, NEW s \in Slot, slots'[s] # slots[s]
               PROVE  s # doc.knownGood
    OBVIOUS
  <2>1. ApplyInstall
    BY DEF Next, Launcher, LauncherDecide, LauncherExec, Become, LauncherFallBack,
           LauncherFails, HealthRun, HealthCheck, HealthDeadline, PromoteLoad,
           PromoteSave, CheckNow, OperatorApply, AutoApply, ApplyRun, ApplyLoad,
           ApplySave, ApplyFails, Dismissal, DismissLoad, DismissSave, ExitToRestart,
           Environment, Publish, Crash, Restart, PowerCut, Settle, Die, device
  <2>2. s = Target(apply.state)
    BY <2>1 DEF ApplyInstall, TypeInv, TypeOK
  <2>3. QED
    BY <2>1, <2>2, TargetType
       DEF ApplyInstall, GoodInv, CopiesAgree, SameGood, TypeInv, TypeOK
<1>2. QED
  BY <1>1, TypeInvariance, GoodInvariance, PTL DEF Spec, KnownGoodKept

-----------------------------------------------------------------------------
(***************************************************************************)
(* Three strikes. The counter the promise is about, the execs of an        *)
(* unproven binary, is not in the document: what the document holds is     *)
(* bootAttempts, that Promote, Apply, a rollback and the recovery boot     *)
(* reset, and that a dismissal may write back from an older copy. So every *)
(* copy that may still be written has to count at least the strikes, as    *)
(* long as its active slot is the unproven one. A write that fails loses   *)
(* a count, which is why the theorem is about a device whose writes        *)
(* succeed.                                                                *)
(***************************************************************************)
Counted(d) == d.active # d.knownGood => strikes <= d.bootAttempts

CopiesCount ==
  /\ Counted(doc)
  /\ dismiss.pc = "loaded" => Counted(dismiss.state)
  /\ apply.pc = "installed" => strikes = 0

BootCounts ==
  /\ pc \in {"exec", "fallback"} => boot.state = doc /\ boot.slot = doc.active
  /\ pc = "exec" /\ boot.slot # doc.knownGood => strikes < doc.bootAttempts
  /\ pc = "fallback" => boot.slot = doc.knownGood

StrikeInv == ThreeStrikes /\ CopiesCount /\ BootCounts

\* The slot the launcher execs is the active one of the document it persists,
\* and a boot of the unproven slot has been counted there.
LEMMA DecideCounts ==
  \A s \in State :
    LET t == Decide(s).state IN
      /\ Decide(s).slot = t.active
      /\ t.active # t.knownGood =>
           t.active = s.active /\ t.bootAttempts = s.bootAttempts + 1
<1>1. SUFFICES ASSUME NEW s \in State
               PROVE  LET t == Decide(s).state IN
                        /\ Decide(s).slot = t.active
                        /\ t.active # t.knownGood =>
                             t.active = s.active /\ t.bootAttempts = s.bootAttempts + 1
  OBVIOUS
<1>2. CASE s.bootAttempts + 1 <= MaxBootAttempts
  BY <1>2 DEF Decide, State
<1>3. CASE ~(s.bootAttempts + 1 <= MaxBootAttempts) /\ s.active # s.knownGood
  BY <1>3 DEF Decide, Rollback, State
<1>4. CASE ~(s.bootAttempts + 1 <= MaxBootAttempts) /\ s.active = s.knownGood
  BY <1>4 DEF Decide, State
<1>5. QED
  BY <1>2, <1>3, <1>4

\* After a rollback and after a promotion the active slot is the proven one.
LEMMA RollbackEnds == \A s \in State : Rollback(s).active = Rollback(s).knownGood
  BY DEF Rollback, State

LEMMA PromotionEnds ==
  \A s \in State, v \in Version : Promoted(s, v).active = Promoted(s, v).knownGood
  BY DEF Promoted, State

LEMMA StrikeInit == Init => StrikeInv
  BY DEF Init, StrikeInv, ThreeStrikes, CopiesCount, BootCounts, Counted, SeedState,
         NoApply, NoDismiss, MaxBootAttempts

LEMMA StrikeLauncher ==
  ASSUME "SaveFails" \notin Hazards
  PROVE  TypeInv /\ GoodInv /\ StrikeInv /\ Launcher => StrikeInv'
<1> SUFFICES ASSUME TypeInv, GoodInv, StrikeInv, Launcher PROVE StrikeInv'
  OBVIOUS
<1> USE DEF device, process
<1>0. doc \in State /\ boot.state \in State /\ boot.slot \in Slot
  BY DEF TypeInv, TypeOK
<1>1. CASE LauncherDecide
  <2> DEFINE t == Decide(doc).state
  <2>1. doc' = t /\ boot' = Decide(doc) /\ boot'.state = t /\ pc' = "exec"
    BY <1>1 DEF LauncherDecide, TrySave, Save, May
  <2>2. t \in State
    BY <1>0, DecideType
  <2>3. boot'.slot = t.active
    BY <1>0, <2>1, DecideCounts
  <2>4. t.active # t.knownGood => strikes < t.bootAttempts
    <3>1. SUFFICES ASSUME t.active # t.knownGood PROVE strikes < t.bootAttempts
      OBVIOUS
    <3>2. doc.active # doc.knownGood /\ t.bootAttempts = doc.bootAttempts + 1
      BY <1>0, <3>1, DecideCounts, DecideType DEF SameGood
    <3>3. strikes <= doc.bootAttempts
      BY <3>2 DEF StrikeInv, CopiesCount, Counted
    <3>4. QED
      BY <1>0, <3>2, <3>3 DEF State, MaxBootAttempts, TypeInv, TypeOK
  <2>5. t.active # t.knownGood => strikes <= t.bootAttempts
    BY <2>2, <2>4 DEF State, MaxBootAttempts, TypeInv, TypeOK
  <2> HIDE DEF t
  <2>6. QED
    BY <1>1, <2>1, <2>3, <2>4, <2>5
       DEF LauncherDecide, StrikeInv, ThreeStrikes, CopiesCount, BootCounts, Counted,
           GoodInv, OneProcess
<1>2. CASE LauncherExec
  <2>1. PICK mode \in {"normal", "fault", "recovery"} : Become(mode)
    BY <1>2 DEF LauncherExec
  <2>2. pc' = "running" /\ UNCHANGED <<doc, apply, dismiss>>
    BY <2>1 DEF Become
  <2>3. boot.slot = doc.active /\ apply.pc = "idle" /\ dismiss.pc = "idle"
    BY <1>2 DEF LauncherExec, StrikeInv, BootCounts, GoodInv, OneProcess
  <2>4. CASE strikes' = strikes
    BY <2>2, <2>3, <2>4 DEF StrikeInv, ThreeStrikes, CopiesCount, BootCounts, Counted
  <2>5. CASE strikes' # strikes
    <3>1. strikes' = strikes + 1 /\ slots[boot.slot] \notin passed
      BY <2>1, <2>5 DEF Become
    <3>2. boot.slot # doc.knownGood
      BY <3>1 DEF GoodInv, Good
    <3>3. strikes < doc.bootAttempts
      BY <1>2, <3>2 DEF LauncherExec, StrikeInv, BootCounts
    <3>4. strikes' <= doc.bootAttempts /\ strikes' <= MaxBootAttempts
      BY <1>0, <3>1, <3>3 DEF State, MaxBootAttempts, TypeInv, TypeOK
    <3>5. QED
      BY <2>2, <2>3, <3>4 DEF StrikeInv, ThreeStrikes, CopiesCount, BootCounts, Counted
  <2>6. QED
    BY <2>4, <2>5
<1>3. CASE LauncherFallBack
  <2>1. boot.state = doc
    BY <1>3 DEF LauncherFallBack, StrikeInv, BootCounts
  <2>2. doc' = Rollback(doc) /\ boot'.state = doc' /\ boot'.slot = doc.knownGood
    BY <1>3, <2>1 DEF LauncherFallBack, TrySave, Save, May
  <2>3. doc'.active = doc.knownGood /\ doc'.knownGood = doc.knownGood
    BY <1>0, <2>2, RollbackType, RollbackEnds DEF SameGood
  <2>4. pc' = "fallback" /\ UNCHANGED <<apply, dismiss, strikes>>
    BY <1>3 DEF LauncherFallBack
  <2>5. QED
    BY <2>2, <2>3, <2>4
       DEF StrikeInv, ThreeStrikes, CopiesCount, BootCounts, Counted
<1>4. CASE LauncherFails
  BY <1>4 DEF LauncherFails, StrikeInv, ThreeStrikes, CopiesCount, BootCounts, Counted
<1>5. QED
  BY <1>1, <1>2, <1>3, <1>4 DEF Launcher

LEMMA StrikeHealth ==
  ASSUME "SaveFails" \notin Hazards
  PROVE  TypeInv /\ StrikeInv /\ HealthRun => StrikeInv'
<1> SUFFICES ASSUME TypeInv, StrikeInv, HealthRun PROVE StrikeInv'
  OBVIOUS
<1> USE DEF device, StrikeInv, ThreeStrikes, CopiesCount, BootCounts, Counted
<1>1. CASE HealthCheck \/ HealthDeadline \/ PromoteLoad
  BY <1>1 DEF HealthCheck, HealthDeadline, PromoteLoad
<1>2. CASE PromoteSave
  <2>1. health.state \in State /\ run.version \in Version
    BY DEF TypeInv, TypeOK
  <2>2. doc' = Promoted(health.state, run.version)
    BY <1>2 DEF PromoteSave, TrySave, Save, May
  <2>3. doc'.active = doc'.knownGood
    BY <2>1, <2>2, PromotionEnds
  <2>4. QED
    BY <1>2, <2>3 DEF PromoteSave
<1>3. QED
  BY <1>1, <1>2 DEF HealthRun

LEMMA StrikeApply ==
  TypeInv /\ StrikeInv /\ (CheckNow \/ OperatorApply \/ AutoApply \/ ApplyRun)
    => StrikeInv'
<1> SUFFICES ASSUME TypeInv, StrikeInv,
                    CheckNow \/ OperatorApply \/ AutoApply \/ ApplyRun
             PROVE StrikeInv'
  OBVIOUS
<1> USE DEF device, StrikeInv, ThreeStrikes, CopiesCount, BootCounts, Counted
<1>1. CASE CheckNow \/ OperatorApply \/ AutoApply
  BY <1>1 DEF CheckNow, OperatorApply, AutoApply, NoApply
<1>2. CASE ApplyLoad \/ ApplyFails
  <2>1. apply'.pc # "installed"
    <3>1. CASE ApplyLoad
      BY <3>1 DEF ApplyLoad, TypeInv, TypeOK
    <3>2. CASE ApplyFails
      BY <3>2 DEF ApplyFails, NoApply
    <3>3. QED
      BY <1>2, <3>1, <3>2
  <2>2. UNCHANGED <<doc, dismiss, boot, strikes>> /\ pc' = pc
    BY <1>2 DEF ApplyLoad, ApplyFails
  <2>3. QED
    BY <2>1, <2>2
<1>3. CASE ApplyInstall
  <2>1. strikes' = 0 /\ pc' = "running" /\ UNCHANGED <<doc, dismiss>>
    BY <1>3 DEF ApplyInstall
  <2>2. doc.bootAttempts \in Nat /\ dismiss.state.bootAttempts \in Nat
    BY DEF TypeInv, TypeOK, State
  <2>3. QED
    BY <2>1, <2>2 DEF MaxBootAttempts
<1>4. CASE ApplySave
  <2>1. doc' = Staged(apply.state, apply.version) /\ strikes = 0 /\ strikes' = strikes
    BY <1>4 DEF ApplySave, Save
  <2>2. doc'.bootAttempts = 0
    BY <2>1 DEF Staged, TypeInv, TypeOK, State
  <2>3. apply'.pc = "staged" /\ pc' = "running" /\ dismiss' = dismiss
    BY <1>4 DEF ApplySave, NoApply
  <2>4. QED
    BY <2>1, <2>2, <2>3
<1>5. QED
  BY <1>1, <1>2, <1>3, <1>4 DEF ApplyRun

LEMMA StrikeDismissal ==
  ASSUME "SaveFails" \notin Hazards
  PROVE  TypeInv /\ StrikeInv /\ Dismissal => StrikeInv'
<1> SUFFICES ASSUME TypeInv, StrikeInv, Dismissal PROVE StrikeInv'
  OBVIOUS
<1> USE DEF device, StrikeInv, ThreeStrikes, CopiesCount, BootCounts, Counted
<1>1. CASE DismissLoad
  BY <1>1 DEF DismissLoad
<1>2. CASE DismissSave
  <2>1. doc' = Dismissed(dismiss.state) /\ dismiss'.pc = "idle"
    BY <1>2 DEF DismissSave, TrySave, Save, May, NoDismiss
  <2>2. /\ doc'.active = dismiss.state.active
        /\ doc'.knownGood = dismiss.state.knownGood
        /\ doc'.bootAttempts = dismiss.state.bootAttempts
    BY <2>1 DEF Dismissed, TypeInv, TypeOK, State
  <2>3. QED
    BY <1>2, <2>1, <2>2 DEF DismissSave
<1>3. QED
  BY <1>1, <1>2 DEF Dismissal

LEMMA StrikeEnvironment ==
  TypeInv /\ StrikeInv /\ (ExitToRestart \/ Environment) => StrikeInv'
<1> SUFFICES ASSUME TypeInv, StrikeInv, ExitToRestart \/ Environment PROVE StrikeInv'
  OBVIOUS
<1> USE DEF StrikeInv, ThreeStrikes, CopiesCount, BootCounts, Counted
<1>1. CASE Publish \/ Settle
  BY <1>1 DEF Publish, Settle, device, process
<1>2. CASE ExitToRestart \/ Crash \/ Restart
  BY <1>2 DEF ExitToRestart, Crash, Restart, Die, ForgetProcess, NoApply, NoDismiss
<1>3. CASE PowerCut
  <2>1. strikes' = 0 /\ pc' = "down" /\ apply'.pc = "idle" /\ dismiss'.pc = "idle"
    BY <1>3 DEF PowerCut, Die, ForgetProcess, NoApply, NoDismiss
  <2>2. doc'.bootAttempts \in Nat
    BY <1>3 DEF PowerCut, TypeInv, TypeOK, State
  <2>3. QED
    BY <2>1, <2>2 DEF MaxBootAttempts
<1>4. QED
  BY <1>1, <1>2, <1>3 DEF Environment

LEMMA StrikeStutter == StrikeInv /\ UNCHANGED vars => StrikeInv'
  BY DEF vars, StrikeInv, ThreeStrikes, CopiesCount, BootCounts, Counted

\* Three strikes: when every write of the document succeeds and the operator
\* waits for the health check, a release that never passes is exec'd at most
\* MaxBootAttempts times per install, over all restarts, rollbacks and stale
\* write-backs.
THEOREM ThreeStrikesAndOut ==
  ASSUME Hazards \cap {"SaveFails", "EarlyOperator"} = {}
  PROVE  Spec => []ThreeStrikes
<1>0. "SaveFails" \notin Hazards /\ "EarlyOperator" \notin Hazards
  OBVIOUS
<1>1. TypeInv /\ GoodInv /\ StrikeInv /\ [Next]_vars => StrikeInv'
  BY <1>0, StrikeLauncher, StrikeHealth, StrikeApply, StrikeDismissal,
     StrikeEnvironment, StrikeStutter DEF Next
<1>2. Spec => []GoodInv
  BY <1>0, GoodInvariance
<1>3. StrikeInv => ThreeStrikes
  BY DEF StrikeInv
<1>4. QED
  BY <1>1, <1>2, <1>3, StrikeInit, TypeInvariance, PTL DEF Spec

-----------------------------------------------------------------------------
(***************************************************************************)
(* The known-good version only grows, but for the write a power cut may    *)
(* undo. What is promoted is the running version, so it must be as new as  *)
(* the known-good one: it is the known-good binary itself, or comes from   *)
(* the other slot. That slot is only booted when some document names it    *)
(* active, and then it holds a newer binary (Newer); every copy of the     *)
(* document that may still be written, or restored, has to satisfy this.   *)
(***************************************************************************)
Newer(d) == d.active # d.knownGood => slots[d.active] > d.knownGoodVersion

CopiesNewer ==
  /\ Newer(doc) /\ Newer(durable)
  /\ dismiss.pc = "loaded" => Newer(dismiss.state)
  /\ pc \in {"exec", "fallback"} => Newer(boot.state) /\ boot.slot = boot.state.active

PipelineNewer ==
  /\ apply.pc \in {"loaded", "installed"} => apply.version > run.version
  /\ apply.pc = "installed" => slots[Target(apply.state)] = apply.version

NewInv ==
  /\ CopiesNewer /\ PipelineNewer
  /\ pc = "running" => run.version >= doc.knownGoodVersion

LEMMA NewInit == Init => NewInv
  BY DEF Init, NewInv, CopiesNewer, PipelineNewer, Newer, SeedState, NoApply, NoDismiss

LEMMA NewLauncher == TypeInv /\ GoodInv /\ NewInv /\ Launcher => NewInv'
<1> SUFFICES ASSUME TypeInv, GoodInv, NewInv, Launcher PROVE NewInv'
  OBVIOUS
<1> USE DEF device, process, NewInv, CopiesNewer, PipelineNewer, Newer
<1>0. doc \in State /\ boot.state \in State
  BY DEF TypeInv, TypeOK
<1>1. CASE LauncherDecide
  <2> DEFINE t == Decide(doc).state
  <2>1. /\ doc' \in {doc, t} /\ durable' \in {doc, durable}
        /\ boot'.state = t /\ boot'.slot = Decide(doc).slot /\ pc' = "exec"
    BY <1>1 DEF LauncherDecide, TrySave, Save
  <2>2. boot'.slot = t.active
    BY <1>0, <2>1, DecideCounts
  <2>3. t.active # t.knownGood => slots[t.active] > t.knownGoodVersion
    BY <1>0, DecideCounts, DecideType DEF SameGood
  <2> HIDE DEF t
  <2>4. QED
    BY <1>1, <2>1, <2>2, <2>3 DEF LauncherDecide, GoodInv, OneProcess
<1>2. CASE LauncherExec
  <2>1. PICK mode \in {"normal", "fault", "recovery"} : Become(mode)
    BY <1>2 DEF LauncherExec
  <2>2. pc' = "running" /\ UNCHANGED <<doc, durable, slots, apply, dismiss>>
    BY <2>1 DEF Become
  <2>3. pc # "running" /\ boot.slot = boot.state.active /\ SameGood(boot.state, doc)
    BY <1>2 DEF LauncherExec, GoodInv, CopiesAgree
  <2>4. apply.pc = "idle" /\ dismiss.pc = "idle"
    BY <2>3 DEF GoodInv, OneProcess
  <2>5. run'.version = slots[boot.slot] /\ slots[boot.slot] \in Version
    BY <2>1, KindAssumption DEF Become
  <2>6. slots[boot.slot] >= doc.knownGoodVersion
    <3>1. CASE boot.slot = doc.knownGood
      BY <2>5, <3>1 DEF GoodInv, Good, Version
    <3>2. CASE boot.slot # doc.knownGood
      BY <1>0, <1>2, <2>3, <2>5, <3>2 DEF LauncherExec, SameGood, State, Version
    <3>3. QED
      BY <3>1, <3>2
  <2>7. QED
    BY <2>2, <2>4, <2>5, <2>6
<1>3. CASE LauncherFallBack
  <2> DEFINE t == Rollback(boot.state)
  <2>1. /\ doc' \in {doc, t} /\ durable' \in {doc, durable}
        /\ boot'.state = t /\ boot'.slot = boot.state.knownGood /\ pc' = "fallback"
    BY <1>3 DEF LauncherFallBack, TrySave, Save
  <2>2. t.active = t.knownGood /\ t.knownGood = boot.state.knownGood
    BY <1>0, RollbackEnds, RollbackType DEF SameGood
  <2> HIDE DEF t
  <2>3. QED
    BY <1>3, <2>1, <2>2 DEF LauncherFallBack
<1>4. CASE LauncherFails
  BY <1>4 DEF LauncherFails
<1>5. QED
  BY <1>1, <1>2, <1>3, <1>4 DEF Launcher

LEMMA NewHealth == TypeInv /\ GoodInv /\ NewInv /\ HealthRun => NewInv'
<1> SUFFICES ASSUME TypeInv, GoodInv, NewInv, HealthRun PROVE NewInv'
  OBVIOUS
<1> USE DEF device, NewInv, CopiesNewer, PipelineNewer, Newer
<1>1. CASE HealthCheck \/ HealthDeadline \/ PromoteLoad
  BY <1>1 DEF HealthCheck, HealthDeadline, PromoteLoad
<1>2. CASE PromoteSave
  <2> DEFINE p == Promoted(health.state, run.version)
  <2>1. health.state \in State /\ run.version \in Version
    BY DEF TypeInv, TypeOK
  <2>2. p.active = p.knownGood /\ p.knownGoodVersion = run.version
    BY <2>1, PromotedType, PromotionEnds
  <2>3. /\ doc' \in {doc, p} /\ durable' \in {doc, durable}
        /\ UNCHANGED <<slots, pc, boot, run, apply, dismiss>>
    BY <1>2 DEF PromoteSave, TrySave, Save
  <2> HIDE DEF p
  <2>4. QED
    BY <2>1, <2>2, <2>3 DEF Version
<1>3. QED
  BY <1>1, <1>2 DEF HealthRun

LEMMA NewApply ==
  TypeInv /\ GoodInv /\ NewInv /\ (CheckNow \/ OperatorApply \/ AutoApply \/ ApplyRun)
    => NewInv'
<1> SUFFICES ASSUME TypeInv, GoodInv, NewInv,
                    CheckNow \/ OperatorApply \/ AutoApply \/ ApplyRun
             PROVE NewInv'
  OBVIOUS
<1> USE DEF device, NewInv, CopiesNewer, PipelineNewer, Newer
<1>1. CASE CheckNow \/ OperatorApply \/ AutoApply
  BY <1>1 DEF CheckNow, OperatorApply, AutoApply, NoApply
<1>2. CASE ApplyFails
  BY <1>2 DEF ApplyFails, NoApply
<1>3. CASE ApplyLoad
  <2>1. apply'.pc = "loaded" /\ apply'.version = apply.version
    BY <1>3 DEF ApplyLoad, TypeInv, TypeOK
  <2>2. apply.version > run.version
    BY <1>3 DEF ApplyLoad, CheckInstallable
  <2>3. QED
    BY <1>3, <2>1, <2>2 DEF ApplyLoad
<1>4. CASE ApplyInstall
  <2> DEFINE t == Target(apply.state)
  <2>1. t \in Slot /\ t # doc.knownGood
    BY <1>4, TargetType DEF ApplyInstall, GoodInv, CopiesAgree, SameGood, TypeInv, TypeOK
  <2>2. /\ slots'[t] = apply.version /\ durable' = doc /\ doc' = doc
        /\ UNCHANGED <<dismiss, run, pc, boot>> /\ pc = "running"
    BY <1>4, <2>1 DEF ApplyInstall, TypeInv, TypeOK
  <2>3. apply'.state = apply.state /\ apply'.version = apply.version
        /\ apply'.pc = "installed"
    BY <1>4 DEF ApplyInstall, TypeInv, TypeOK
  <2>4. apply.version > doc.knownGoodVersion
    BY <1>4 DEF ApplyInstall, TypeInv, TypeOK, State, Version
  <2>5. ASSUME NEW d \in State, SameGood(d, doc)
        PROVE  d.active # d.knownGood => slots'[d.active] > d.knownGoodVersion
    BY <2>1, <2>2, <2>4, <2>5 DEF SameGood, State, Slot
  <2>6. doc \in State /\ dismiss.state \in State /\ SameGood(doc, doc)
    BY DEF TypeInv, TypeOK, SameGood
  <2>7. dismiss.pc = "loaded" => SameGood(dismiss.state, doc)
    BY DEF GoodInv, CopiesAgree
  <2>8. apply.version > run.version
    BY <1>4 DEF ApplyInstall
  <2> HIDE DEF t
  <2>9. CopiesNewer'
    BY <2>2, <2>5, <2>6, <2>7
  <2>10. PipelineNewer'
    BY <2>2, <2>3, <2>8 DEF t
  <2>11. QED
    BY <2>2, <2>9, <2>10
<1>5. CASE ApplySave
  <2> DEFINE s == Staged(apply.state, apply.version)
  <2>1. SameGood(s, doc) /\ apply.state \in State
    BY <1>5, StagedType
       DEF ApplySave, GoodInv, CopiesAgree, SameGood, TypeInv, TypeOK, ApplyingRelease
  <2>2. s.active = Target(apply.state)
    BY <2>1 DEF Staged, State
  <2>3. slots[s.active] > doc.knownGoodVersion
    BY <1>5, <2>2 DEF ApplySave, TypeInv, TypeOK, State, Version
  <2>4. /\ doc' = s /\ durable' = doc /\ apply'.pc = "staged" /\ pc = "running"
        /\ UNCHANGED <<slots, pc, boot, run, dismiss>>
    BY <1>5 DEF ApplySave, Save, NoApply
  <2> HIDE DEF s
  <2>5. QED
    BY <2>1, <2>3, <2>4 DEF SameGood
<1>6. QED
  BY <1>1, <1>2, <1>3, <1>4, <1>5 DEF ApplyRun

LEMMA NewDismissal == TypeInv /\ GoodInv /\ NewInv /\ Dismissal => NewInv'
<1> SUFFICES ASSUME TypeInv, GoodInv, NewInv, Dismissal PROVE NewInv'
  OBVIOUS
<1> USE DEF device, NewInv, CopiesNewer, PipelineNewer, Newer
<1>1. CASE DismissLoad
  BY <1>1 DEF DismissLoad
<1>2. CASE DismissSave
  <2> DEFINE d == Dismissed(dismiss.state)
  <2>1. /\ doc' \in {doc, d} /\ durable' \in {doc, durable} /\ dismiss'.pc = "idle"
        /\ UNCHANGED <<slots, pc, boot, run, apply>> /\ dismiss.pc = "loaded"
    BY <1>2 DEF DismissSave, TrySave, Save, NoDismiss
  <2>2. d.active = dismiss.state.active /\ SameGood(d, dismiss.state)
    BY DismissedType DEF Dismissed, TypeInv, TypeOK, State
  <2>3. SameGood(dismiss.state, doc)
    BY <1>2 DEF DismissSave, GoodInv, CopiesAgree
  <2> HIDE DEF d
  <2>4. QED
    BY <2>1, <2>2, <2>3 DEF SameGood
<1>3. QED
  BY <1>1, <1>2 DEF Dismissal

LEMMA NewEnvironment == NewInv /\ (ExitToRestart \/ Environment) => NewInv'
<1> SUFFICES ASSUME NewInv, ExitToRestart \/ Environment PROVE NewInv'
  OBVIOUS
<1> USE DEF NewInv, CopiesNewer, PipelineNewer, Newer
<1>1. CASE Publish \/ Settle
  BY <1>1 DEF Publish, Settle, device, process
<1>2. CASE ExitToRestart \/ Crash \/ Restart \/ PowerCut
  <2>1. /\ pc' = "down" /\ apply'.pc = "idle" /\ dismiss'.pc = "idle" /\ slots' = slots
        /\ doc' \in {doc, durable} /\ durable' \in {doc, durable}
    BY <1>2 DEF ExitToRestart, Crash, Restart, PowerCut, Die, ForgetProcess, NoApply,
                NoDismiss
  <2>2. QED
    BY <2>1
<1>3. QED
  BY <1>1, <1>2 DEF Environment

LEMMA NewStutter == NewInv /\ UNCHANGED vars => NewInv'
  BY DEF vars, NewInv, CopiesNewer, PipelineNewer, Newer

\* Only the health check moves the known-good version, a power cut apart.
LEMMA OnlyPromotionMoves ==
  ASSUME TypeInv, GoodInv, Next, ~PowerCut, ~PromoteSave
  PROVE  doc'.knownGoodVersion = doc.knownGoodVersion
<1>1. CASE LauncherDecide
  BY <1>1, DecideType DEF LauncherDecide, TrySave, Save, SameGood, TypeInv, TypeOK
<1>2. CASE LauncherFallBack
  BY <1>2, RollbackType
     DEF LauncherFallBack, TrySave, Save, SameGood, GoodInv, CopiesAgree, TypeInv, TypeOK
<1>3. CASE ApplySave
  BY <1>3, StagedType
     DEF ApplySave, Save, SameGood, GoodInv, CopiesAgree, TypeInv, TypeOK, ApplyingRelease
<1>4. CASE DismissSave
  BY <1>4, DismissedType
     DEF DismissSave, TrySave, Save, SameGood, GoodInv, CopiesAgree, TypeInv, TypeOK
<1>5. CASE ~(LauncherDecide \/ LauncherFallBack \/ ApplySave \/ DismissSave)
  BY <1>5 DEF Next, Launcher, LauncherExec, Become, LauncherFails, HealthRun,
     HealthCheck, HealthDeadline, PromoteLoad, CheckNow, OperatorApply, AutoApply,
     ApplyRun, ApplyLoad, ApplyInstall, ApplyFails, Dismissal, DismissLoad,
     ExitToRestart, Environment, Publish, Crash, Restart, Settle, device
<1>6. QED
  BY <1>1, <1>2, <1>3, <1>4, <1>5

\* Whatever the order of launcher, health check, pipeline and dismissal, the
\* version the device can always return to never gets older, but for the last
\* write that a power cut undoes.
THEOREM TrustNeverAges ==
  ASSUME "EarlyOperator" \notin Hazards
  PROVE  Spec => NeverOlder
<1>1. TypeInv /\ GoodInv /\ NewInv /\ [Next]_vars => NewInv'
  BY NewLauncher, NewHealth, NewApply, NewDismissal, NewEnvironment, NewStutter DEF Next
<1>2. TypeInv /\ GoodInv /\ NewInv /\ [Next]_vars
        => [PowerCut \/ doc'.knownGoodVersion >= doc.knownGoodVersion]_vars
  <2> SUFFICES ASSUME TypeInv, GoodInv, NewInv, Next, ~PowerCut
               PROVE  doc'.knownGoodVersion >= doc.knownGoodVersion
    OBVIOUS
  <2>0. /\ doc.knownGoodVersion \in Int /\ run.version \in Version
        /\ health.state \in State
    BY DEF TypeInv, TypeOK, State, Version
  <2>1. CASE PromoteSave
    <3>1. \/ doc' = doc
          \/ doc'.knownGoodVersion = run.version
      BY <2>0, <2>1, PromotedType DEF PromoteSave, TrySave, Save
    <3>2. run.version >= doc.knownGoodVersion
      BY <2>1 DEF PromoteSave, NewInv
    <3>3. QED
      BY <2>0, <3>1, <3>2
  <2>2. CASE ~PromoteSave
    BY <2>0, <2>2, OnlyPromotionMoves
  <2>3. QED
    BY <2>1, <2>2
<1>3. Spec => []GoodInv
  BY GoodInvariance
<1>4. QED
  BY <1>1, <1>2, <1>3, NewInit, TypeInvariance, PTL DEF Spec, NeverOlder

-----------------------------------------------------------------------------
(***************************************************************************)
(* What the double-fault guarantee is for: the launcher ends at the        *)
(* known-good slot, and what passed its health check there can be exec'd.  *)
(***************************************************************************)
BootInv ==
  /\ passed \subseteq Healthy
  /\ pc = "fallback" => boot.slot = boot.state.knownGood

LEMMA BootInit == Init => BootInv
  BY KindAssumption DEF Init, BootInv

LEMMA BootStep == TypeInv /\ BootInv /\ [Next]_vars => BootInv'
<1> SUFFICES ASSUME TypeInv, BootInv, [Next]_vars PROVE BootInv'
  OBVIOUS
<1>1. CASE HealthCheck
  BY <1>1 DEF HealthCheck, BootInv
<1>2. CASE LauncherFallBack
  <2>1. Rollback(boot.state).knownGood = boot.state.knownGood
    BY RollbackType DEF SameGood, TypeInv, TypeOK
  <2>2. QED
    BY <1>2, <2>1 DEF LauncherFallBack, BootInv
<1>3. CASE ~HealthCheck /\ ~LauncherFallBack
  <2>1. passed' = passed
    BY <1>3 DEF Next, vars, Launcher, LauncherDecide, LauncherExec, Become,
         LauncherFails, HealthRun, HealthDeadline, PromoteLoad, PromoteSave, CheckNow,
         OperatorApply, AutoApply, ApplyRun, ApplyLoad, ApplyInstall, ApplySave,
         ApplyFails, Dismissal, DismissLoad, DismissSave, ExitToRestart, Environment,
         Publish, Crash, Restart, PowerCut, Settle, Die
  <2>2. pc' = "fallback" => pc = "fallback" /\ boot' = boot
    BY <1>3 DEF Next, vars, Launcher, LauncherDecide, LauncherExec, Become,
         LauncherFails, HealthRun, HealthDeadline, PromoteLoad, PromoteSave, CheckNow,
         OperatorApply, AutoApply, ApplyRun, ApplyLoad, ApplyInstall, ApplySave,
         ApplyFails, Dismissal, DismissLoad, DismissSave, ExitToRestart, Environment,
         Publish, Crash, Restart, PowerCut, Settle, Die
  <2>3. QED
    BY <2>1, <2>2 DEF BootInv
<1>4. QED
  BY <1>1, <1>2, <1>3

\* The launcher gives up only when the exec of a sound binary has failed.
THEOREM ThereIsAlwaysABoot ==
  ASSUME "EarlyOperator" \notin Hazards
  PROVE  Spec => AlwaysBootable
<1>1. TypeInv /\ GoodInv /\ BootInv
        => (LauncherFails => slots[boot.slot] \in Loadable)
  <2> SUFFICES ASSUME TypeInv, GoodInv, BootInv, LauncherFails
               PROVE  slots[boot.slot] \in Loadable
    OBVIOUS
  <2>1. boot.slot = boot.state.knownGood /\ SameGood(boot.state, doc)
    BY DEF LauncherFails, BootInv, GoodInv, CopiesAgree
  <2>2. slots[boot.slot] \in passed
    BY <2>1 DEF SameGood, GoodInv, Good
  <2>3. QED
    BY <2>2, KindAssumption DEF BootInv
<1>2. Spec => []GoodInv
  BY GoodInvariance
<1>3. TypeInv /\ GoodInv /\ BootInv /\ [Next]_vars
        => [LauncherFails => slots[boot.slot] \in Loadable]_vars
  BY <1>1
<1>4. QED
  BY <1>2, <1>3, BootInit, BootStep, TypeInvariance, PTL DEF Spec, AlwaysBootable

\* The updater implements the abstract promise of an A/B device: each step
\* overwrites the other slot, proves a binary, moves to a proven slot, or
\* changes nothing the promise is about.
THEOREM UpdaterImplementsGuarantee ==
  ASSUME "EarlyOperator" \notin Hazards
  PROVE  Spec => Guarantee
<1>1. Init => AB!Init
  BY InitialVersion DEF Init, AB!Init, SeedState, Slot
<1>2. TypeInv /\ GoodInv /\ GoodInv' /\ [Next]_vars
        => [AB!Next]_<<doc.knownGood, slots, passed>>
  <2> SUFFICES ASSUME TypeInv, GoodInv, GoodInv', Next
               PROVE  AB!Next \/ UNCHANGED <<doc.knownGood, slots, passed>>
    BY DEF vars
  <2>1. CASE ApplyInstall
    <3>1. AB!Install(Target(apply.state), apply.version)
      BY <2>1, TargetType
         DEF ApplyInstall, AB!Install, GoodInv, CopiesAgree, SameGood, TypeInv, TypeOK
    <3>2. Target(apply.state) \in Slot /\ apply.version \in Version \cup {None}
      BY TargetType DEF TypeInv, TypeOK
    <3>3. QED
      BY <3>1, <3>2 DEF AB!Next
  <2>2. CASE HealthCheck
    <3>1. AB!Prove(run.version) /\ run.version \in Version \cup {None}
      BY <2>2 DEF HealthCheck, AB!Prove, device, TypeInv, TypeOK
    <3>2. QED
      BY <3>1 DEF AB!Next
  <2>3. CASE ~ApplyInstall /\ ~HealthCheck
    <3>1. UNCHANGED <<slots, passed>>
      BY <2>3 DEF Next, Launcher, LauncherDecide, LauncherExec, Become,
           LauncherFallBack, LauncherFails, HealthRun, HealthDeadline, PromoteLoad,
           PromoteSave, CheckNow, OperatorApply, AutoApply, ApplyRun, ApplyLoad,
           ApplySave, ApplyFails, Dismissal, DismissLoad, DismissSave, ExitToRestart,
           Environment, Publish, Crash, Restart, PowerCut, Settle, Die, device
    <3>2. doc' \in State
      <4>1. TypeInv'
        BY TypeLauncher, TypeHealth, TypeApply, TypeDismissal, TypeEnvironment DEF Next
      <4>2. QED
        BY <4>1 DEF TypeInv, TypeOK
    <3>3. slots[doc'.knownGood] \in passed /\ doc'.knownGood \in Slot
      BY <3>1, <3>2 DEF GoodInv, Good, State
    <3>4. AB!Trust(doc'.knownGood)
      BY <3>1, <3>3 DEF AB!Trust
    <3>5. QED
      BY <3>3, <3>4 DEF AB!Next
  <2>4. QED
    BY <2>1, <2>2, <2>3
<1>3. QED
  BY <1>1, <1>2, TypeInvariance, GoodInvariance, PTL DEF Spec, Guarantee, AB!Spec
=============================================================================

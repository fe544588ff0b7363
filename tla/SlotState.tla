------------------------------ MODULE SlotState ------------------------------
(***************************************************************************)
(* The updater's state document (internal/update/state.go) and the pure    *)
(* operators over it: the launcher's Decide and Rollback                   *)
(* (internal/update/slots.go), the documents that Promote, Apply and       *)
(* DismissRollback compute, and the manifest's installability test         *)
(* (internal/update/manifest.go).                                          *)
(*                                                                         *)
(* A version is a number: 0 stands for a version that is not semver (a     *)
(* "dev" build, or the empty floor), which loses every comparison in the   *)
(* code; 1 .. MaxVersion are releases in semver order.                     *)
(***************************************************************************)
EXTENDS Integers

CONSTANTS
  MaxVersion,   \* releases are 1 .. MaxVersion
  MinVersion    \* MinVersion[v]: min_version in v's signed manifest, 0 if empty

Release == 1 .. MaxVersion
Version == 0 .. MaxVersion

ASSUME VersionAssumption ==
  /\ MaxVersion \in Nat \ {0}
  /\ MinVersion \in [Release -> Version]

MaxBootAttempts == 3

\* No version at all: an empty rolled_back_from, or a slot with no binary.
None == -1

Slot == {"a", "b"}

OtherSlot(s) == IF s = "a" THEN "b" ELSE "a"

(***************************************************************************)
(* state.json.                                                             *)
(***************************************************************************)
State ==
  [ active         : Slot,
    activeVersion  : Version,
    knownGood      : Slot,
    knownGoodVersion : Version,
    bootAttempts   : 0 .. MaxBootAttempts,
    versionFloor   : Version,
    rolledBackFrom : Version \cup {None} ]

\* The document the migration script seeds: slot a runs v and is known-good.
SeedState(v) ==
  [ active |-> "a", activeVersion |-> v, knownGood |-> "a",
    knownGoodVersion |-> v, bootAttempts |-> 0, versionFloor |-> 0,
    rolledBackFrom |-> None ]

\* Mutant: the abandoned version is not recorded.
RollbackUnmarked(s) ==
  [s EXCEPT !.active        = s.knownGood,
            !.activeVersion = s.knownGoodVersion,
            !.bootAttempts  = 1]

\* Back to the known-good slot; this boot is its first attempt.
Rollback(s) ==
  [s EXCEPT !.rolledBackFrom = s.activeVersion,
            !.active         = s.knownGood,
            !.activeVersion  = s.knownGoodVersion,
            !.bootAttempts   = 1]

\* Mutant: the attempt is checked before it is counted.
DecideLate(s) ==
  IF s.bootAttempts <= MaxBootAttempts
  THEN [slot |-> s.active, recovery |-> FALSE,
        state |-> [s EXCEPT !.bootAttempts = s.bootAttempts + 1]]
  ELSE IF s.active # s.knownGood
  THEN [slot |-> s.knownGood, recovery |-> FALSE, state |-> Rollback(s)]
  ELSE [slot |-> s.knownGood, recovery |-> TRUE,
        state |-> [s EXCEPT !.bootAttempts = 0]]

\* Mutant: used-up attempts swap the slots, whichever of them is known-good.
DecideSwaps(s) ==
  IF s.bootAttempts + 1 <= MaxBootAttempts
  THEN [slot |-> s.active, recovery |-> FALSE,
        state |-> [s EXCEPT !.bootAttempts = s.bootAttempts + 1]]
  ELSE [slot |-> OtherSlot(s.active), recovery |-> FALSE,
        state |-> [Rollback(s) EXCEPT !.active = OtherSlot(s.active)]]

\* The launcher's verdict: the slot to exec, whether in recovery mode, and
\* the document to persist before the exec.
Decide(s) ==
  IF s.bootAttempts + 1 <= MaxBootAttempts
  THEN [slot |-> s.active, recovery |-> FALSE,
        state |-> [s EXCEPT !.bootAttempts = s.bootAttempts + 1]]
  ELSE IF s.active # s.knownGood
  THEN [slot |-> s.knownGood, recovery |-> FALSE, state |-> Rollback(s)]
  ELSE [slot |-> s.knownGood, recovery |-> TRUE,
        state |-> [s EXCEPT !.bootAttempts = 0]]

\* Promote: the active slot, running version v, becomes known-good. The
\* rollback marker is cleared only by the promotion of an update.
Promoted(s, v) ==
  [s EXCEPT !.bootAttempts     = 0,
            !.activeVersion    = v,
            !.knownGood        = s.active,
            !.knownGoodVersion = v,
            !.rolledBackFrom   = IF s.knownGood # s.active THEN None ELSE @]

Dismissed(s) == [s EXCEPT !.rolledBackFrom = None]

MaxOfVersions(v, w) == IF v >= w THEN v ELSE w

\* The slot Apply installs into: never the known-good one, even when the
\* active one is another.
TargetOfActive(s) == OtherSlot(s.active)   \* mutant: the slot not active
Target(s) == OtherSlot(s.knownGood)

\* Apply's last step: boot release v from the target slot.
Staged(s, v) ==
  [s EXCEPT !.active        = Target(s),
            !.activeVersion = v,
            !.bootAttempts  = 0,
            !.versionFloor  = MaxOfVersions(s.versionFloor, MinVersion[v])]

\* A running version that is not semver (0) never blocks an upgrade, and
\* a floor that is not semver (0) rejects nothing.
CheckInstallable(v, running, floor) == v > running /\ v >= floor
=============================================================================

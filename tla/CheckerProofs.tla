---------------------------- MODULE CheckerProofs ----------------------------
(***************************************************************************)
(* Proofs about Checker, for any number of web requests and releases. The  *)
(* tick's gate is sound because available still holds the version gated    *)
(* until another caller writes it (GateKept), and because a tick that      *)
(* holds applyMu without having found that version was crossed.            *)
(***************************************************************************)
EXTENDS Checker, TLAPS

\* Who is past the check of the pipeline holds applyMu.
PipelineHeld ==
  \A c \in Caller : pc[c] \in {"reread", "install"} => applyMu = c

\* The version the tick gated is available until another caller writes it.
GateKept ==
  /\ pc[Tick] \in {"gate", "queue"} /\ ~crossed
       => available = got[Tick] /\ got[Tick] # None
  /\ pc[Tick] \in {"queue", "install"} /\ ~crossed
       => got[Tick] # rolledBack /\ got[Tick] # None
  /\ applyMu = Tick => pc[Tick] \in {"asking", "answered", "reread", "install"}
  /\ applyMu = Tick /\ pc[Tick] # "install" => crossed

IInv == TypeOK /\ PipelineHeld /\ GateKept /\ OnlyForward

LEMMA Initially == Init => IInv
<1> SUFFICES ASSUME Init PROVE IInv
  OBVIOUS
<1> USE CheckerAssumption, VersionAssumption DEF Init, Place, Caller, Release, Version, None
<1>1. TypeOK
  <2>1. pc \in [Caller -> Place] /\ got \in [Caller -> Version \cup {None}]
    OBVIOUS
  <2>2. latest \in Version /\ running \in Version /\ floor \in Version
    OBVIOUS
  <2>3. QED
    BY <2>1, <2>2 DEF TypeOK
<1>2. PipelineHeld
  BY DEF PipelineHeld
<1>3. GateKept
  BY DEF GateKept
<1>4. OnlyForward
  BY DEF OnlyForward
<1>5. QED
  BY <1>1, <1>2, <1>3, <1>4 DEF IInv

\* Types are kept by every step.
LEMMA TypeStep ==
  TypeOK /\ [Next]_vars => TypeOK'
<1> SUFFICES ASSUME TypeOK, [Next]_vars PROVE TypeOK'
  OBVIOUS
<1> USE CheckerAssumption, VersionAssumption DEF TypeOK, Place, Caller, Goto, Release, Version,
       None, state, clock, call, vars
<1>1. ASSUME NEW c \in Caller, Answered(c) PROVE TypeOK'
  BY <1>1 DEF Answered
<1>2. ASSUME NEW c \in Caller, Recorded(c) PROVE TypeOK'
  <2>1. pc' \in [Caller -> Place]
    BY <1>2 DEF Recorded, AfterRecord
  <2>2. available' \in Release \cup {None}
    <3>1. got[c] \in Version \cup {None}
      OBVIOUS
    <3>2. Found(got[c]) \in Release \cup {None}
      BY <3>1 DEF Found
    <3>3. QED
      BY <1>2, <3>2 DEF Recorded
  <2>3. applyMu' \in Caller \cup {NoCaller}
    BY <1>2 DEF Recorded
  <2>4. due' \in BOOLEAN /\ crossed' \in BOOLEAN
    BY <1>2 DEF Recorded, Crossing
  <2>5. QED
    BY <1>2, <2>1, <2>2, <2>3, <2>4 DEF Recorded
<1>3. ASSUME NEW c \in Caller, ApplyBegins(c) PROVE TypeOK'
  BY <1>3 DEF ApplyBegins, MayApply
<1>4. ASSUME NEW c \in Caller, RereadFinds(c) PROVE TypeOK'
  BY <1>4 DEF RereadFinds
<1>5. ASSUME NEW c \in Caller, RereadFindsNothing(c) PROVE TypeOK'
  BY <1>5 DEF RereadFindsNothing
<1>6. ASSUME NEW c \in Caller, Installed(c) PROVE TypeOK'
  BY <1>6 DEF Installed, CheckInstallable, MaxOfVersions, Crossing
<1>7. ASSUME NEW c \in Caller, InstallFails(c) PROVE TypeOK'
  BY <1>7 DEF InstallFails
<1>8. CASE TickBegins
  BY <1>8 DEF TickBegins
<1>9. CASE TickLooks
  <2>1. pc' \in [Caller -> Place] /\ got' \in [Caller -> Version \cup {None}]
    BY <1>9 DEF TickLooks
  <2>2. looked' \in BOOLEAN /\ crossed' \in BOOLEAN
    BY <1>9 DEF TickLooks
  <2>3. QED
    BY <1>9, <2>1, <2>2 DEF TickLooks
<1>10. CASE TickGates
  BY <1>10 DEF TickGates, Suppressed
<1>11. CASE Reboot
  BY <1>11 DEF Reboot, FreshStart
<1>12. CASE Upgraded
  <2>1. running' \in Version
    <3>1. staged \in Release
      BY <1>12 DEF Upgraded
    <3>2. QED
      BY <1>12, <3>1 DEF Upgraded
  <2>2. pc' \in [Caller -> Place] /\ got' \in [Caller -> Version \cup {None}]
    BY <1>12 DEF Upgraded, FreshStart
  <2>3. QED
    BY <1>12, <2>1, <2>2 DEF Upgraded, FreshStart
<1>13. CASE RolledBack
  BY <1>13 DEF RolledBack, FreshStart
<1>14. CASE Dismiss
  BY <1>14 DEF Dismiss
<1>15. CASE FeedMoves
  BY <1>15 DEF FeedMoves
<1>16. CASE Age
  BY <1>16 DEF Age
<1>17. CASE WindowMoves
  BY <1>17 DEF WindowMoves
<1>18. CASE Settle
  BY <1>18 DEF Settle
<1>19. ASSUME NEW c \in Web, WebBegins(c) PROVE TypeOK'
  BY <1>19 DEF WebBegins
<1>20. CASE UNCHANGED vars
  BY <1>20
<1>21. QED
  BY <1>1, <1>2, <1>3, <1>4, <1>5, <1>6, <1>7, <1>8, <1>9, <1>10, <1>11, <1>12, <1>13, <1>14,
     <1>15, <1>16, <1>17, <1>18, <1>19, <1>20
     DEF Next, CallStep, TickStep, Restart

\* applyMu is taken before the pipeline and given back after it.
LEMMA PipelineStep ==
  TypeOK /\ PipelineHeld /\ [Next]_vars => PipelineHeld'
<1> SUFFICES ASSUME TypeOK /\ PipelineHeld, [Next]_vars PROVE PipelineHeld'
  OBVIOUS
<1> USE CheckerAssumption, VersionAssumption DEF TypeOK, Place, Caller, Goto, Release, Version,
       None, state, clock, call, vars, PipelineHeld
<1>1. ASSUME NEW c \in Caller, Answered(c) PROVE PipelineHeld'
  BY <1>1 DEF Answered
<1>2. ASSUME NEW c \in Caller, Recorded(c) PROVE PipelineHeld'
  BY <1>2 DEF Recorded, AfterRecord, Found, Crossing
<1>3. ASSUME NEW c \in Caller, ApplyBegins(c) PROVE PipelineHeld'
  BY <1>3 DEF ApplyBegins, MayApply
<1>4. ASSUME NEW c \in Caller, RereadFinds(c) PROVE PipelineHeld'
  BY <1>4 DEF RereadFinds
<1>5. ASSUME NEW c \in Caller, RereadFindsNothing(c) PROVE PipelineHeld'
  BY <1>5 DEF RereadFindsNothing
<1>6. ASSUME NEW c \in Caller, Installed(c) PROVE PipelineHeld'
  BY <1>6 DEF Installed, CheckInstallable, MaxOfVersions, Crossing
<1>7. ASSUME NEW c \in Caller, InstallFails(c) PROVE PipelineHeld'
  BY <1>7 DEF InstallFails
<1>8. CASE TickBegins
  BY <1>8 DEF TickBegins
<1>9. CASE TickLooks
  BY <1>9 DEF TickLooks
<1>10. CASE TickGates
  BY <1>10 DEF TickGates, Suppressed
<1>11. CASE Reboot
  BY <1>11 DEF Reboot, FreshStart
<1>12. CASE Upgraded
  BY <1>12 DEF Upgraded, FreshStart
<1>13. CASE RolledBack
  BY <1>13 DEF RolledBack, FreshStart
<1>14. CASE Dismiss
  BY <1>14 DEF Dismiss
<1>15. CASE FeedMoves
  BY <1>15 DEF FeedMoves
<1>16. CASE Age
  BY <1>16 DEF Age
<1>17. CASE WindowMoves
  BY <1>17 DEF WindowMoves
<1>18. CASE Settle
  BY <1>18 DEF Settle
<1>19. ASSUME NEW c \in Web, WebBegins(c) PROVE PipelineHeld'
  BY <1>19 DEF WebBegins
<1>20. CASE UNCHANGED vars
  BY <1>20
<1>21. QED
  BY <1>1, <1>2, <1>3, <1>4, <1>5, <1>6, <1>7, <1>8, <1>9, <1>10, <1>11, <1>12, <1>13, <1>14,
     <1>15, <1>16, <1>17, <1>18, <1>19, <1>20
     DEF Next, CallStep, TickStep, Restart

\* A write of available by another caller is a crossing.
LEMMA GateStep ==
  TypeOK /\ PipelineHeld /\ GateKept /\ [Next]_vars => GateKept'
<1> SUFFICES ASSUME TypeOK /\ PipelineHeld /\ GateKept, [Next]_vars PROVE GateKept'
  OBVIOUS
<1> USE CheckerAssumption, VersionAssumption DEF TypeOK, Place, Caller, Goto, Release, Version,
       None, state, clock, call, vars, PipelineHeld, GateKept
<1>1. ASSUME NEW c \in Caller, Answered(c) PROVE GateKept'
  BY <1>1 DEF Answered
<1>2. ASSUME NEW c \in Caller, Recorded(c) PROVE GateKept'
  BY <1>2 DEF Recorded, AfterRecord, Found, Crossing
<1>3. ASSUME NEW c \in Caller, ApplyBegins(c) PROVE GateKept'
  BY <1>3 DEF ApplyBegins, MayApply
<1>4. ASSUME NEW c \in Caller, RereadFinds(c) PROVE GateKept'
  BY <1>4 DEF RereadFinds
<1>5. ASSUME NEW c \in Caller, RereadFindsNothing(c) PROVE GateKept'
  BY <1>5 DEF RereadFindsNothing
<1>6. ASSUME NEW c \in Caller, Installed(c) PROVE GateKept'
  BY <1>6 DEF Installed, CheckInstallable, MaxOfVersions, Crossing
<1>7. ASSUME NEW c \in Caller, InstallFails(c) PROVE GateKept'
  BY <1>7 DEF InstallFails
<1>8. CASE TickBegins
  BY <1>8 DEF TickBegins
<1>9. CASE TickLooks
  BY <1>9 DEF TickLooks
<1>10. CASE TickGates
  BY <1>10 DEF TickGates, Suppressed
<1>11. CASE Reboot
  BY <1>11 DEF Reboot, FreshStart
<1>12. CASE Upgraded
  BY <1>12 DEF Upgraded, FreshStart
<1>13. CASE RolledBack
  BY <1>13 DEF RolledBack, FreshStart
<1>14. CASE Dismiss
  BY <1>14 DEF Dismiss
<1>15. CASE FeedMoves
  BY <1>15 DEF FeedMoves
<1>16. CASE Age
  BY <1>16 DEF Age
<1>17. CASE WindowMoves
  BY <1>17 DEF WindowMoves
<1>18. CASE Settle
  BY <1>18 DEF Settle
<1>19. ASSUME NEW c \in Web, WebBegins(c) PROVE GateKept'
  BY <1>19 DEF WebBegins
<1>20. CASE UNCHANGED vars
  BY <1>20
<1>21. QED
  BY <1>1, <1>2, <1>3, <1>4, <1>5, <1>6, <1>7, <1>8, <1>9, <1>10, <1>11, <1>12, <1>13, <1>14,
     <1>15, <1>16, <1>17, <1>18, <1>19, <1>20
     DEF Next, CallStep, TickStep, Restart

\* What is found or staged is compared with the running version.
LEMMA ForwardStep ==
  TypeOK /\ OnlyForward /\ [Next]_vars => OnlyForward'
<1> SUFFICES ASSUME TypeOK /\ OnlyForward, [Next]_vars PROVE OnlyForward'
  OBVIOUS
<1> USE CheckerAssumption, VersionAssumption DEF TypeOK, Place, Caller, Goto, Release, Version,
       None, state, clock, call, vars, OnlyForward
<1>1. ASSUME NEW c \in Caller, Answered(c) PROVE OnlyForward'
  BY <1>1 DEF Answered
<1>2. ASSUME NEW c \in Caller, Recorded(c) PROVE OnlyForward'
  BY <1>2 DEF Recorded, AfterRecord, Found, Crossing
<1>3. ASSUME NEW c \in Caller, ApplyBegins(c) PROVE OnlyForward'
  BY <1>3 DEF ApplyBegins, MayApply
<1>4. ASSUME NEW c \in Caller, RereadFinds(c) PROVE OnlyForward'
  BY <1>4 DEF RereadFinds
<1>5. ASSUME NEW c \in Caller, RereadFindsNothing(c) PROVE OnlyForward'
  BY <1>5 DEF RereadFindsNothing
<1>6. ASSUME NEW c \in Caller, Installed(c) PROVE OnlyForward'
  BY <1>6 DEF Installed, CheckInstallable, MaxOfVersions, Crossing
<1>7. ASSUME NEW c \in Caller, InstallFails(c) PROVE OnlyForward'
  BY <1>7 DEF InstallFails
<1>8. CASE TickBegins
  BY <1>8 DEF TickBegins
<1>9. CASE TickLooks
  BY <1>9 DEF TickLooks
<1>10. CASE TickGates
  BY <1>10 DEF TickGates, Suppressed
<1>11. CASE Reboot
  BY <1>11 DEF Reboot, FreshStart
<1>12. CASE Upgraded
  BY <1>12 DEF Upgraded, FreshStart
<1>13. CASE RolledBack
  BY <1>13 DEF RolledBack, FreshStart
<1>14. CASE Dismiss
  BY <1>14 DEF Dismiss
<1>15. CASE FeedMoves
  BY <1>15 DEF FeedMoves
<1>16. CASE Age
  BY <1>16 DEF Age
<1>17. CASE WindowMoves
  BY <1>17 DEF WindowMoves
<1>18. CASE Settle
  BY <1>18 DEF Settle
<1>19. ASSUME NEW c \in Web, WebBegins(c) PROVE OnlyForward'
  BY <1>19 DEF WebBegins
<1>20. CASE UNCHANGED vars
  BY <1>20
<1>21. QED
  BY <1>1, <1>2, <1>3, <1>4, <1>5, <1>6, <1>7, <1>8, <1>9, <1>10, <1>11, <1>12, <1>13, <1>14,
     <1>15, <1>16, <1>17, <1>18, <1>19, <1>20
     DEF Next, CallStep, TickStep, Restart

\* The conjunction is inductive: it holds in every reachable state.
THEOREM Inductive == Spec => []IInv
<1>1. Init => IInv
  BY Initially
<1>2. IInv /\ [Next]_vars => IInv'
  BY TypeStep, PipelineStep, GateStep, ForwardStep DEF IInv
<1>3. QED
  BY <1>1, <1>2, PTL DEF Spec

\* Types are kept.
THEOREM TypeCorrect == Spec => []TypeOK
<1>1. IInv => TypeOK
  BY DEF IInv
<1>2. QED
  BY <1>1, Inductive, PTL

\* One download/install pipeline at a time, for any number of callers.
THEOREM PipelineIsSingle == Spec => []OnePipeline
<1>1. IInv => OnePipeline
  BY DEF IInv, PipelineHeld, OnePipeline
<1>2. QED
  BY <1>1, Inductive, PTL

\* An unattended apply that no other caller crossed never installs the
\* version rolled back from.
THEOREM GateIsRespected == Spec => []GateRespected
<1>1. IInv => GateRespected
  BY DEF IInv, GateKept, GateRespected
<1>2. QED
  BY <1>1, Inductive, PTL

\* What is offered or staged is newer than what runs.
THEOREM ForwardOnly == Spec => []OnlyForward
<1>1. IInv => OnlyForward
  BY DEF IInv
<1>2. QED
  BY <1>1, Inductive, PTL
=============================================================================

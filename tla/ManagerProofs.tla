----------------------------- MODULE ManagerProofs -----------------------------
(***************************************************************************)
(* Theorems about Manager, for every set of disturbances.                  *)
(***************************************************************************)
EXTENDS Manager, SequenceTheorems, TLAPS

-----------------------------------------------------------------------------
(***************************************************************************)
(* What a driver call leaves behind, whether it succeeds or stops halfway. *)
(***************************************************************************)

\* Whatever holds of every world of a trace holds of the outcomes of a call.
LEMMA Outcomes ==
  ASSUME NEW S, NEW trace \in Seq(S), Len(trace) > 0
  PROVE  /\ Last(trace) \in S
         /\ Len(trace) > 1 => Last(Front(trace)) \in S
         /\ Interrupted(trace) \subseteq S
<1>1. Last(trace) \in S
  BY DEF Last
<1>2. Front(trace) \in Seq(S)
  BY DEF Front
<1>3. ToSet(Front(trace)) \subseteq S
  BY <1>2 DEF ToSet
<1>4. ASSUME Len(trace) > 1 PROVE Last(Front(trace)) \in S
  <2>1. Len(Front(trace)) = Len(trace) - 1
    BY <1>4, SubSeqProperties DEF Front
  <2>2. QED
    BY <1>2, <1>4, <2>1 DEF Last
<1>5. QED
  BY <1>1, <1>3, <1>4 DEF Interrupted

LEMMA WorldEdit ==
  ASSUME NEW w \in World
  PROVE  /\ \A m \in {"down", "idle", "sta", "ap"} : [w EXCEPT !.wpa = m] \in World
         /\ \A b \in BOOLEAN : [w EXCEPT !.dnsmasq = b] \in World
         /\ \A b \in BOOLEAN : [w EXCEPT !.dhclient = b] \in World
         /\ \A x \in SUBSET {"sta", "ap"} : [w EXCEPT !.addrs = x] \in World
  BY DEF World

\* The worlds that have the same dnsmasq as w.
SameServer(w) == {v \in World : v.dnsmasq = w.dnsmasq}

\* Those that have the same dhclient too.
SameDaemons(w) == {v \in SameServer(w) : v.dhclient = w.dhclient}

\* The radio is the verified AP, but for dnsmasq.
Beaconing(w) == w.wpa = "ap" /\ w.dhclient = FALSE /\ w.addrs = {"ap"}

LEMMA StartAPOutcomes ==
  ASSUME NEW w \in World
  PROVE  /\ Beaconing(Last(StartAP(w)))
         /\ Last(StartAP(w)) \in SameServer(w)
         /\ Interrupted(StartAP(w)) \subseteq SameServer(w)
<1> DEFINE S        == SameServer(w)
           ready    == EnsureDaemon(w)
           selected == [ready EXCEPT !.wpa = "ap"]
           killed   == KillDHClient(selected)
           flushed  == [killed EXCEPT !.addrs = {}]
           assigned == [flushed EXCEPT !.addrs = {"ap"}]
<1>1. w \in S
  BY DEF SameServer
<1>2. ready \in S
  BY DEF SameServer, EnsureDaemon, World
<1>3. selected \in S
  BY <1>2 DEF SameServer, World
<1>4. killed \in S
  BY <1>3 DEF SameServer, KillDHClient, World
<1>5. flushed \in S
  BY <1>4 DEF SameServer, World
<1>6. assigned \in S
  BY <1>5 DEF SameServer, World
<1>7. Beaconing(assigned)
  <2>1. selected.wpa = "ap"
    BY <1>2 DEF SameServer, World
  <2>2. killed.wpa = "ap" /\ killed.dhclient = FALSE
    BY <1>3, <2>1 DEF KillDHClient, SameServer, World
  <2> HIDE DEF killed
  <2>3. flushed.wpa = "ap" /\ flushed.dhclient = FALSE
    BY <1>4, <2>2 DEF SameServer, World
  <2> HIDE DEF flushed
  <2>4. QED
    BY <1>5, <2>3 DEF Beaconing, SameServer, World
<1>8. StartAP(w) = <<w, ready, selected, killed, flushed, assigned>>
  BY DEF StartAP
<1>9. StartAP(w) \in Seq(S) /\ Len(StartAP(w)) > 0 /\ Last(StartAP(w)) = assigned
  <2> HIDE DEF S, ready, selected, killed, flushed, assigned
  <2> QED
    BY <1>1, <1>2, <1>3, <1>4, <1>5, <1>6, <1>8 DEF Last
<1>10. QED
  BY <1>6, <1>7, <1>9, Outcomes

LEMMA StopAPOutcomes ==
  ASSUME NEW w \in World
  PROVE  /\ Last(StopAP(w)) \in SameDaemons(w)
         /\ Interrupted(StopAP(w)) \subseteq SameDaemons(w)
<1> DEFINE S        == SameDaemons(w)
           disabled == [w EXCEPT !.wpa = IF @ = "ap" THEN "idle" ELSE @]
           flushed  == [disabled EXCEPT !.addrs = {}]
<1>1. w \in S /\ disabled \in S
  BY DEF SameDaemons, SameServer, World
<1>2. flushed \in S
  BY <1>1 DEF SameDaemons, SameServer, World
<1>3. StopAP(w) = IF w.wpa = "down" THEN <<w>> ELSE <<w, disabled, flushed>>
  BY DEF StopAP
<1>4. StopAP(w) \in Seq(S) /\ Len(StopAP(w)) > 0
  <2> HIDE DEF S, disabled, flushed
  <2> QED
    BY <1>1, <1>2, <1>3
<1>5. QED
  BY <1>4, Outcomes

LEMMA AttemptSTAOutcomes ==
  ASSUME NEW w \in World
  PROVE  /\ Last(AttemptSTA(w)) \in SameServer(w)
         /\ Last(Front(AttemptSTA(w))) \in SameServer(w)
         /\ Interrupted(AttemptSTA(w)) \subseteq SameServer(w)
<1> DEFINE S        == SameServer(w)
           ready    == EnsureDaemon(w)
           killed   == KillDHClient(ready)
           selected == [killed EXCEPT !.wpa = "sta"]
           leased   == [selected EXCEPT !.dhclient = TRUE, !.addrs = @ \cup {"sta"}]
<1>1. w \in S
  BY DEF SameServer
<1>2. ready \in S
  BY DEF SameServer, EnsureDaemon, World
<1>3. killed \in S
  BY <1>2 DEF SameServer, KillDHClient, World
<1>4. selected \in S
  BY <1>3 DEF SameServer, World
<1>5. leased \in S
  BY <1>4 DEF SameServer, World
<1>6. AttemptSTA(w) = <<w, ready>> \o <<killed, selected, leased>>
  BY DEF AttemptSTA, StaAttempt
<1> HIDE DEF S, ready, killed, selected, leased
<1>7. AttemptSTA(w) \in Seq(S) /\ Len(AttemptSTA(w)) = 5
  BY <1>1, <1>2, <1>3, <1>4, <1>5, <1>6
<1>8. AttemptSTA(w) \in Seq(SameServer(w))
  BY <1>7 DEF S
<1>9. Len(AttemptSTA(w)) > 0 /\ Len(AttemptSTA(w)) > 1
  BY <1>7
<1> HIDE DEF ready, killed, selected, leased
<1>10. QED
  BY <1>8, <1>9, Outcomes

LEMMA BeaconingWorld ==
  ASSUME NEW w \in World, Beaconing(w), w.dnsmasq
  PROVE  w = [wpa |-> "ap", dnsmasq |-> TRUE, dhclient |-> FALSE, addrs |-> {"ap"}]
<1>1. w.dnsmasq = TRUE
  BY DEF World
<1>2. QED
  BY <1>1 DEF Beaconing, World

\* The worlds a call may end in, for all calls and both endings.
LEMMA CallsStayInWorld ==
  ASSUME NEW w \in World
  PROVE  /\ Last(StartAP(w)) \in World /\ Interrupted(StartAP(w)) \subseteq World
         /\ Last(StopAP(w)) \in World /\ Interrupted(StopAP(w)) \subseteq World
         /\ Last(AttemptSTA(w)) \in World /\ Interrupted(AttemptSTA(w)) \subseteq World
         /\ Last(Front(AttemptSTA(w))) \in World
         /\ DnsmasqStarted(w) \in World /\ DnsmasqStopped(w) \in World
         /\ KillDHClient(w) \in World
<1>1. /\ Last(StartAP(w)) \in World /\ Interrupted(StartAP(w)) \subseteq World
      /\ Last(StopAP(w)) \in World /\ Interrupted(StopAP(w)) \subseteq World
  BY StartAPOutcomes, StopAPOutcomes DEF SameServer, SameDaemons
<1>2. /\ Last(AttemptSTA(w)) \in World /\ Interrupted(AttemptSTA(w)) \subseteq World
      /\ Last(Front(AttemptSTA(w))) \in World
  BY AttemptSTAOutcomes DEF SameServer
<1>3. /\ DnsmasqStarted(w) \in World /\ DnsmasqStopped(w) \in World
      /\ KillDHClient(w) \in World
  BY DEF DnsmasqStarted, DnsmasqStopped, KillDHClient, World
<1>4. QED
  BY <1>1, <1>2, <1>3

-----------------------------------------------------------------------------
(***************************************************************************)
(* Type correctness.                                                       *)
(***************************************************************************)
LEMMA PublishedType ==
  \A state \in {"boot", "connecting", "online", "ap", "retry"} :
    /\ Published(state) \in Status /\ Published(state).state = state
    /\ ~Published(state).hotspot
  BY DEF Published, Status, Stage, Error

LEMMA SeenType == Seen \subseteq Stage
  BY DEF Seen, Evaluate, Stage

LEMMA TypeInit == Init => TypeOK
<1> SUFFICES ASSUME Init PROVE TypeOK
  OBVIOUS
<1>1. world \in World
  BY DEF Init, ColdWorld, World
<1>2. status \in Status
  BY PublishedType DEF Init
<1>3. /\ pc \in Where /\ phase \in Phase /\ staErr \in Error
      /\ attempt \in 1 .. 2 /\ restore \in 1 .. 2 /\ gap \in Nat
  BY DEF Init, Where, Phase, Error
<1>4. /\ cancelled \in BOOLEAN /\ retry \in BOOLEAN /\ recent \in BOOLEAN
      /\ grace \in BOOLEAN /\ died \in BOOLEAN /\ settled \in BOOLEAN
  BY DEF Init
<1>5. QED
  BY <1>1, <1>2, <1>3, <1>4 DEF Init, TypeOK

LEMMA TypeSTA == TypeOK /\ (LoopTop \/ Recheck \/ STA) => TypeOK'
<1> SUFFICES ASSUME TypeOK, LoopTop \/ Recheck \/ STA PROVE TypeOK'
  OBVIOUS
<1> USE DEF TypeOK, loop, others, around, Goto, Beat, Spend
<1>1. CASE LoopTop
  <2>1. gap' \in Nat /\ phase' \in Phase
    BY <1>1 DEF LoopTop
  <2>2. pc' \in Where
    BY <1>1 DEF LoopTop, Where, Phase
  <2>3. QED
    BY <1>1, <2>1, <2>2 DEF LoopTop
<1>2. CASE Recheck
  BY <1>2 DEF Recheck, Where, OnlineRecheckInterval, STAAttemptBound
<1>3. CASE ToSTA
  <2>1. status' \in Status
    BY <1>3, PublishedType DEF ToSTA, Status, Error
  <2>2. gap' \in Nat
    BY <1>3 DEF ToSTA, STAFails, PrereqsBound
  <2>3. pc' \in Where /\ staErr' \in Error /\ died' \in BOOLEAN
    BY <1>3 DEF ToSTA, STAFails, Where, Error
  <2>4. renders' \in BOOLEAN
    BY <1>3 DEF ToSTA, Renders
  <2>5. QED
    BY <1>3, <2>1, <2>2, <2>3, <2>4 DEF ToSTA, STAFails
<1>4. CASE CallAttemptSTA
  <2>1. status' \in Status
    BY <1>4, PublishedType DEF CallAttemptSTA, Status, Error
  <2>2. world' \in World
    BY <1>4, CallsStayInWorld DEF CallAttemptSTA, Works, Breaks
  <2>3. cancelled' \in BOOLEAN
    BY <1>4 DEF CallAttemptSTA, Works, Breaks
  <2>4. QED
    BY <1>4, <2>1, <2>2, <2>3 DEF CallAttemptSTA, STAFails, Where, Error, STAAttemptBound
<1>5. CASE CallEvaluate
  <2>1. PICK stage \in Stage :
          \/ /\ status' = Published("online")
             /\ pc' = "top" /\ phase' = "online"
             /\ UNCHANGED <<attempt, restore, staErr>>
          \/ /\ status' = [Published("connecting") EXCEPT !.stage = stage,
                                                          !.lastSTAErr = stage]
             /\ STAFails(stage)
    BY <1>5, SeenType DEF CallEvaluate
  <2>2. status' \in Status
    BY <2>1, PublishedType DEF Status, Error
  <2>3. QED
    BY <1>5, <2>1, <2>2 DEF CallEvaluate, STAFails, Where, Phase, Error, STAAttemptBound
<1>6. CASE STAFailed
  BY <1>6 DEF STAFailed, Where
<1>7. CASE Pause
  BY <1>7 DEF Pause, Where, BootSTARetryPause
<1>8. QED
  BY <1>1, <1>2, <1>3, <1>4, <1>5, <1>6, <1>7 DEF STA

LEMMA TornDownType ==
  ASSUME TypeOK, TornDown
  PROVE  world' \in World /\ cancelled' \in BOOLEAN
<1>1. \A w \in World : DnsmasqStopped(w) \in World
  BY CallsStayInWorld
<1>2. Last(StopAP(world)) \in World /\ Interrupted(StopAP(world)) \subseteq World
  BY CallsStayInWorld DEF TypeOK
<1>3. QED
  BY <1>1, <1>2 DEF TornDown, TypeOK

LEMMA TypeAP == TypeOK /\ (AP \/ DropAP) => TypeOK'
<1> SUFFICES ASSUME TypeOK, AP \/ DropAP PROVE TypeOK'
  OBVIOUS
<1> USE DEF TypeOK, loop, others, around, Goto, Beat, Spend
<1>1. CASE CallStartAP
  <2>1. world' \in World /\ cancelled' \in BOOLEAN
    BY <1>1, CallsStayInWorld DEF CallStartAP, Works, Breaks
  <2>2. QED
    BY <1>1, <2>1 DEF CallStartAP, Where, StartAPBound
<1>2. CASE StartDnsmasq
  BY <1>2, CallsStayInWorld DEF StartDnsmasq, Where
<1>3. CASE VerifyActive
  BY <1>3 DEF VerifyActive, Where
<1>4. CASE VerifyAlive
  <2>1. status' \in Status
    BY <1>4, PublishedType DEF VerifyAlive, Status
  <2>2. QED
    BY <1>4, <2>1 DEF VerifyAlive, Where, Phase
<1>5. CASE RecordError
  <2>1. status' \in Status
    BY <1>5 DEF RecordError, Status
  <2>2. QED
    BY <1>5, <2>1 DEF RecordError, Where
<1>6. CASE APFailed
  BY <1>6 DEF APFailed, Where
<1>7. CASE TearDown
  BY <1>7, TornDownType DEF TearDown, Where, TeardownBound
<1>8. CASE DropAP
  BY <1>8, TornDownType DEF DropAP, Where, TeardownBound
<1>9. QED
  BY <1>1, <1>2, <1>3, <1>4, <1>5, <1>6, <1>7, <1>8 DEF AP

LEMMA TypeRest ==
  TypeOK /\ (Wait \/ Heartbeat \/ CleanupOnCancel \/ Restart \/ Surroundings) => TypeOK'
<1> SUFFICES ASSUME TypeOK,
                    Wait \/ Heartbeat \/ CleanupOnCancel \/ Restart \/ Surroundings
             PROVE  TypeOK'
  OBVIOUS
<1> USE DEF TypeOK, loop, others, around, Goto, Beat, Spend
<1>1. CASE Wait
  <2>1. gap' \in Nat
    BY <1>1 DEF Wait, WaitOver, TakeRetry, WaitCancelled, APFallbackHeartbeatInterval
  <2>2. pc' \in Where /\ status' \in Status
    BY <1>1, PublishedType DEF Wait, WaitOver, TakeRetry, WaitCancelled, LeaveAP, Where
  <2>3. retry' \in BOOLEAN
    BY <1>1 DEF Wait, WaitOver, TakeRetry, WaitCancelled, LeaveAP
  <2>4. QED
    BY <1>1, <2>1, <2>2, <2>3 DEF Wait, WaitOver, TakeRetry, WaitCancelled, LeaveAP
<1>2. CASE Heartbeat
  BY <1>2 DEF Heartbeat, Where
<1>3. CASE CleanupOnCancel
  <2>1. \A w \in World : DnsmasqStopped(w) \in World /\ KillDHClient(w) \in World
    BY CallsStayInWorld
  <2>2. \A w \in World : Last(StopAP(w)) \in World /\ Interrupted(StopAP(w)) \subseteq World
    BY CallsStayInWorld
  <2>3. world' \in World
    BY <1>3, <2>1, <2>2 DEF CleanupOnCancel, Cleaned
  <2>4. QED
    BY <1>3, <2>3 DEF CleanupOnCancel, Where
<1>4. CASE Restart
  <2>1. world' \in World
    BY <1>4 DEF Restart, ColdWorld, World
  <2>2. status' \in Status
    BY <1>4, PublishedType DEF Restart
  <2>3. /\ pc' \in Where /\ phase' \in Phase /\ staErr' \in Error
        /\ attempt' \in 1 .. 2 /\ restore' \in 1 .. 2 /\ gap' \in Nat
    BY <1>4 DEF Restart, Where, Phase, Error
  <2>4. /\ cancelled' \in BOOLEAN /\ retry' \in BOOLEAN /\ recent' \in BOOLEAN
        /\ grace' \in BOOLEAN /\ died' \in BOOLEAN
    BY <1>4 DEF Restart
  <2>5. QED
    BY <1>4, <2>1, <2>2, <2>3, <2>4 DEF Restart
<1>5. CASE DaemonDies
  BY <1>5 DEF DaemonDies, Stirs, DnsmasqStopped, World
<1>6. CASE NetworkMoves \/ ConfigMoves \/ Shutdown \/ RetryNow \/ NoteProvisioning
  BY <1>6 DEF NetworkMoves, ConfigMoves, Shutdown, RetryNow, NoteProvisioning, Stirs
<1>7. CASE ProvisioningAges \/ GraceEnds \/ Settle
  BY <1>7 DEF ProvisioningAges, GraceEnds, Settle
<1>8. QED
  BY <1>1, <1>2, <1>3, <1>4, <1>5, <1>6, <1>7 DEF Surroundings

\* Every variable of the manager keeps its type (manager.go, Run).
THEOREM TypeCorrect == Spec => []TypeOK
<1>1. TypeOK /\ [Next]_vars => TypeOK'
  <2>1. TypeOK /\ UNCHANGED vars => TypeOK'
    BY DEF TypeOK, vars, loop, around, others
  <2>2. QED
    BY <2>1, TypeSTA, TypeAP, TypeRest DEF Next, Run
<1>2. QED
  BY <1>1, TypeInit, PTL DEF Spec

-----------------------------------------------------------------------------
(***************************************************************************)
(* The daemons. What the manager has published says where its loop can be, *)
(* and where the loop is says which daemons can be running: this relation  *)
(* is inductive, the properties it implies are not.                        *)
(***************************************************************************)
PhaseInv ==
  /\ pc \in {"wait", "record", "drop"} => phase = "ap"
  /\ status.state = "ap" => phase = "ap" /\ pc \in {"top", "wait", "record", "cleanup", "stopped"}

RenewerInv ==
  /\ pc \in {"startDnsmasq", "active", "alive", "stopped"} => ~world.dhclient
  /\ status.state = "ap" => ~world.dhclient

\* Where the device is a client, or is on its way to become one.
AsClient ==
  \/ pc \in {"recheck", "sta", "attempt", "evaluate", "staFailed", "pause"}
  \/ pc = "top" /\ phase # "ap"

ServerInv == AsClient /\ ~cancelled => ~world.dnsmasq

DaemonInv == PhaseInv /\ RenewerInv /\ ServerInv

LEMMA DaemonInit == Init => DaemonInv
  BY PublishedType DEF Init, DaemonInv, PhaseInv, RenewerInv, ServerInv, ColdWorld

LEMMA DaemonSTA == TypeOK /\ DaemonInv /\ (LoopTop \/ Recheck \/ STA) => DaemonInv'
<1> SUFFICES ASSUME TypeOK, DaemonInv, LoopTop \/ Recheck \/ STA PROVE DaemonInv'
  OBVIOUS
<1> USE DEF DaemonInv, PhaseInv, RenewerInv, ServerInv, AsClient, loop, others, around, Goto
<1>1. CASE LoopTop
  BY <1>1 DEF LoopTop, TypeOK, Phase
<1>2. CASE Recheck
  BY <1>2 DEF Recheck
<1>3. CASE ToSTA
  <2>1. status'.state # "ap"
    BY <1>3, PublishedType DEF ToSTA, Status
  <2>2. QED
    BY <1>3, <2>1 DEF ToSTA, STAFails
<1>4. CASE CallAttemptSTA
  <2>1. status'.state # "ap"
    BY <1>4, PublishedType DEF CallAttemptSTA, Status
  <2>2. world' = world \/ world'.dnsmasq = world.dnsmasq
    BY <1>4, AttemptSTAOutcomes DEF CallAttemptSTA, Works, Breaks, SameServer, TypeOK
  <2>3. (cancelled' = cancelled) \/ cancelled'
    BY <1>4 DEF CallAttemptSTA, Works, Breaks
  <2>4. QED
    BY <1>4, <2>1, <2>2, <2>3 DEF CallAttemptSTA, STAFails
<1>5. CASE CallEvaluate
  <2>1. status'.state # "ap" /\ pc' \in {"top", "staFailed"}
    BY <1>5, PublishedType DEF CallEvaluate, Status, STAFails
  <2>2. QED
    BY <1>5, <2>1 DEF CallEvaluate
<1>6. CASE STAFailed
  BY <1>6 DEF STAFailed
<1>7. CASE Pause
  BY <1>7 DEF Pause
<1>8. QED
  BY <1>1, <1>2, <1>3, <1>4, <1>5, <1>6, <1>7 DEF STA

LEMMA TornDownDaemons ==
  ASSUME TypeOK, TornDown
  PROVE  ~cancelled' => ~world'.dnsmasq
<1>1. SUFFICES ASSUME ~cancelled' PROVE ~world'.dnsmasq
  OBVIOUS
<1>2. Last(StopAP(world)) \in World /\ Interrupted(StopAP(world)) \subseteq World
  BY CallsStayInWorld DEF TypeOK
<1>3. PICK w \in World : world' = DnsmasqStopped(w)
  BY <1>1, <1>2 DEF TornDown
<1>4. QED
  BY <1>3 DEF DnsmasqStopped, World

LEMMA DaemonAP == TypeOK /\ DaemonInv /\ (AP \/ DropAP) => DaemonInv'
<1> SUFFICES ASSUME TypeOK, DaemonInv, AP \/ DropAP PROVE DaemonInv'
  OBVIOUS
<1> USE DEF DaemonInv, PhaseInv, RenewerInv, ServerInv, AsClient, loop, others, around, Goto
<1>1. CASE CallStartAP
  <2>1. pc' = "startDnsmasq" => ~world'.dhclient
    BY <1>1, StartAPOutcomes DEF CallStartAP, Works, Beaconing, TypeOK
  <2>2. QED
    BY <1>1, <2>1 DEF CallStartAP
<1>2. CASE StartDnsmasq
  <2>1. DnsmasqStarted(world).dhclient = world.dhclient
    BY DEF DnsmasqStarted, TypeOK, World
  <2>2. QED
    BY <1>2, <2>1 DEF StartDnsmasq
<1>3. CASE VerifyActive
  BY <1>3 DEF VerifyActive
<1>4. CASE VerifyAlive
  BY <1>4 DEF VerifyAlive
<1>5. CASE RecordError
  BY <1>5 DEF RecordError, TypeOK, Status
<1>6. CASE APFailed
  BY <1>6 DEF APFailed
<1>7. CASE TearDown
  BY <1>7 DEF TearDown
<1>8. CASE DropAP
  BY <1>8, TornDownDaemons DEF DropAP
<1>9. QED
  BY <1>1, <1>2, <1>3, <1>4, <1>5, <1>6, <1>7, <1>8 DEF AP

\* A clean shutdown kills the renewing daemon first.
LEMMA CleanedDaemons ==
  ASSUME TypeOK, NEW w \in Cleaned
  PROVE  ~w.dhclient
<1> DEFINE killed == KillDHClient(world)
<1>1. killed \in World /\ ~killed.dhclient
  BY DEF KillDHClient, TypeOK, World
<1>2. \A v \in SameDaemons(killed) : ~v.dhclient /\ ~DnsmasqStopped(v).dhclient
  BY <1>1 DEF SameDaemons, SameServer, DnsmasqStopped, World
<1>3. Last(StopAP(killed)) \in SameDaemons(killed)
      /\ Interrupted(StopAP(killed)) \subseteq SameDaemons(killed)
  BY <1>1, StopAPOutcomes
<1>4. QED
  BY <1>1, <1>2, <1>3 DEF Cleaned

LEMMA DaemonRest ==
  TypeOK /\ DaemonInv /\ (Wait \/ Heartbeat \/ CleanupOnCancel \/ Restart \/ Surroundings)
    => DaemonInv'
<1> SUFFICES ASSUME TypeOK, DaemonInv,
                    Wait \/ Heartbeat \/ CleanupOnCancel \/ Restart \/ Surroundings
             PROVE  DaemonInv'
  OBVIOUS
<1> USE DEF DaemonInv, PhaseInv, RenewerInv, ServerInv, AsClient, loop, others, around, Goto
<1>1. CASE Wait
  BY <1>1, PublishedType DEF Wait, WaitOver, TakeRetry, WaitCancelled, LeaveAP
<1>2. CASE Heartbeat
  BY <1>2 DEF Heartbeat
<1>3. CASE CleanupOnCancel
  BY <1>3, CleanedDaemons DEF CleanupOnCancel
<1>4. CASE Restart
  BY <1>4, PublishedType DEF Restart, ColdWorld
<1>5. CASE DaemonDies
  <2>1. world'.dhclient = world.dhclient /\ (world'.dnsmasq => world.dnsmasq)
    BY <1>5 DEF DaemonDies, DnsmasqStopped, TypeOK, World
  <2>2. QED
    BY <1>5, <2>1 DEF DaemonDies, Stirs
<1>6. CASE NetworkMoves \/ ConfigMoves \/ Shutdown \/ RetryNow \/ NoteProvisioning
  BY <1>6 DEF NetworkMoves, ConfigMoves, Shutdown, RetryNow, NoteProvisioning, Stirs
<1>7. CASE ProvisioningAges \/ GraceEnds \/ Settle
  BY <1>7 DEF ProvisioningAges, GraceEnds, Settle
<1>8. QED
  BY <1>1, <1>2, <1>3, <1>4, <1>5, <1>6, <1>7 DEF Surroundings

LEMMA DaemonInvariance == Spec => [](TypeOK /\ DaemonInv)
<1>1. TypeOK /\ DaemonInv /\ [Next]_vars => DaemonInv'
  <2>1. DaemonInv /\ UNCHANGED vars => DaemonInv'
    BY DEF DaemonInv, PhaseInv, RenewerInv, ServerInv, AsClient, vars, loop, around, others
  <2>2. QED
    BY <2>1, DaemonSTA, DaemonAP, DaemonRest DEF Next, Run
<1>2. QED
  BY <1>1, DaemonInit, TypeCorrect, PTL DEF Spec

\* No lease is renewed behind a published AP (driver_mode2.go, StartAP) nor
\* after a clean shutdown (manager.go, cleanupOnCancel), whatever failed, died
\* or arrived in between.
THEOREM NoRenewer == Spec => []NoStrayRenewer
<1>1. DaemonInv => NoStrayRenewer
  BY DEF DaemonInv, RenewerInv, NoStrayRenewer
<1>2. QED
  BY <1>1, DaemonInvariance, PTL

\* The device never becomes a client while it still serves addresses
\* (manager.go, runAPWait and toSTA).
THEOREM NeverServesAsClient == Spec => OnlineWithoutServing
<1>1. TypeOK /\ DaemonInv /\ Next /\ status.state # "online" /\ status'.state = "online"
        => ~world'.dnsmasq
  <2> SUFFICES ASSUME TypeOK, DaemonInv, Next,
                      status.state # "online", status'.state = "online"
               PROVE  ~world'.dnsmasq
    OBVIOUS
  <2>1. CallEvaluate
    <3> USE PublishedType DEF loop, others, around, Status, TypeOK
    <3>1. ~ToSTA /\ ~CallAttemptSTA
      BY DEF ToSTA, CallAttemptSTA
    <3>2. ~LoopTop /\ ~Recheck /\ ~STAFailed /\ ~Pause
      BY DEF LoopTop, Recheck, STAFailed, Pause
    <3>3. ~AP
      BY DEF AP, CallStartAP, StartDnsmasq, VerifyActive, VerifyAlive, RecordError, APFailed,
             TearDown
    <3>4. ~Wait /\ ~Heartbeat /\ ~DropAP /\ ~CleanupOnCancel /\ ~Restart
      BY DEF Wait, WaitOver, TakeRetry, WaitCancelled, LeaveAP, Heartbeat, DropAP,
             CleanupOnCancel, Restart
    <3>5. ~Surroundings
      BY DEF Surroundings, DaemonDies, NetworkMoves, ConfigMoves, Shutdown, RetryNow,
             NoteProvisioning, ProvisioningAges, GraceEnds, Settle, Stirs
    <3>6. QED
      BY <3>1, <3>2, <3>3, <3>4, <3>5 DEF Next, Run, STA
  <2>2. pc = "evaluate" /\ world' = world /\ "ok" \in Seen
    BY <2>1, PublishedType DEF CallEvaluate, Status, Stage, Error
  <2>3. ~cancelled
    BY <2>2 DEF Seen
  <2>4. QED
    BY <2>2, <2>3 DEF DaemonInv, ServerInv, AsClient
<1>2. TypeOK /\ DaemonInv /\ [Next]_vars =>
        [status.state # "online" /\ status'.state = "online" => ~world'.dnsmasq]_vars
  BY <1>1 DEF vars
<1>3. QED
  BY <1>2, DaemonInvariance, PTL DEF Spec, OnlineWithoutServing

-----------------------------------------------------------------------------
(***************************************************************************)
(* The AP-restore invariant: what toAP verifies one after the other still  *)
(* holds when it publishes, and until the published state is taken back,   *)
(* unless a daemon dies. The address does not depend on the daemons.       *)
(***************************************************************************)
Addressed(w) == w.dhclient = FALSE /\ w.addrs = {"ap"}

RealInv ==
  /\ pc \in {"startDnsmasq", "active", "alive"} => Addressed(world)
  /\ pc = "alive" /\ ~died => world.wpa = "ap"
  /\ status.hotspot => status.state = "ap"
  /\ status.hotspot /\ pc # "stopped" =>
       Addressed(world) /\ (died \/ (world.wpa = "ap" /\ world.dnsmasq))

LEMMA RealInit == Init => RealInv
  BY PublishedType DEF Init, RealInv

LEMMA RealSTA ==
  TypeOK /\ PhaseInv /\ RealInv /\ (LoopTop \/ Recheck \/ STA) => RealInv'
<1> SUFFICES ASSUME TypeOK, PhaseInv, RealInv, LoopTop \/ Recheck \/ STA PROVE RealInv'
  OBVIOUS
<1> USE DEF PhaseInv, RealInv, loop, others, around, Goto
<1>1. CASE LoopTop
  BY <1>1 DEF LoopTop, TypeOK, Phase
<1>2. CASE Recheck
  BY <1>2 DEF Recheck
<1>3. CASE ToSTA
  <2>1. ~status'.hotspot
    BY <1>3, PublishedType DEF ToSTA, Status
  <2>2. QED
    BY <1>3, <2>1 DEF ToSTA, STAFails
<1>4. CASE CallAttemptSTA
  <2>1. ~status'.hotspot /\ pc' \in {"evaluate", "staFailed"}
    BY <1>4, PublishedType DEF CallAttemptSTA, Status, STAFails
  <2>2. QED
    BY <2>1
<1>5. CASE CallEvaluate
  <2>1. ~status'.hotspot /\ pc' \in {"top", "staFailed"}
    BY <1>5, PublishedType DEF CallEvaluate, Status, STAFails
  <2>2. QED
    BY <2>1
<1>6. CASE STAFailed
  BY <1>6 DEF STAFailed
<1>7. CASE Pause
  BY <1>7 DEF Pause
<1>8. QED
  BY <1>1, <1>2, <1>3, <1>4, <1>5, <1>6, <1>7 DEF STA

LEMMA RealAP ==
  TypeOK /\ PhaseInv /\ RealInv /\ (AP \/ DropAP) => RealInv'
<1> SUFFICES ASSUME TypeOK, PhaseInv, RealInv, AP \/ DropAP PROVE RealInv'
  OBVIOUS
<1> USE DEF PhaseInv, RealInv, loop, others, around, Goto
<1>1. CASE CallStartAP
  <2>1. pc' = "startDnsmasq" => Addressed(world')
    BY <1>1, StartAPOutcomes DEF CallStartAP, Works, TypeOK, Beaconing, Addressed
  <2>2. QED
    BY <1>1, <2>1 DEF CallStartAP
<1>2. CASE StartDnsmasq
  <2>1. Addressed(world) => Addressed(DnsmasqStarted(world))
    BY DEF DnsmasqStarted, Addressed, TypeOK, World
  <2>2. QED
    BY <1>2, <2>1 DEF StartDnsmasq
<1>3. CASE VerifyActive
  BY <1>3 DEF VerifyActive, APActive
<1>4. CASE VerifyAlive
  <2>1. status'.hotspot => /\ status'.state = "ap" /\ Addressed(world')
                           /\ died' \/ (world'.wpa = "ap" /\ world'.dnsmasq)
    BY <1>4, PublishedType DEF VerifyAlive, Status, Alive
  <2>2. QED
    BY <1>4, <2>1 DEF VerifyAlive
<1>5. CASE RecordError
  BY <1>5 DEF RecordError, TypeOK, Status
<1>6. CASE APFailed
  BY <1>6 DEF APFailed
<1>7. CASE TearDown
  BY <1>7 DEF TearDown
<1>8. CASE DropAP
  BY <1>8 DEF DropAP, TypeOK, Status
<1>9. QED
  BY <1>1, <1>2, <1>3, <1>4, <1>5, <1>6, <1>7, <1>8 DEF AP

LEMMA RealRest ==
  TypeOK /\ PhaseInv /\ RealInv
  /\ (Wait \/ Heartbeat \/ CleanupOnCancel \/ Restart \/ Surroundings) => RealInv'
<1> SUFFICES ASSUME TypeOK, PhaseInv, RealInv,
                    Wait \/ Heartbeat \/ CleanupOnCancel \/ Restart \/ Surroundings
             PROVE  RealInv'
  OBVIOUS
<1> USE DEF PhaseInv, RealInv, loop, others, around, Goto
<1>1. CASE Wait
  BY <1>1, PublishedType DEF Wait, WaitOver, TakeRetry, WaitCancelled, LeaveAP
<1>2. CASE Heartbeat
  BY <1>2 DEF Heartbeat
<1>3. CASE CleanupOnCancel
  BY <1>3 DEF CleanupOnCancel
<1>4. CASE Restart
  BY <1>4, PublishedType DEF Restart
<1>5. CASE DaemonDies
  <2>1. Addressed(world) => Addressed(world')
    BY <1>5 DEF DaemonDies, DnsmasqStopped, Addressed, TypeOK, World
  <2>2. died' = TRUE /\ UNCHANGED <<pc, status>>
    BY <1>5 DEF DaemonDies, Stirs
  <2>3. QED
    BY <2>1, <2>2
<1>6. CASE NetworkMoves \/ ConfigMoves \/ Shutdown \/ RetryNow \/ NoteProvisioning
  BY <1>6 DEF NetworkMoves, ConfigMoves, Shutdown, RetryNow, NoteProvisioning, Stirs
<1>7. CASE ProvisioningAges \/ GraceEnds \/ Settle
  BY <1>7 DEF ProvisioningAges, GraceEnds, Settle
<1>8. QED
  BY <1>1, <1>2, <1>3, <1>4, <1>5, <1>6, <1>7 DEF Surroundings

LEMMA RealInvariance == Spec => [](TypeOK /\ DaemonInv /\ RealInv)
<1>1. TypeOK /\ DaemonInv /\ RealInv /\ [Next]_vars => RealInv'
  <2>1. RealInv /\ UNCHANGED vars => RealInv'
    BY DEF RealInv, vars, loop, around, others
  <2>2. QED
    BY <2>1, RealSTA, RealAP, RealRest DEF Next, Run, DaemonInv
<1>2. QED
  BY <1>1, RealInit, DaemonInvariance, PTL DEF Spec

\* ADR 0003: a hotspot that is shown is the verified one (manager.go, toAP,
\* attemptAP), whatever command failed or daemon died before, and whenever
\* the process is told to stop.
THEOREM ShownHotspotIsReal == Spec => []FallbackIsReal
<1>1. TypeOK /\ RealInv => FallbackIsReal
  BY BeaconingWorld DEF RealInv, FallbackIsReal, Addressed, Beaconing, TypeOK
<1>2. QED
  BY <1>1, RealInvariance, PTL

-----------------------------------------------------------------------------
(***************************************************************************)
(* The refinement: every call of the manager is a step of the hotspot that *)
(* Fallback promises, or none. It needs the converse of PhaseInv too:      *)
(* where the loop is parked on the AP, the AP is published.                *)
(***************************************************************************)
ParkedInv ==
  /\ pc \in {"wait", "record"} \/ (pc = "top" /\ phase = "ap") => status.state = "ap"
  /\ pc = "recheck" => phase = "online"

LEMMA ParkedInit == Init => ParkedInv
  BY DEF Init, ParkedInv

LEMMA ParkedNext == TypeOK /\ PhaseInv /\ ParkedInv /\ [Next]_vars => ParkedInv'
<1> SUFFICES ASSUME TypeOK, PhaseInv, ParkedInv, [Next]_vars PROVE ParkedInv'
  OBVIOUS
<1> USE DEF PhaseInv, ParkedInv, loop, others, around, Goto
<1>1. CASE LoopTop
  BY <1>1 DEF LoopTop, TypeOK, Phase
<1>2. CASE CallAttemptSTA
  BY <1>2 DEF CallAttemptSTA, STAFails
<1>3. CASE CallEvaluate
  BY <1>3 DEF CallEvaluate, STAFails
<1>4. CASE CallStartAP \/ StartDnsmasq \/ VerifyActive \/ APFailed \/ TearDown \/ DropAP
  BY <1>4 DEF CallStartAP, StartDnsmasq, VerifyActive, APFailed, TearDown, DropAP
<1>5. CASE VerifyAlive
  BY <1>5, PublishedType DEF VerifyAlive, Status
<1>6. CASE RecordError
  BY <1>6 DEF RecordError, TypeOK, Status
<1>7. CASE Wait \/ Heartbeat \/ CleanupOnCancel
  BY <1>7 DEF Wait, WaitOver, TakeRetry, WaitCancelled, LeaveAP, Heartbeat, CleanupOnCancel
<1>8. CASE Restart
  BY <1>8 DEF Restart
<1>9. CASE Surroundings
  BY <1>9 DEF Surroundings, DaemonDies, NetworkMoves, ConfigMoves, Shutdown, RetryNow,
              NoteProvisioning, ProvisioningAges, GraceEnds, Settle, Stirs
<1>10. CASE UNCHANGED vars
  BY <1>10 DEF vars
<1>11. CASE Recheck \/ ToSTA \/ STAFailed \/ Pause
  BY <1>11 DEF Recheck, ToSTA, STAFails, STAFailed, Pause
<1>12. QED
  BY <1>1, <1>2, <1>3, <1>4, <1>5, <1>6, <1>7, <1>8, <1>9, <1>10, <1>11 DEF Next, Run, STA, AP

\* Which part is up.
PartsRead ==
  /\ Up \subseteq F!Part
  /\ "beacon" \in Up <=> world.wpa = "ap"
  /\ "server" \in Up <=> world.dnsmasq
  /\ "address" \in Up <=> world.addrs = {"ap"}
  /\ "renewer" \in Up <=> world.dhclient

LEMMA UpParts == PartsRead /\ PartsRead'
  BY DEF PartsRead, Up, F!Part

\* What is built while nothing is shown is the abstract machine's own affair.
LEMMA Unshown ==
  ASSUME TypeOK, status.state # "ap", pc # "stopped", pc' # "stopped", died' = died
  PROVE  /\ status'.state = status.state => F!Work
         /\ status'.state = "connecting" => F!Connect
<1>1. Shown = status.state /\ Shown' = status'.state /\ status.state # "off"
  BY DEF Shown, TypeOK, Status
<1>2. F!Hidden /\ Up' \in SUBSET F!Part
  BY <1>1, UpParts DEF PartsRead, F!Hidden
<1>3. QED
  BY <1>1, <1>2 DEF F!Work, F!Connect, F!Move

\* Neither what is shown nor what is up changes.
Unseen == UNCHANGED <<Shown, Up, died>>

LEMMA Unmoved ==
  ASSUME UNCHANGED <<world, died>>, status'.state = status.state,
         pc = "stopped" <=> pc' = "stopped"
  PROVE  Unseen
BY DEF Unseen, Shown, Up

LEMMA PromiseInit == Init => F!Init
  BY DEF Init, F!Init, Shown, Up, ColdWorld, Published

LEMMA PromiseSTA ==
  TypeOK /\ DaemonInv /\ (LoopTop \/ Recheck \/ STA) => F!Next \/ Unseen
<1> SUFFICES ASSUME TypeOK, DaemonInv, LoopTop \/ Recheck \/ STA PROVE F!Next \/ Unseen
  OBVIOUS
<1> USE DEF DaemonInv, PhaseInv, loop, others, around, Goto
<1>1. CASE LoopTop
  <2>1. pc' # "stopped"
    BY <1>1 DEF LoopTop, TypeOK, Phase
  <2>2. QED
    BY <1>1, <2>1, Unmoved DEF LoopTop
<1>2. CASE Recheck
  BY <1>2, Unmoved DEF Recheck
<1>3. CASE ToSTA
  <2>1. status' = status \/ status'.state = "connecting"
    BY <1>3, PublishedType DEF ToSTA, Status
  <2>2. QED
    BY <1>3, <2>1, Unshown DEF ToSTA, STAFails, F!Next
<1>4. CASE CallAttemptSTA
  <2>1. status' = status \/ status'.state = "connecting"
    BY <1>4, PublishedType DEF CallAttemptSTA, Status
  <2>2. QED
    BY <1>4, <2>1, Unshown DEF CallAttemptSTA, STAFails, F!Next
<1>5. CASE CallEvaluate
  <2>1. PICK stage \in Seen :
          \/ stage = "ok" /\ status' = Published("online") /\ pc' = "top"
          \/ stage # "ok" /\ pc' = "staFailed"
             /\ status' = [Published("connecting") EXCEPT !.stage = stage,
                                                          !.lastSTAErr = stage]
    BY <1>5 DEF CallEvaluate, STAFails
  <2>2. CASE stage = "ok"
    <3>1. ~cancelled
      BY <2>1, <2>2 DEF Seen
    <3>2. "server" \notin Up /\ Up' = Up
      BY <1>5, <3>1, UpParts DEF CallEvaluate, PartsRead, ServerInv, AsClient, Up
    <3>3. F!Hidden /\ Shown' = "online" /\ died' = died
      BY <1>5, <2>1, <2>2 DEF CallEvaluate, F!Hidden, Shown, Published, TypeOK, Status
    <3>4. F!Join
      BY <3>2, <3>3 DEF F!Join, F!Move
    <3>5. QED
      BY <3>4 DEF F!Next
  <2>3. CASE stage # "ok"
    <3>1. status'.state = "connecting"
      BY <2>1, <2>3, PublishedType DEF Status
    <3>2. QED
      BY <1>5, <2>1, <2>3, <3>1, Unshown DEF CallEvaluate, F!Next
  <2>4. QED
    BY <2>2, <2>3
<1>6. CASE STAFailed
  BY <1>6, Unmoved DEF STAFailed
<1>7. CASE Pause
  BY <1>7, Unmoved DEF Pause
<1>8. QED
  BY <1>1, <1>2, <1>3, <1>4, <1>5, <1>6, <1>7 DEF STA

\* What toAP has verified when it publishes.
LEMMA PromiseShown ==
  ASSUME TypeOK, PhaseInv, RealInv, VerifyAlive, status'.state = "ap"
  PROVE  F!Show
<1>1. pc = "alive" /\ status.state # "ap"
  BY DEF VerifyAlive, PhaseInv
<1>2. Alive(world) /\ world' = world /\ died' = died /\ pc' # "stopped"
  BY <1>1 DEF VerifyAlive, around, others
<1>3. {"server", "address"} \subseteq Up /\ "renewer" \notin Up /\ Up \subseteq F!Part
  BY <1>1, <1>2, UpParts DEF RealInv, Addressed, PartsRead, Alive
<1>4. died \/ "beacon" \in Up
  BY <1>1, UpParts DEF RealInv, PartsRead
<1>5. Up' = Up
  BY <1>2 DEF Up
<1>6. Up = F!Hotspot \/ (died /\ Up \cup {"beacon"} = F!Hotspot)
  BY <1>3, <1>4 DEF F!Hotspot, F!Part
<1>7. QED
  BY <1>1, <1>2, <1>5, <1>6 DEF F!Show, F!Move, F!Hidden, Shown, TypeOK, Status

LEMMA PromiseAP ==
  TypeOK /\ DaemonInv /\ RealInv /\ (AP \/ DropAP) => F!Next \/ Unseen
<1> SUFFICES ASSUME TypeOK, DaemonInv, RealInv, AP \/ DropAP PROVE F!Next \/ Unseen
  OBVIOUS
<1> USE DEF DaemonInv, PhaseInv, loop, others, around, Goto
<1>1. CASE CallStartAP
  BY <1>1, Unshown DEF CallStartAP, F!Next
<1>2. CASE StartDnsmasq
  BY <1>2, Unshown DEF StartDnsmasq, F!Next
<1>3. CASE VerifyActive
  <2>1. CASE died' = FALSE /\ APActive(world)
    <3>1. "beacon" \in Up /\ Up' = Up
      BY <1>3, <2>1, UpParts DEF VerifyActive, APActive, PartsRead, Up
    <3>2. F!Verify
      BY <1>3, <2>1, <3>1 DEF VerifyActive, F!Verify, F!Hidden, Shown, TypeOK, Status
    <3>3. QED
      BY <3>2 DEF F!Next
  <2>2. CASE died' = died
    BY <1>3, <2>2, Unmoved DEF VerifyActive
  <2>3. QED
    BY <1>3, <2>1, <2>2 DEF VerifyActive
<1>4. CASE VerifyAlive
  <2>1. CASE status'.state = "ap"
    BY <1>4, <2>1, PromiseShown DEF F!Next
  <2>2. CASE status' = status
    <3>1. pc' # "stopped"
      BY <1>4 DEF VerifyAlive
    <3>2. QED
      BY <1>4, <2>2, <3>1, Unmoved DEF VerifyAlive
  <2>3. QED
    BY <1>4, <2>1, <2>2, PublishedType DEF VerifyAlive, Status
<1>5. CASE RecordError
  BY <1>5, Unmoved DEF RecordError, TypeOK, Status
<1>6. CASE APFailed
  BY <1>6, Unmoved DEF APFailed
<1>7. CASE TearDown
  <2>1. died' = died /\ status' = status /\ pc' = "startAP"
    BY <1>7 DEF TearDown
  <2>2. QED
    BY <1>7, <2>1, Unshown DEF TearDown, F!Next
<1>8. CASE DropAP
  BY <1>8, Unshown DEF DropAP, F!Next
<1>9. QED
  BY <1>1, <1>2, <1>3, <1>4, <1>5, <1>6, <1>7, <1>8 DEF AP

\* Neither StopAP nor a part of it puts anything up.
Dismantled(w) ==
  {v \in SameDaemons(w) : /\ v.wpa = "ap" => w.wpa = "ap"
                          /\ v.addrs = {"ap"} => w.addrs = {"ap"}}

LEMMA StopAPDismantles ==
  ASSUME NEW w \in World
  PROVE  /\ Last(StopAP(w)) \in Dismantled(w)
         /\ Interrupted(StopAP(w)) \subseteq Dismantled(w)
<1> DEFINE S        == Dismantled(w)
           disabled == [w EXCEPT !.wpa = IF @ = "ap" THEN "idle" ELSE @]
           flushed  == [disabled EXCEPT !.addrs = {}]
<1>1. w \in S
  BY DEF Dismantled, SameDaemons, SameServer, World
<1>2. disabled \in S
  BY DEF Dismantled, SameDaemons, SameServer, World
<1>3. flushed \in S
  <2>1. disabled \in World
    BY <1>2 DEF Dismantled, SameDaemons, SameServer
  <2> HIDE DEF disabled
  <2>2. flushed \in World /\ flushed.addrs = {} /\ flushed.wpa = disabled.wpa
        /\ flushed.dnsmasq = disabled.dnsmasq /\ flushed.dhclient = disabled.dhclient
    BY <2>1 DEF World
  <2>3. QED
    BY <1>2, <2>2 DEF Dismantled, SameDaemons, SameServer
<1>4. StopAP(w) = IF w.wpa = "down" THEN <<w>> ELSE <<w, disabled, flushed>>
  BY DEF StopAP
<1>5. StopAP(w) \in Seq(S) /\ Len(StopAP(w)) > 0
  <2> HIDE DEF S, disabled, flushed
  <2> QED
    BY <1>1, <1>2, <1>3, <1>4
<1>6. QED
  BY <1>5, Outcomes

\* A clean shutdown puts nothing up, and takes the server of a shown AP down.
LEMMA CleanedDismantles ==
  ASSUME TypeOK, NEW w \in Cleaned
  PROVE  /\ ~w.dhclient
         /\ w.wpa = "ap" => world.wpa = "ap"
         /\ w.addrs = {"ap"} => world.addrs = {"ap"}
         /\ w.dnsmasq => world.dnsmasq /\ status.state # "ap"
<1> DEFINE killed == KillDHClient(world)
<1>1. killed \in World /\ ~killed.dhclient /\ killed.wpa = world.wpa
      /\ killed.addrs = world.addrs /\ killed.dnsmasq = world.dnsmasq
  BY DEF KillDHClient, TypeOK, World
<1>2. CASE status.state # "ap"
  BY <1>1, <1>2 DEF Cleaned
<1>3. CASE status.state = "ap"
  <2> HIDE DEF killed
  <2>1. PICK v \in Dismantled(killed) : w = DnsmasqStopped(v)
    <3>1. w \in {DnsmasqStopped(v) : v \in Dismantled(killed)}
      BY <1>1, <1>3, StopAPDismantles DEF Cleaned, killed
    <3>2. QED
      BY <3>1
  <2>2. v \in World
    BY <2>1 DEF Dismantled, SameDaemons, SameServer
  <2>3. ~w.dnsmasq /\ w.wpa = v.wpa /\ w.addrs = v.addrs /\ w.dhclient = v.dhclient
    BY <2>1, <2>2 DEF DnsmasqStopped, World
  <2>4. QED
    BY <1>1, <2>1, <2>3 DEF Dismantled, SameDaemons, SameServer
<1>4. QED
  BY <1>2, <1>3

LEMMA PromiseRest ==
  TypeOK /\ DaemonInv /\ ParkedInv
  /\ (Wait \/ Heartbeat \/ CleanupOnCancel \/ Restart \/ Surroundings) => F!Next \/ Unseen
<1> SUFFICES ASSUME TypeOK, DaemonInv, ParkedInv,
                    Wait \/ Heartbeat \/ CleanupOnCancel \/ Restart \/ Surroundings
             PROVE  F!Next \/ Unseen
  OBVIOUS
<1> USE DEF DaemonInv, PhaseInv, ParkedInv, loop, others, around, Goto
<1>1. CASE Wait
  <2>1. CASE pc = "wait" /\ LeaveAP /\ UNCHANGED <<world, died>>
    <3>1. F!Leave
      BY <2>1, PublishedType DEF LeaveAP, F!Leave, Shown, Up, Status, Published
    <3>2. QED
      BY <3>1 DEF F!Next
  <2>2. CASE UNCHANGED <<status, world, died>> /\ pc = "wait" /\ pc' \in {"top", "cleanup"}
    BY <2>2, Unmoved
  <2>3. QED
    BY <1>1, <2>1, <2>2 DEF Wait, WaitOver, TakeRetry, WaitCancelled
<1>2. CASE Heartbeat
  BY <1>2, Unmoved DEF Heartbeat
<1>3. CASE CleanupOnCancel
  <2>1. pc = "cleanup" /\ pc' = "stopped" /\ world' \in Cleaned /\ died' = died
    BY <1>3 DEF CleanupOnCancel
  <2>2. Up' \subseteq Up \ {"renewer"} /\ (status.state = "ap" => "server" \notin Up')
    BY <2>1, CleanedDismantles, UpParts DEF PartsRead, F!Part
  <2>3. status.state # "off"
    BY DEF TypeOK, Status
  <2>4. F!End
    BY <2>1, <2>2, <2>3 DEF F!End, Shown
  <2>5. QED
    BY <2>4 DEF F!Next
<1>4. CASE Restart
  <2>1. Shown # "ap" /\ Shown' = "boot" /\ died' = FALSE
    BY <1>4 DEF Restart, Shown, Published
  <2>2. world'.wpa = "down" /\ ~world'.dnsmasq /\ ~world'.dhclient /\ world'.addrs = world.addrs
    BY <1>4 DEF Restart, ColdWorld
  <2>3. Up' = Up \cap {"address"}
    BY <2>2, UpParts DEF PartsRead, F!Part
  <2>4. F!Restart
    BY <2>1, <2>3 DEF F!Restart
  <2>5. QED
    BY <2>4 DEF F!Next
<1>5. CASE DaemonDies
  <2>1. Shown' = Shown /\ died' = TRUE
    BY <1>5 DEF DaemonDies, Stirs, Shown
  <2>2. \E p \in {"beacon", "server"} : Up' = Up \ {p}
    <3>1. CASE world' = [world EXCEPT !.wpa = "down"]
      <4>1. /\ world'.wpa = "down" /\ world'.dnsmasq = world.dnsmasq
            /\ world'.dhclient = world.dhclient /\ world'.addrs = world.addrs
        BY <3>1 DEF TypeOK, World
      <4>2. Up' = Up \ {"beacon"}
        BY <4>1, UpParts DEF PartsRead, F!Part
      <4>3. QED
        BY <4>2
    <3>2. CASE world' = DnsmasqStopped(world)
      <4>1. /\ world'.wpa = world.wpa /\ world'.dnsmasq = FALSE
            /\ world'.dhclient = world.dhclient /\ world'.addrs = world.addrs
        BY <3>2 DEF DnsmasqStopped, TypeOK, World
      <4>2. Up' = Up \ {"server"}
        BY <4>1, UpParts DEF PartsRead, F!Part
      <4>3. QED
        BY <4>2
    <3>3. QED
      BY <1>5, <3>1, <3>2 DEF DaemonDies
  <2>3. F!Vanish
    BY <2>1, <2>2 DEF F!Vanish
  <2>4. QED
    BY <2>3 DEF F!Next
<1>6. CASE NetworkMoves \/ ConfigMoves \/ Shutdown \/ RetryNow \/ NoteProvisioning
  BY <1>6, Unmoved DEF NetworkMoves, ConfigMoves, Shutdown, RetryNow, NoteProvisioning, Stirs
<1>7. CASE ProvisioningAges \/ GraceEnds \/ Settle
  BY <1>7, Unmoved DEF ProvisioningAges, GraceEnds, Settle
<1>8. QED
  BY <1>1, <1>2, <1>3, <1>4, <1>5, <1>6, <1>7 DEF Surroundings

\* The fallback keeps its promise (manager.go, Run): it implements the
\* hotspot that is complete when it is shown, is taken back before it is torn
\* down, and is gone before the device joins a network or its process ends,
\* under every set of disturbances.
THEOREM FallbackIsKept == Spec => KeepsPromise
<1> DEFINE Inv == TypeOK /\ DaemonInv /\ RealInv /\ ParkedInv
<1>1. Spec => []Inv
  <2>1. DaemonInv => PhaseInv
    BY DEF DaemonInv
  <2>2. QED
    BY <2>1, RealInvariance, ParkedInit, ParkedNext, PTL DEF Spec
<1>2. Inv /\ [Next]_vars => [F!Next]_<<Shown, Up, died>>
  <2>1. UNCHANGED vars => Unseen
    BY Unmoved DEF vars, loop
  <2>2. Inv /\ Next => F!Next \/ Unseen
    BY PromiseSTA, PromiseAP, PromiseRest DEF Next, Run
  <2>3. QED
    BY <2>1, <2>2 DEF Unseen
<1>3. QED
  BY <1>1, <1>2, PromiseInit, PTL DEF Spec, KeepsPromise, F!Spec

-----------------------------------------------------------------------------
(***************************************************************************)
(* The time between two Beats, where the watchdog is watching: the longest *)
(* it can be at each place of the loop, in units of 5 s.                   *)
(***************************************************************************)
Beaten(time) == phase # "online" /\ ~cancelled => gap <= time

GapInv ==
  /\ pc = "recheck" => phase = "online"
  /\ pc \in {"cleanup", "stopped"} => cancelled
  /\ pc \in {"wait", "pause"} => Beaten(0)
  /\ pc = "drop" => Beaten(6)
  /\ pc = "sta" => Beaten(8)
  /\ pc \in {"attempt", "evaluate"} => Beaten(9)
  /\ pc = "staFailed" => Beaten(18)
  /\ pc = "startAP" => Beaten(IF attempt = 1 THEN 18 ELSE 23)
  /\ pc \in {"startDnsmasq", "active", "alive", "apFailed"} =>
       Beaten(IF attempt = 1 THEN 21 ELSE 26)
  /\ pc = "teardown" => Beaten(IF attempt = 1 THEN 0 ELSE 21)
  /\ pc \in {"record", "failed"} => Beaten(26)

LEMMA GapInit == Init => GapInv
  BY DEF Init, GapInv

LEMMA GapSTA == TypeOK /\ GapInv /\ (LoopTop \/ Recheck \/ STA) => GapInv'
<1> SUFFICES ASSUME TypeOK, GapInv, LoopTop \/ Recheck \/ STA PROVE GapInv'
  OBVIOUS
<1> USE DEF TypeOK, GapInv, Beaten, loop, others, around, Goto, Beat, Spend
<1>1. CASE LoopTop
  BY <1>1 DEF LoopTop, Phase
<1>2. CASE Recheck
  BY <1>2 DEF Recheck, OnlineRecheckInterval, STAAttemptBound
<1>3. CASE ToSTA
  BY <1>3 DEF ToSTA, STAFails, PrereqsBound
<1>4. CASE CallAttemptSTA
  BY <1>4 DEF CallAttemptSTA, Works, Breaks, STAFails, STAAttemptBound
<1>5. CASE CallEvaluate
  <2>1. pc = "evaluate" /\ gap' = gap + 9 /\ cancelled' = cancelled
    BY <1>5 DEF CallEvaluate, STAAttemptBound
  <2>2. (pc' = "top") \/ (pc' = "staFailed" /\ phase' = phase)
    BY <1>5 DEF CallEvaluate, STAFails
  <2>3. QED
    BY <2>1, <2>2
<1>6. CASE STAFailed
  BY <1>6 DEF STAFailed
<1>7. CASE Pause
  BY <1>7 DEF Pause, BootSTARetryPause
<1>8. QED
  BY <1>1, <1>2, <1>3, <1>4, <1>5, <1>6, <1>7 DEF STA

LEMMA GapAP == TypeOK /\ GapInv /\ (AP \/ DropAP) => GapInv'
<1> SUFFICES ASSUME TypeOK, GapInv, AP \/ DropAP PROVE GapInv'
  OBVIOUS
<1> USE DEF TypeOK, GapInv, Beaten, loop, others, around, Goto, Beat, Spend
<1>1. CASE CallStartAP
  BY <1>1 DEF CallStartAP, Works, Breaks, StartAPBound
<1>2. CASE StartDnsmasq \/ VerifyActive
  BY <1>2 DEF StartDnsmasq, VerifyActive
<1>3. CASE VerifyAlive
  BY <1>3 DEF VerifyAlive
<1>4. CASE RecordError
  BY <1>4 DEF RecordError
<1>5. CASE APFailed
  BY <1>5 DEF APFailed
<1>6. cancelled => cancelled' \/ ~TornDown
  BY DEF TornDown
<1>7. CASE TearDown
  BY <1>6, <1>7 DEF TearDown, TeardownBound
<1>8. CASE DropAP
  BY <1>6, <1>8 DEF DropAP, TeardownBound
<1>9. QED
  BY <1>1, <1>2, <1>3, <1>4, <1>5, <1>7, <1>8 DEF AP

LEMMA GapRest ==
  TypeOK /\ GapInv /\ (Wait \/ Heartbeat \/ CleanupOnCancel \/ Restart \/ Surroundings)
    => GapInv'
<1> SUFFICES ASSUME TypeOK, GapInv,
                    Wait \/ Heartbeat \/ CleanupOnCancel \/ Restart \/ Surroundings
             PROVE  GapInv'
  OBVIOUS
<1> USE DEF TypeOK, GapInv, Beaten, loop, others, around, Goto, Beat, Spend
<1>1. CASE Wait
  BY <1>1 DEF Wait, WaitOver, TakeRetry, WaitCancelled, LeaveAP, APFallbackHeartbeatInterval
<1>2. CASE Heartbeat
  BY <1>2 DEF Heartbeat
<1>3. CASE CleanupOnCancel
  BY <1>3 DEF CleanupOnCancel
<1>4. CASE Restart
  BY <1>4 DEF Restart
<1>5. CASE DaemonDies \/ NetworkMoves \/ ConfigMoves \/ RetryNow \/ NoteProvisioning
  BY <1>5 DEF DaemonDies, NetworkMoves, ConfigMoves, RetryNow, NoteProvisioning, Stirs
<1>6. CASE Shutdown
  BY <1>6 DEF Shutdown, Stirs
<1>7. CASE ProvisioningAges \/ GraceEnds \/ Settle
  BY <1>7 DEF ProvisioningAges, GraceEnds, Settle
<1>8. QED
  BY <1>1, <1>2, <1>3, <1>4, <1>5, <1>6, <1>7 DEF Surroundings

\* Boot and AP fallback never go longer than 130 s without a Beat
\* (cmd/trainboard/connectivity.go, managerBeatDeadline).
THEOREM BeatsAreInTime == Spec => []BeatsInTime
<1>1. TypeOK /\ GapInv /\ [Next]_vars => GapInv'
  <2>1. GapInv /\ UNCHANGED vars => GapInv'
    BY DEF GapInv, Beaten, vars, loop, around, others
  <2>2. QED
    BY <2>1, GapSTA, GapAP, GapRest DEF Next, Run
<1>2. TypeOK /\ GapInv => BeatsInTime
  BY DEF TypeOK, Where, GapInv, Beaten, BeatsInTime, ManagerBeatDeadline
<1>3. QED
  BY <1>1, <1>2, GapInit, TypeCorrect, PTL DEF Spec
=============================================================================

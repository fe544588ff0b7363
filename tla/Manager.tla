------------------------------- MODULE Manager -------------------------------
(***************************************************************************)
(* The connectivity manager (internal/net/manager.go): boot, online watch  *)
(* and AP fallback over one radio that is either a client or an access     *)
(* point. Every call of a collaborator is a step; daemons die, commands    *)
(* fail, the network and the configuration change, the operator acts and   *)
(* the process is told to stop between any two of them.                    *)
(***************************************************************************)
EXTENDS Mode2Driver, Integers

CONSTANT Hazards   \* what the environment may do (see HazardKind)

(***************************************************************************)
(* CommandFails  a command other than pkill fails or times out             *)
(* DaemonDies    wpa_supplicant or dnsmasq dies by itself                  *)
(* NetworkMoves  the configured network appears, degrades or disappears    *)
(* ConfigMoves   WiFi credentials are saved, good ones or ones that         *)
(*               renderConf refuses, or become unreadable                  *)
(* Shutdown      the process is told to stop                               *)
(* Operator      retry-now requests and portal activity                    *)
(***************************************************************************)
HazardKind == {"CommandFails", "DaemonDies", "NetworkMoves", "ConfigMoves",
               "Shutdown", "Operator"}

ASSUME HazardAssumption == Hazards \subseteq HazardKind

VARIABLES
  pc,         \* where Run is, see Where
  phase,      \* managerPhase
  attempt,    \* which of toAP's two attempts
  restore,    \* which of runAPWait's two restores
  status,     \* the published Status
  staErr,     \* the error of the last toSTA
  renders,    \* renderConf accepts d.sta, the credentials the driver retains
  world,      \* the radio and its daemons
  network,    \* what surrounds the device
  wifi,       \* the credentials in config.json
  cancelled,  \* the context of Run is cancelled
  retry,      \* a token is in the retry channel
  recent,     \* portal activity within provisioningSuppressWindow
  grace,      \* the boot grace window is open
  gap,        \* time since the last Beat, every call taking its whole bound
  died,       \* history: a daemon has died since the AP was last found active
  settled     \* from now on nothing external disturbs the device

loop   == <<pc, phase, attempt, restore, staErr, renders, gap>>
others == <<network, wifi, retry, recent, grace, settled>>
around == <<others, cancelled>>
vars   == <<loop, status, world, around, died>>

Where == {"top", "recheck", "wait", "record", "drop", "sta", "attempt", "evaluate",
          "staFailed", "pause", "startAP", "startDnsmasq", "active", "alive",
          "apFailed", "teardown", "cleanup", "stopped", "failed"}

Phase == {"boot", "online", "ap"}

Error == Stage \cup {"none", "noWifi", "radio", "attempt"}

Status ==
  [ state : {"boot", "connecting", "online", "ap", "retry"}, stage : Stage,
    hotspot : BOOLEAN, lastSTAErr : Error, radioBlocked : BOOLEAN ]

Published(state) == [state |-> state, stage |-> "ok", hotspot |-> FALSE,
                     lastSTAErr |-> "none", radioBlocked |-> FALSE]

May(hazard) == hazard \in Hazards /\ ~settled

\* A command fails by itself; under a cancelled context every one does.
MayFail == May("CommandFails") \/ cancelled

(***************************************************************************)
(* A driver call that begins with writeConf. It fails before its first     *)
(* command under a cancelled context, and every time while the retained    *)
(* credentials cannot be rendered; else after any of its commands but the  *)
(* last, by a failure or by the cancellation itself.                       *)
(***************************************************************************)
Works(trace) ==
  ~cancelled /\ renders /\ world' = Last(trace) /\ UNCHANGED cancelled

Breaks(trace) ==
  \/ (cancelled \/ ~renders) /\ UNCHANGED <<world, cancelled>>
  \/ /\ ~cancelled /\ renders /\ world' \in Interrupted(trace)
     /\ \/ May("CommandFails") /\ UNCHANGED cancelled
        \/ May("Shutdown") /\ cancelled' = TRUE

\* What the layered check may answer now.
Seen == IF cancelled THEN Stage \ {"ok"}
        ELSE Evaluate(world, network) \cup (IF MayFail THEN Stage \ {"ok"} ELSE {})

-----------------------------------------------------------------------------
(***************************************************************************)
(* Time, in units of 5 s: the bound of each call, from the code and from   *)
(* the arithmetic above managerBeatDeadline in cmd/trainboard.             *)
(***************************************************************************)
OnlineRecheckInterval       == 6
APFallbackHeartbeatInterval == 6
STAAttemptBound             == 9
BootSTARetryPause           == 1
PrereqsBound                == 1
StartAPBound                == 3   \* one StartAP, start and verify cycle
TeardownBound               == 2   \* StopAP and Dnsmasq.Stop
ManagerBeatDeadline         == 30

Beat == gap' = 0
Spend(time) == gap' = gap + time

-----------------------------------------------------------------------------
Init ==
  /\ pc = "top" /\ phase = "boot" /\ attempt = 1 /\ restore = 1
  /\ status = Published("boot") /\ staErr = "none"
  /\ world = ColdWorld({})
  /\ network \in Network /\ wifi \in Credentials /\ renders = TRUE
  /\ cancelled = FALSE /\ retry = FALSE /\ recent = FALSE
  /\ grace = TRUE /\ gap = 0 /\ died = FALSE /\ settled = FALSE

(***************************************************************************)
(* The boot and the loop.                                                  *)
(***************************************************************************)
Goto(next) == pc' = next /\ UNCHANGED <<phase, attempt, restore>>

\* A cancelled context ends Run; else a Beat, and the wait or the first
\* attempt of the phase.
LoopTop ==
  /\ pc = "top"
  /\ \/ cancelled /\ Goto("cleanup") /\ UNCHANGED gap
     \/ /\ ~cancelled /\ Beat
        /\ Goto(CASE phase = "boot" -> "sta" [] phase = "online" -> "recheck"
                  [] phase = "ap" -> "wait")
  /\ UNCHANGED <<staErr, renders, status, world, around, died>>

\* runOnlineWait: the recheck interval, then the layered check, with no
\* driver call.
Recheck ==
  /\ pc = "recheck"
  /\ \/ cancelled /\ Goto("cleanup") /\ UNCHANGED gap
     \/ /\ Spend(OnlineRecheckInterval + STAAttemptBound)
        /\ \E stage \in Seen : Goto(IF stage = "ok" THEN "top" ELSE "sta")
  /\ UNCHANGED <<staErr, renders, status, world, around, died>>

-----------------------------------------------------------------------------
(***************************************************************************)
(* toSTA.                                                                  *)
(***************************************************************************)
STAFails(error) == staErr' = error /\ Goto("staFailed")

\* Read the configuration; without an SSID touch nothing, publish nothing.
\* Else the radio prerequisites, whose failure is published; then AttemptSTA
\* is called with what was read, and stores it before anything else.
ToSTA ==
  /\ pc = "sta"
  /\ \/ /\ wifi = "none"
        /\ STAFails("noWifi")
        /\ UNCHANGED <<renders, gap, status>>
     \/ /\ wifi # "none" /\ ~cancelled
        /\ Goto("attempt") /\ Spend(PrereqsBound)
        /\ renders' = Renders(wifi)
        /\ UNCHANGED <<staErr, status>>
     \/ /\ wifi # "none" /\ MayFail
        /\ STAFails("radio") /\ Spend(PrereqsBound) /\ UNCHANGED renders
        /\ status' = [Published("connecting") EXCEPT !.lastSTAErr = "radio",
                                                     !.radioBlocked = TRUE]
  /\ UNCHANGED <<world, around, died>>

\* The commands of Driver.AttemptSTA. Its bound is that of the whole attempt,
\* the check included. Out of reach of the network it fails to associate.
CallAttemptSTA ==
  /\ pc = "attempt"
  /\ \/ /\ network # "away" /\ Works(AttemptSTA(world))
        /\ Goto("evaluate")
        /\ UNCHANGED <<staErr, gap, status>>
     \/ /\ \/ Breaks(AttemptSTA(world))
           \/ network = "away" /\ Works(Front(AttemptSTA(world)))
        /\ STAFails("attempt") /\ Spend(STAAttemptBound)
        /\ status' = [Published("connecting") EXCEPT !.lastSTAErr = "attempt"]
  /\ UNCHANGED <<renders, others, died>>

\* The layered check decides between Online and the failing stage.
CallEvaluate ==
  /\ pc = "evaluate"
  /\ Spend(STAAttemptBound)
  /\ \E stage \in Seen :
       \/ /\ stage = "ok"
          /\ status' = Published("online")
          /\ pc' = "top" /\ phase' = "online"
          /\ UNCHANGED <<attempt, restore, staErr>>
       \/ /\ stage # "ok"
          /\ status' = [Published("connecting") EXCEPT !.stage = stage,
                                                       !.lastSTAErr = stage]
          /\ STAFails(stage)
  /\ UNCHANGED <<renders, world, around, died>>

\* At boot the attempt is repeated while the grace window is open, except
\* without configuration or after cancellation. Any other failure is
\* answered by toAP.
STAFailed ==
  /\ pc = "staFailed"
  /\ IF phase = "boot" /\ staErr # "noWifi" /\ ~cancelled /\ grace
     THEN Beat /\ Goto("pause")
     ELSE /\ pc' = "startAP" /\ attempt' = 1 /\ restore' = 1
          /\ UNCHANGED <<phase, gap>>
  /\ UNCHANGED <<staErr, renders, status, world, around, died>>

Pause ==
  /\ pc = "pause"
  /\ IF cancelled
     THEN pc' = "startAP" /\ attempt' = 1 /\ restore' = 1 /\ UNCHANGED <<phase, gap>>
     ELSE Goto("sta") /\ Spend(BootSTARetryPause)
  /\ UNCHANGED <<staErr, renders, status, world, around, died>>

-----------------------------------------------------------------------------
(***************************************************************************)
(* toAP: start, serve, verify both, and only then publish.                 *)
(***************************************************************************)
CallStartAP ==
  /\ pc = "startAP"
  /\ Spend(StartAPBound)
  /\ \/ Works(StartAP(world)) /\ Goto("startDnsmasq")
     \/ Breaks(StartAP(world)) /\ Goto("apFailed")
  /\ UNCHANGED <<staErr, renders, status, others, died>>

\* A second dnsmasq cannot bind the interface.
StartDnsmasq ==
  /\ pc = "startDnsmasq"
  /\ \/ ~cancelled /\ ~world.dnsmasq /\ world' = DnsmasqStarted(world) /\ Goto("active")
     \/ (world.dnsmasq \/ MayFail) /\ UNCHANGED world /\ Goto("apFailed")
  /\ UNCHANGED <<staErr, renders, gap, status, around, died>>

VerifyActive ==
  /\ pc = "active"
  /\ \/ ~cancelled /\ APActive(world) /\ Goto("alive") /\ died' = FALSE
     \/ (~APActive(world) \/ MayFail) /\ Goto("apFailed") /\ UNCHANGED died
  /\ UNCHANGED <<staErr, renders, gap, status, world, around>>

\* APFallback is published. In runAPWait the error of the failed attempt is
\* added to it afterwards.
VerifyAlive ==
  /\ pc = "alive"
  /\ \/ /\ Alive(world) /\ ~cancelled
        /\ status' = [Published("ap") EXCEPT !.hotspot = TRUE]
        /\ pc' = IF phase = "ap" THEN "record" ELSE "top"
        /\ phase' = "ap"
        /\ UNCHANGED <<attempt, restore>>
     \/ /\ ~Alive(world) \/ MayFail
        /\ Goto("apFailed")
        /\ UNCHANGED status
  /\ UNCHANGED <<staErr, renders, gap, world, around, died>>

RecordError ==
  /\ pc = "record"
  /\ status' = [status EXCEPT !.lastSTAErr = staErr]
  /\ Goto("top")
  /\ UNCHANGED <<staErr, renders, gap, world, around, died>>

\* Mutant: dnsmasq is left running.
TornDownServing ==
  world' = Last(StopAP(world)) /\ UNCHANGED cancelled

\* StopAP and Dnsmasq.Stop, whose errors are ignored. pkill does not fail,
\* but under a cancelled context it is not even started.
TornDown ==
  \/ cancelled /\ UNCHANGED <<world, cancelled>>
  \/ /\ ~cancelled /\ UNCHANGED cancelled
     /\ \E w \in {Last(StopAP(world))} \cup
                (IF May("CommandFails") THEN Interrupted(StopAP(world)) ELSE {}) :
          world' = DnsmasqStopped(w)
  \/ /\ ~cancelled /\ May("Shutdown") /\ cancelled' = TRUE
     /\ \E w \in Interrupted(StopAP(world)) : world' \in {w, DnsmasqStopped(w)}

TearDown ==
  /\ pc = "teardown"
  /\ TornDown
  /\ Spend(TeardownBound)
  /\ Goto("startAP")
  /\ UNCHANGED <<staErr, renders, status, others, died>>

\* Mutant: no Beat before the second restore.
APFailedUnbeaten ==
  /\ pc = "apFailed"
  /\ \/ /\ attempt = 1
        /\ pc' = "teardown" /\ attempt' = 2 /\ UNCHANGED restore
     \/ /\ attempt = 2 /\ cancelled
        /\ pc' = "cleanup" /\ UNCHANGED <<attempt, restore>>
     \/ /\ attempt = 2 /\ ~cancelled /\ phase = "ap" /\ restore = 1
        /\ pc' = "teardown" /\ attempt' = 1 /\ restore' = 2
     \/ /\ attempt = 2 /\ ~cancelled /\ (phase # "ap" \/ restore = 2)
        /\ pc' = "failed" /\ UNCHANGED <<attempt, restore>>
  /\ UNCHANGED <<phase, gap, staErr, renders, status, world, around, died>>

\* The first failure is answered by a teardown and a second attempt. The
\* second is a clean shutdown under a cancelled context; in runAPWait it is
\* answered, after a Beat, by a teardown and another toAP, once; else Run
\* returns an error and nothing beats any more.
APFailed ==
  /\ pc = "apFailed"
  /\ \/ /\ attempt = 1
        /\ pc' = "teardown" /\ attempt' = 2 /\ UNCHANGED <<restore, gap>>
     \/ /\ attempt = 2 /\ cancelled
        /\ pc' = "cleanup" /\ UNCHANGED <<attempt, restore, gap>>
     \/ /\ attempt = 2 /\ ~cancelled /\ phase = "ap" /\ restore = 1
        /\ pc' = "teardown" /\ attempt' = 1 /\ restore' = 2 /\ Beat
     \/ /\ attempt = 2 /\ ~cancelled /\ (phase # "ap" \/ restore = 2)
        /\ pc' = "failed" /\ UNCHANGED <<attempt, restore, gap>>
  /\ UNCHANGED <<phase, staErr, renders, status, world, around, died>>

-----------------------------------------------------------------------------
(***************************************************************************)
(* runAPWait: parked on the published AP.                                  *)
(***************************************************************************)
\* Mutant: the AP is torn down while it is still published.
LeaveAPShown == Goto("drop") /\ UNCHANGED status

LeaveAP ==
  /\ status' = Published("retry")
  /\ Goto("drop")

Heartbeat ==
  /\ pc = "wait"
  /\ Beat
  /\ Goto("wait")
  /\ UNCHANGED <<staErr, renders, status, world, around, died>>

\* The five minutes are over: retry, unless the portal was active lately.
WaitOver ==
  /\ pc = "wait"
  /\ Spend(APFallbackHeartbeatInterval)
  /\ \/ recent /\ Goto("top") /\ UNCHANGED status
     \/ ~recent /\ LeaveAP
  /\ UNCHANGED <<staErr, renders, world, around, died>>

\* A token in the retry channel is honoured at once, whatever the portal does.
TakeRetry ==
  /\ pc = "wait" /\ retry
  /\ Spend(APFallbackHeartbeatInterval)
  /\ LeaveAP
  /\ retry' = FALSE
  /\ UNCHANGED <<staErr, renders, world, network, wifi, cancelled, recent, grace,
                 settled, died>>

WaitCancelled ==
  /\ pc = "wait" /\ cancelled
  /\ Goto("cleanup")
  /\ UNCHANGED <<staErr, renders, gap, status, world, around, died>>

DropAP ==
  /\ pc = "drop"
  /\ TornDown
  /\ Spend(TeardownBound)
  /\ Goto("sta")
  /\ UNCHANGED <<staErr, renders, status, others, died>>

-----------------------------------------------------------------------------
(***************************************************************************)
(* The end of Run and of its process.                                      *)
(***************************************************************************)
CleanedUnkilled ==   \* mutant: the renewing daemon is left alone
  IF status.state = "ap" THEN {DnsmasqStopped(Last(StopAP(world)))} ELSE {world}

\* The renewing daemon is killed; the AP is torn down if it is published.
\* These commands do not run under the cancelled context.
Cleaned ==
  LET killed == KillDHClient(world)
  IN IF status.state # "ap" THEN {killed}
     ELSE { DnsmasqStopped(w) : w \in
              {Last(StopAP(killed))} \cup
              (IF May("CommandFails") THEN Interrupted(StopAP(killed)) ELSE {}) }

CleanupOnCancel ==
  /\ pc = "cleanup"
  /\ world' \in Cleaned
  /\ Goto("stopped")
  /\ UNCHANGED <<staErr, renders, gap, status, around, died>>

\* A new process: after a clean stop, or when the missing Beats have made
\* the watchdog withhold its pets. systemd kills the whole control group,
\* the daemons included.
Restart ==
  /\ pc \in {"stopped", "failed"}
  /\ pc' = "top" /\ phase' = "boot" /\ attempt' = 1 /\ restore' = 1
  /\ status' = Published("boot") /\ staErr' = "none" /\ renders' = TRUE
  /\ world' = ColdWorld(world.addrs)
  /\ cancelled' = FALSE /\ retry' = FALSE /\ recent' = FALSE
  /\ grace' = TRUE /\ gap' = 0 /\ died' = FALSE
  /\ UNCHANGED <<network, wifi, settled>>

-----------------------------------------------------------------------------
(***************************************************************************)
(* The surroundings.                                                       *)
(***************************************************************************)
Stirs(hazard) == May(hazard) /\ UNCHANGED <<loop, status, settled>>

DaemonDies ==
  /\ Stirs("DaemonDies")
  /\ \/ world.wpa # "down" /\ world' = [world EXCEPT !.wpa = "down"]
     \/ world.dnsmasq /\ world' = DnsmasqStopped(world)
  /\ died' = TRUE
  /\ UNCHANGED <<network, wifi, cancelled, retry, recent, grace>>

NetworkMoves ==
  /\ Stirs("NetworkMoves")
  /\ network' \in Network \ {network}
  /\ UNCHANGED <<world, wifi, cancelled, retry, recent, grace, died>>

ConfigMoves ==
  /\ Stirs("ConfigMoves")
  /\ wifi' \in Credentials \ {wifi}
  /\ UNCHANGED <<world, network, cancelled, retry, recent, grace, died>>

Shutdown ==
  /\ Stirs("Shutdown")
  /\ ~cancelled /\ cancelled' = TRUE
  /\ UNCHANGED <<world, network, wifi, retry, recent, grace, died>>

\* RetryNow never blocks: a token already in the channel is enough.
RetryNow ==
  /\ Stirs("Operator")
  /\ ~retry /\ retry' = TRUE
  /\ UNCHANGED <<world, network, wifi, cancelled, recent, grace, died>>

NoteProvisioning ==
  /\ Stirs("Operator")
  /\ ~recent /\ recent' = TRUE
  /\ UNCHANGED <<world, network, wifi, cancelled, retry, grace, died>>

\* Mutant: portal activity suppresses retries for ever.
ProvisioningLasts == recent /\ UNCHANGED vars

\* Time passes: the suppression window, the boot grace window.
ProvisioningAges ==
  /\ recent /\ recent' = FALSE
  /\ UNCHANGED <<loop, status, world, network, wifi, cancelled, retry,
                 grace, died, settled>>

GraceEnds ==
  /\ phase = "boot" /\ grace /\ grace' = FALSE
  /\ UNCHANGED <<loop, status, world, network, wifi, cancelled, retry,
                 recent, died, settled>>

Settle ==
  /\ ~settled /\ settled' = TRUE
  /\ UNCHANGED <<loop, status, world, network, wifi, cancelled, retry,
                 recent, grace, died>>

-----------------------------------------------------------------------------
STA  == ToSTA \/ CallAttemptSTA \/ CallEvaluate \/ STAFailed \/ Pause
AP   == CallStartAP \/ StartDnsmasq \/ VerifyActive \/ VerifyAlive \/ RecordError
        \/ APFailed \/ TearDown
Wait == WaitOver \/ TakeRetry \/ WaitCancelled
Run  == LoopTop \/ Recheck \/ STA \/ AP \/ Wait \/ DropAP \/ CleanupOnCancel

Surroundings ==
  \/ DaemonDies \/ NetworkMoves \/ ConfigMoves \/ Shutdown \/ RetryNow
  \/ NoteProvisioning \/ ProvisioningAges \/ GraceEnds \/ Settle

Next == Run \/ Heartbeat \/ Restart \/ Surroundings

\* The goroutine of Run is scheduled and every wait ends; the clock moves;
\* systemd restarts; and at some time the disturbances end.
Fairness ==
  /\ WF_vars(Run)
  /\ WF_vars(Restart)
  /\ WF_vars(ProvisioningAges)
  /\ WF_vars(GraceEnds)
  /\ WF_vars(Settle)

Spec == Init /\ [][Next]_vars
FairSpec == Spec /\ Fairness
-----------------------------------------------------------------------------
(***************************************************************************)
(* Properties.                                                             *)
(***************************************************************************)
TypeOK ==
  /\ pc \in Where /\ phase \in Phase /\ attempt \in 1 .. 2 /\ restore \in 1 .. 2
  /\ status \in Status /\ staErr \in Error
  /\ world \in World /\ network \in Network
  /\ wifi \in Credentials /\ renders \in BOOLEAN /\ cancelled \in BOOLEAN
  /\ retry \in BOOLEAN /\ recent \in BOOLEAN /\ grace \in BOOLEAN
  /\ gap \in Nat /\ died \in BOOLEAN /\ settled \in BOOLEAN

\* ADR 0003, "AP-restore is a hard invariant": while the hotspot is on the
\* screen there is one: beaconing, served by dnsmasq, holding the address
\* that is shown and no lease that a daemon would renew, whatever command
\* has failed before and whatever has died before toAP's verification. A
\* daemon that dies after it is another matter.
FallbackIsReal ==
  status.hotspot /\ pc # "stopped" /\ ~died =>
    world = [wpa |-> "ap", dnsmasq |-> TRUE, dhclient |-> FALSE, addrs |-> {"ap"}]

\* No lease is renewed behind the AP's back, even after a daemon has died;
\* and issue #46 (c): nor after a clean shutdown, wherever in the loop it
\* arrives.
NoStrayRenewer == status.state = "ap" \/ pc = "stopped" => ~world.dhclient

\* The device joins the client's network without its own DHCP and captive
\* DNS server still answering on that interface.
OnlineWithoutServing ==
  [][status.state # "online" /\ status'.state = "online" => ~world'.dnsmasq]_vars

\* The whole fallback, daemon by daemon, is the hotspot that Fallback
\* promises: complete when it is shown, taken back before it is torn down,
\* and gone before the device joins a network or its process ends.
Shown == IF pc = "stopped" THEN "off" ELSE status.state

Up ==
  (IF world.wpa = "ap" THEN {"beacon"} ELSE {}) \cup
  (IF world.dnsmasq THEN {"server"} ELSE {}) \cup
  (IF world.addrs = {"ap"} THEN {"address"} ELSE {}) \cup
  (IF world.dhclient THEN {"renewer"} ELSE {})

F == INSTANCE Fallback WITH mode <- Shown, parts <- Up, lost <- died

KeepsPromise == F!Spec

\* The arithmetic above managerBeatDeadline: boot and AP fallback never go
\* longer than 130 s without a Beat, 20 s less than the deadline.
BeatsInTime == phase # "online" /\ pc # "top" /\ ~cancelled => gap + 4 <= ManagerBeatDeadline

\* Once nothing external disturbs the device, with the configured network
\* complete, it ends up online and stays, whatever it was doing.
Recovers ==
  (settled /\ wifi = "plain" /\ network = "internet") ~> [](status.state = "online")

HotspotUp == status.state = "ap" /\ world.wpa = "ap" /\ world.dnsmasq

\* Somebody can get at the device.
Reachable == status.state = "online" \/ HotspotUp

\* Once nothing external disturbs the device, it is never out of reach for
\* good: again and again it is online or shows a hotspot that works, whatever
\* the driver had retained from before. The credentials that are stored must
\* be ones that renderConf accepts: with others the first attempt leaves them
\* with the driver, every StartAP writes the same file and fails, and a
\* restart begins with the same attempt.
NeverStranded == (settled /\ wifi # "quoted") ~> []<>Reachable
=============================================================================

----------------------------- MODULE Mode2Driver -----------------------------
(***************************************************************************)
(* The single radio as the connectivity manager's collaborators drive it:  *)
(* the mode2 driver (internal/net/driver_mode2.go over driver.go), dnsmasq *)
(* (internal/net/dnsmasq.go) and the layered check (internal/net/check.go).*)
(*                                                                         *)
(* A driver call is a list of commands. Its trace is the sequence of       *)
(* worlds those commands pass through: a call that succeeds ends in the    *)
(* last one, a call that fails stops in an earlier one. Before the first   *)
(* command writeConf renders the credentials that the driver retains.      *)
(***************************************************************************)
EXTENDS Sequences, SequencesExt

\* wpa       wpa_supplicant: not running, no network selected, or the one
\*           selected (a selected AP is beaconing)
\* dnsmasq   the DHCP and captive DNS server of the AP is running
\* dhclient  the daemon that renews the client network's lease is running
\* addrs     which addresses wlan0 holds: the lease, the AP's static one
World ==
  [ wpa : {"down", "idle", "sta", "ap"}, dnsmasq : BOOLEAN, dhclient : BOOLEAN,
    addrs : SUBSET {"sta", "ap"} ]

\* What surrounds the device: the configured network is out of reach, or
\* it leases addresses without reaching the internet, or it is complete.
Network == {"away", "lan", "internet"}

\* The WiFi credentials that are stored: none, ones that wpa_supplicant's
\* configuration can hold, or ones with a quote in the SSID or the key, which
\* config/validate.go accepts and renderConf refuses.
Credentials == {"none", "plain", "quoted"}

Renders(credentials) == credentials # "quoted"

\* After a boot, and after systemd has killed the control group.
ColdWorld(addrs) == [wpa |-> "down", dnsmasq |-> FALSE, dhclient |-> FALSE,
                     addrs |-> addrs]

(***************************************************************************)
(* ensureDaemon: spawn wpa_supplicant if it does not answer, else make it  *)
(* reload the file. Both networks of the file are disabled, so neither is  *)
(* selected afterwards.                                                    *)
(***************************************************************************)
EnsureDaemon(w) == [w EXCEPT !.wpa = "idle"]

KillDHClient(w) == [w EXCEPT !.dhclient = FALSE]

\* Reload, select network 1, kill the renewing daemon, flush, assign.
StartAP(w) ==
  LET ready    == EnsureDaemon(w)
      selected == [ready EXCEPT !.wpa = "ap"]
      killed   == KillDHClient(selected)
      flushed  == [killed EXCEPT !.addrs = {}]
  IN <<w, ready, selected, killed, flushed, [flushed EXCEPT !.addrs = {"ap"}]>>

\* Disable network 1, then flush; without a daemon the first command fails.
StopAP(w) ==
  LET disabled == [w EXCEPT !.wpa = IF @ = "ap" THEN "idle" ELSE @]
  IN IF w.wpa = "down" THEN <<w>>
     ELSE <<w, disabled, [disabled EXCEPT !.addrs = {}]>>

\* Kill the renewing daemon (kill before start), reload again, select
\* network 0, associate, and lease an address.
StaAttempt(w) ==
  LET killed   == KillDHClient(w)
      selected == [killed EXCEPT !.wpa = "sta"]
  IN <<killed, selected, [selected EXCEPT !.dhclient = TRUE, !.addrs = @ \cup {"sta"}]>>

AttemptSTA(w) == <<w, EnsureDaemon(w)>> \o StaAttempt(EnsureDaemon(w))

\* Every world a failing call may leave behind.
Interrupted(trace) == ToSet(Front(trace))

DnsmasqStarted(w) == [w EXCEPT !.dnsmasq = TRUE]
DnsmasqStopped(w) == [w EXCEPT !.dnsmasq = FALSE]

APActiveAssumed(w) == TRUE   \* mutant: a start without an error is believed
APActive(w) == w.wpa = "ap"

Alive(w) == w.dnsmasq

(***************************************************************************)
(* Check.Evaluate: the first layer that fails, or "ok". The association    *)
(* layer looks at wpa_state alone, which an AP of our own satisfies, and   *)
(* the DHCP layer at the presence of any address.                          *)
(***************************************************************************)
Associated(w, n) == w.wpa = "ap" \/ (w.wpa = "sta" /\ n # "away")
Routed(w, n) == w.wpa = "sta" /\ n = "internet" /\ "sta" \in w.addrs

Stage == {"ok", "assoc", "dhcp", "dns", "captive"}

Evaluate(w, n) ==
  IF ~Associated(w, n) THEN {"assoc"}
  ELSE IF w.addrs = {} THEN {"dhcp"}
  ELSE IF ~Routed(w, n) THEN {"dns", "captive"}
  ELSE {"ok"}
=============================================================================

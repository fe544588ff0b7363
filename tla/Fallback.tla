------------------------------- MODULE Fallback -------------------------------
(***************************************************************************)
(* What the AP fallback promises, whatever calls it is made of: a hotspot  *)
(* is shown only when every part of it is up, what is shown is taken back  *)
(* before it is dismantled, and nothing is left of it for the client that  *)
(* joins a network or for whoever comes after the end.                     *)
(***************************************************************************)

VARIABLES
  mode,   \* what the device shows: "boot", "connecting", "online", "ap", "retry", "off"
  parts,  \* which parts there are, shown or not
  lost    \* a part has vanished by itself since the beacon was last verified

\* The address is up when wlan0 holds the hotspot's and no other; the renewer
\* would replace it by that of a client.
Part == {"beacon", "server", "address", "renewer"}

Hotspot == Part \ {"renewer"}

Init == mode = "boot" /\ parts = {} /\ lost = FALSE

Hidden == mode \notin {"ap", "off"}

Move(m) == Hidden /\ mode' = m /\ UNCHANGED lost

\* Build or dismantle, while nothing is shown.
Work == Move(mode) /\ parts' \in SUBSET Part

\* The beacon is looked at, and it is there.
Verify == Hidden /\ "beacon" \in parts /\ lost' = FALSE /\ UNCHANGED <<mode, parts>>

\* An attempt to become a client fails, wherever it stops.
Connect == Move("connecting") /\ parts' \in SUBSET Part

Join == Move("online") /\ "server" \notin parts /\ UNCHANGED parts

Show ==
  /\ Move("ap") /\ UNCHANGED parts
  /\ parts = Hotspot \/ (lost /\ parts \cup {"beacon"} = Hotspot)

Leave == mode = "ap" /\ mode' = "retry" /\ UNCHANGED <<parts, lost>>

Vanish ==
  /\ \E p \in {"beacon", "server"} : parts' = parts \ {p}
  /\ lost' = TRUE /\ UNCHANGED mode

End ==
  /\ mode # "off" /\ mode' = "off"
  /\ parts' \in SUBSET (parts \ {"renewer"})
  /\ mode = "ap" => "server" \notin parts'
  /\ UNCHANGED lost

\* A new process finds no daemon of the old one, only its address.
Restart ==
  /\ mode # "ap" /\ mode' = "boot"
  /\ parts' = parts \cap {"address"} /\ lost' = FALSE

Next == Work \/ Verify \/ Connect \/ Join \/ Show \/ Leave \/ Vanish \/ End \/ Restart

Spec == Init /\ [][Next]_<<mode, parts, lost>>
=============================================================================

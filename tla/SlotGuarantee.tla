---------------------------- MODULE SlotGuarantee ----------------------------
(***************************************************************************)
(* What A/B slots promise, whatever the mechanism: one slot is good, its   *)
(* binary has proved itself, and only the other slot is ever overwritten.  *)
(***************************************************************************)
CONSTANTS Slots, Binaries

VARIABLES
  good,     \* the slot the device can always return to
  content,  \* content[s]: the binary in slot s
  proven    \* the binaries that have proved themselves

Init ==
  /\ good \in Slots
  /\ content \in [Slots -> Binaries]
  /\ proven \subseteq Binaries
  /\ content[good] \in proven

\* Overwrite a slot that is not the good one.
Install(s, b) ==
  /\ s # good
  /\ content' = [content EXCEPT ![s] = b]
  /\ UNCHANGED <<good, proven>>

Prove(b) ==
  /\ proven' = proven \cup {b}
  /\ UNCHANGED <<good, content>>

\* Trust another slot, whose binary has proved itself.
Trust(s) ==
  /\ content[s] \in proven
  /\ good' = s
  /\ UNCHANGED <<content, proven>>

Next ==
  \/ \E s \in Slots, b \in Binaries : Install(s, b)
  \/ \E b \in Binaries : Prove(b)
  \/ \E s \in Slots : Trust(s)

Spec == Init /\ [][Next]_<<good, content, proven>>
=============================================================================

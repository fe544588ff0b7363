-------------------------------- MODULE Display --------------------------------
(***************************************************************************)
(* What panel and web preview promise: to look like a device that keeps    *)
(* nothing. It has no cache, does not know what it has drawn or how bright *)
(* it was before, and makes every frame and every view anew of what its    *)
(* own call has read.                                                      *)
(***************************************************************************)
CONSTANTS Publishes, Status, FullLevel, DarkLevel, BootLevel, None

VARIABLES
  base,      \* what the poller has published
  status,    \* what the manager has published
  soak,      \* a soak is on
  dark,      \* the time is inside the power-saving window
  at,        \* per caller: the next reading of its call
  asked,     \* per caller: its readings so far
  scene,     \* the scene on the panel
  contrast,  \* the contrast of the panel
  view       \* the web's board view

inputs == <<base, status, soak, dark>>
calls  == <<at, asked>>
shown  == <<scene, contrast, view>>

Nothing == [state |-> "initialising", fault |-> None]
Quiet   == [hotspot |-> None, stage |-> None, radio |-> FALSE]

(***************************************************************************)
(* The setup network takes the whole screen. A connectivity fault replaces *)
(* the board only while it says that the feed is unreachable.              *)
(***************************************************************************)
Scene(r) ==
  LET plain(kind) == [kind |-> kind, fault |-> None, detail |-> None]
      error(fault, detail) == [kind |-> "error", fault |-> fault, detail |-> detail]
      unreached == r.base.fault = "E01"
  IN IF r.status.hotspot # None THEN plain("hotspot")
     ELSE IF unreached /\ r.status.radio THEN error("E05", None)
     ELSE IF unreached /\ r.status.stage # None THEN error("E06", r.status.stage)
     ELSE IF r.base.state = "error" THEN error(r.base.fault, None)
     ELSE plain(r.base.state)

View(r) == [state |-> Scene(r).kind, detail |-> Scene(r).detail]

Level == IF dark THEN DarkLevel ELSE FullLevel

Resting == [c \in {"render", "web"} |-> "idle"]
Blank   == [base |-> Nothing, status |-> Quiet]

Start ==
  /\ base = Nothing /\ status = Quiet /\ soak = FALSE
  /\ at = Resting /\ asked = [c \in {"render", "web"} |-> Blank]
  /\ scene = None /\ contrast = BootLevel /\ view = None

Init == Start /\ dark = FALSE

Goto(c, next) == at' = [at EXCEPT ![c] = next]

Reads(c, b, s) == asked' = [asked EXCEPT ![c] = [base |-> b, status |-> s]]

Begin(c) ==
  /\ at[c] = "idle" /\ (c = "render" => ~soak)
  /\ Reads(c, base, Quiet) /\ Goto(c, "hotspot")
  /\ view' = IF c = "web" THEN None ELSE view
  /\ UNCHANGED <<inputs, scene, contrast>>

ReadHotspot(c) ==
  /\ at[c] = "hotspot"
  /\ Reads(c, asked[c].base, [Quiet EXCEPT !.hotspot = status.hotspot])
  /\ Goto(c, IF status.hotspot # None THEN "compose" ELSE "conn")
  /\ UNCHANGED <<inputs, shown>>

ReadConn(c) ==
  /\ at[c] = "conn"
  /\ Reads(c, asked[c].base, [status EXCEPT !.hotspot = None])
  /\ Goto(c, "compose")
  /\ UNCHANGED <<inputs, shown>>

Ends(c) == at[c] = "compose" /\ Goto(c, "idle") /\ Reads(c, Nothing, Quiet)

Preview ==
  /\ Ends("web")
  /\ view' = View(asked["web"])
  /\ UNCHANGED <<inputs, scene, contrast>>

Frame ==
  /\ Ends("render")
  /\ scene' = Scene(asked["render"]) /\ contrast' = Level
  /\ UNCHANGED <<inputs, view>>

SoakFrame ==
  /\ at["render"] = "idle" /\ soak
  /\ contrast' = FullLevel
  /\ UNCHANGED <<inputs, calls, scene, view>>

Publish ==
  /\ base' \in Publishes
  /\ UNCHANGED <<status, soak, dark, calls, shown>>

Surroundings ==
  /\ status' \in Status /\ {soak', dark'} \subseteq BOOLEAN
  /\ UNCHANGED <<base, calls, shown>>

Restart == Start' /\ UNCHANGED dark

Next ==
  \/ \E c \in {"render", "web"} : Begin(c) \/ ReadHotspot(c) \/ ReadConn(c)
  \/ Preview \/ Frame \/ SoakFrame \/ Publish \/ Surroundings \/ Restart

Spec == Init /\ [][Next]_<<inputs, calls, shown>>
=============================================================================

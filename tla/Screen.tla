-------------------------------- MODULE Screen --------------------------------
(***************************************************************************)
(* What the panel and the web preview show: the decorator that overlays    *)
(* the manager's hotspot and connectivity faults on the poller's snapshot  *)
(* (internal/runtime/composite.go), read step by step by two callers, the  *)
(* render loop (loop.go) with its scene, contrast and soak override, and   *)
(* the web's board view (internal/web/handlers_board.go). The device is    *)
(* one that manages its network.                                           *)
(***************************************************************************)
EXTENDS Integers, FiniteSets

CONSTANTS
  Id,         \* tells snapshots of equal content in memory apart
  Hotspot,    \* identities of the setup access point
  Stage,      \* connectivity stages that can fail
  Publishes,  \* what the poller, or a fault loop, publishes
  DarkLevel,  \* contrast while power saving
  BootLevel,  \* contrast the display's initialisation leaves
  MaxMoves,   \* bound: how often the surroundings move
  None

FullLevel == 255   \* config.NormalBrightness, and the soak's contrast

Caller == {"render", "web"}

\* What classify.go and the two fault loops of cmd/trainboard publish.
Published ==
  [state : {"departures", "no-services"}, fault : {None}]
    \cup [state : {"clock-not-synced"}, fault : {"E03"}]
    \cup [state : {"error"}, fault : {"E01", "E02", "E04", "E07"}]

\* Eight places hold a snapshot at most, so a ninth identity is always free.
ASSUME ScreenAssumption ==
  /\ Id \subseteq Nat \ {0}
  /\ IsFiniteSet(Id) => Cardinality(Id) > 8
  /\ Publishes \subseteq Published
  /\ None \notin Hotspot /\ None \notin Stage
  /\ None \notin {"E01", "E02", "E03", "E04", "E05", "E06", "E07"}
  /\ MaxMoves \in Nat
  /\ DarkLevel \in 0 .. FullLevel /\ BootLevel \in 0 .. FullLevel

VARIABLES
  base,     \* the poller's published snapshot, Nil before the first
  status,   \* the manager's published Status, as far as it is shown
  at,       \* per caller: what its call of the decorator does next
  asked,    \* per caller: what the call has read
  apCache,  \* lastBase, lastHS and composed
  cxCache,  \* lastFaultBase, lastStage, lastRadio and composedFault
  loop,     \* the loop's last, sceneBuilt, scene, brightness, flushed, soaking
  panel,    \* the contrast set in the panel
  soak,     \* the soak's deadline is ahead
  dark,     \* the time is inside the power-saving window
  view,     \* the last board view the web has built
  seen,     \* history: what the last scene frame read
  told,     \* history: the scene the panel would make of the web's readings
  due,      \* history: the contrast wanted at the last frame
  displaced,  \* history: since the last frame the web has replaced an entry
  rebuilt,  \* history: the last frame built its scene for no reason
  moves     \* bound: of the surroundings, so far

inputs  == <<base, status, soak, dark, moves>>
caches  == <<apCache, cxCache>>
shown   == <<loop, panel, view>>
history == <<seen, told, due, displaced, rebuilt>>
vars    == <<inputs, at, asked, caches, shown, history>>

(***************************************************************************)
(* Snapshots: pointers are compared, so each carries an identity. A nil    *)
(* pointer has identity 0, and the content of the synthetic snapshot that  *)
(* stands for it while the setup network is up.                            *)
(***************************************************************************)
Snap(id, state, fault, detail, hotspot) ==
  [id |-> id, state |-> state, fault |-> fault, detail |-> detail, hotspot |-> hotspot]

Nil == Snap(0, "initialising", None, None, None)

Status == [hotspot : Hotspot, stage : {None}, radio : {FALSE}]
            \cup [hotspot : {None}, stage : Stage, radio : {FALSE}]
            \cup [hotspot : {None}, stage : {None}, radio : BOOLEAN]
Quiet == [hotspot |-> None, stage |-> None, radio |-> FALSE]

Reads == [base |-> Nil, status |-> Quiet]
NoEntry == [base |-> Nil, status |-> Quiet, made |-> Nil]

\* faultToInject
FaultToInject(b, cx) ==
  IF b = Nil \/ b.state \notin {"initialising", "error"} \/ b.fault \notin {None, "E01"}
    THEN None
  ELSE IF cx.radio THEN "E05"
  ELSE IF cx.stage # None THEN "E06"
  ELSE None

WithHotspot(b, hotspot) == Snap(0, b.state, b.fault, b.detail, hotspot)

WithFault(b, cx) ==
  Snap(0, "error", FaultToInject(b, cx), IF cx.radio THEN None ELSE cx.stage, b.hotspot)

\* BuildScene: the scene a snapshot is shown as.
SceneOf(s) ==
  IF s.hotspot # None THEN [kind |-> "hotspot", fault |-> None, detail |-> None]
  ELSE [kind   |-> s.state,
        fault  |-> IF s.state = "error" THEN s.fault ELSE None,
        detail |-> IF s.state = "error" THEN s.detail ELSE None]

\* buildBoardView: its state, and the detail it puts into words.
ViewOf(s) ==
  [state  |-> IF s.hotspot # None THEN "hotspot" ELSE s.state,
   detail |-> IF s.hotspot = None /\ s.state = "error" THEN s.detail ELSE None]

\* What a call's own readings make, whatever the caches held.
Pure(r) ==
  IF r.status.hotspot # None THEN WithHotspot(r.base, r.status.hotspot)
  ELSE IF FaultToInject(r.base, r.status) # None THEN WithFault(r.base, r.status)
  ELSE r.base

\* What is held in memory. A new snapshot is one that is not: of the free
\* identities the smallest is as good as any.
Held == {base, apCache.base, apCache.made, cxCache.base, cxCache.made, loop.last}
          \cup {asked[c].base : c \in Caller}

Same(s, i) == Snap(i, s.state, s.fault, s.detail, s.hotspot)
New(s) ==
  LET free == {i \in Id : Same(s, i) \notin Held}
  IN Same(s, CHOOSE i \in free : \A j \in free : i <= j)

-----------------------------------------------------------------------------
LoopStart == [last |-> Nil, built |-> FALSE, scene |-> None, brightness |-> -1,
              flushed |-> FALSE, soaking |-> FALSE]

Init ==
  /\ base = Nil /\ status = Quiet
  /\ at = [c \in Caller |-> "idle"] /\ asked = [c \in Caller |-> Reads]
  /\ apCache = NoEntry /\ cxCache = NoEntry
  /\ loop = LoopStart /\ panel = BootLevel /\ view = None
  /\ soak = FALSE /\ dark = FALSE
  /\ seen = None /\ told = None /\ due = BootLevel
  /\ displaced = FALSE /\ rebuilt = FALSE /\ moves = 0

\* A call of the decorator begins: a request, or a tick that is no soak frame.
CallBegins(c) ==
  /\ at[c] = "idle" /\ (c = "render" => ~soak)
  /\ asked' = [asked EXCEPT ![c] = [base |-> base, status |-> Quiet]]
  /\ at' = [at EXCEPT ![c] = "hotspot"]
  /\ IF c = "web" THEN view' = None /\ told' = None ELSE UNCHANGED <<view, told>>
  /\ UNCHANGED <<inputs, caches, loop, panel, seen, due, displaced, rebuilt>>

ReadHotspot(c) ==
  /\ at[c] = "hotspot"
  /\ asked' = [asked EXCEPT ![c] =
       [base |-> @.base, status |-> [Quiet EXCEPT !.hotspot = status.hotspot]]]
  /\ at' = [at EXCEPT ![c] = IF status.hotspot # None THEN "compose" ELSE "conn"]
  /\ UNCHANGED <<inputs, caches, shown, history>>

\* conn() asks the manager again: its status may be a later one.
ReadConn(c) ==
  /\ at[c] = "conn"
  /\ asked' = [asked EXCEPT ![c] =
       [base   |-> @.base,
        status |-> [hotspot |-> None, stage |-> status.stage, radio |-> status.radio]]]
  /\ at' = [at EXCEPT ![c] = "compose"]
  /\ UNCHANGED <<inputs, caches, shown, history>>

ApHit(r) == apCache.made # Nil /\ r.base = apCache.base /\ r.status.hotspot = apCache.status.hotspot

\* Mutant: the stage is not in the key.
CxHitAnyStage(r) ==
  /\ cxCache.made # Nil /\ r.base = cxCache.base
  /\ r.status.radio = cxCache.status.radio

CxHit(r) ==
  /\ cxCache.made # Nil /\ r.base = cxCache.base
  /\ r.status.stage = cxCache.status.stage /\ r.status.radio = cxCache.status.radio

\* Mutant: nothing is kept, every call gets a snapshot of its own.
ComposedAfresh(r) ==
  IF r.status.hotspot # None THEN New(WithHotspot(r.base, r.status.hotspot))
  ELSE IF FaultToInject(r.base, r.status) # None THEN New(WithFault(r.base, r.status))
  ELSE r.base

\* What the call returns: composeHotspot, composeFault or the base itself.
Composed(r) ==
  IF r.status.hotspot # None
    THEN IF ApHit(r) THEN apCache.made ELSE New(WithHotspot(r.base, r.status.hotspot))
  ELSE IF FaultToInject(r.base, r.status) # None
    THEN IF CxHit(r) THEN cxCache.made ELSE New(WithFault(r.base, r.status))
  ELSE r.base

Overlaid(r) == r.status.hotspot # None \/ FaultToInject(r.base, r.status) # None

Kept(r) == [base |-> r.base, status |-> r.status, made |-> Composed(r)]

\* Both caches as the call leaves them; an entry changes only when missed.
Cache(r) ==
  /\ apCache' = IF r.status.hotspot # None /\ ~ApHit(r) THEN Kept(r) ELSE apCache
  /\ cxCache' = IF r.status.hotspot = None /\ Overlaid(r) /\ ~CxHit(r) THEN Kept(r) ELSE cxCache

\* The call is over, and what it has read is let go of.
CallEnds(c) ==
  /\ at' = [at EXCEPT ![c] = "idle"]
  /\ asked' = [asked EXCEPT ![c] = Reads]

WebView ==
  /\ at["web"] = "compose"
  /\ Cache(asked["web"])
  /\ view' = ViewOf(Composed(asked["web"]))
  /\ told' = SceneOf(Pure(asked["web"]))
  /\ displaced' = (displaced \/ caches' # caches)
  /\ CallEnds("web")
  /\ UNCHANGED <<inputs, loop, panel, seen, due, rebuilt>>

-----------------------------------------------------------------------------
(***************************************************************************)
(* The render loop. A step runs to its end before the next tick is taken;  *)
(* an error of the panel ends the process.                                 *)
(***************************************************************************)
BrightnessAt == IF dark THEN DarkLevel ELSE FullLevel

\* Mutant: scenes are told apart by their state.
MustBuildOnState(s) == s.state # loop.last.state \/ ~loop.built

MustBuild(s) == s # loop.last \/ ~loop.built

\* Leaving a soak forces the contrast to be applied again.
Applied == IF loop.soaking THEN -1 ELSE loop.brightness

Contrast(now, wanted) == IF wanted # now THEN wanted ELSE panel

RenderScene ==
  LET s == Composed(asked["render"]) IN
  /\ at["render"] = "compose"
  /\ Cache(asked["render"])
  /\ loop' = [last |-> s, built |-> TRUE,
              scene |-> IF MustBuild(s) THEN SceneOf(s) ELSE loop.scene,
              brightness |-> BrightnessAt, flushed |-> TRUE, soaking |-> FALSE]
  /\ panel' = Contrast(Applied, BrightnessAt)
  /\ due' = BrightnessAt
  /\ rebuilt' = (MustBuild(s) /\ seen # None /\ asked["render"] = seen /\ ~displaced)
  /\ seen' = asked["render"] /\ displaced' = FALSE
  /\ CallEnds("render")
  /\ UNCHANGED <<inputs, view, told>>

\* Mutant: a soak frame leaves no trace in the loop.
SoakFrameForgotten ==
  /\ at["render"] = "idle" /\ soak
  /\ panel' = Contrast(loop.brightness, FullLevel)
  /\ due' = FullLevel
  /\ UNCHANGED <<inputs, at, asked, caches, loop, view, seen, told, displaced, rebuilt>>

\* soakStep: the snapshot is not asked for, the first frame not reported.
SoakFrame ==
  /\ at["render"] = "idle" /\ soak
  /\ loop' = [last |-> loop.last, built |-> loop.built, scene |-> loop.scene,
              brightness |-> FullLevel, flushed |-> loop.flushed, soaking |-> TRUE]
  /\ panel' = Contrast(loop.brightness, FullLevel)
  /\ due' = FullLevel
  /\ UNCHANGED <<inputs, at, asked, caches, view, seen, told, displaced, rebuilt>>

Move == moves < MaxMoves /\ moves' = moves + 1

\* The process ends, for a panel error or any reason, and starts again.
Restart ==
  /\ Move
  /\ base' = Nil /\ status' = Quiet
  /\ at' = [c \in Caller |-> "idle"] /\ asked' = [c \in Caller |-> Reads]
  /\ apCache' = NoEntry /\ cxCache' = NoEntry
  /\ loop' = LoopStart /\ panel' = BootLevel /\ view' = None
  /\ soak' = FALSE
  /\ seen' = None /\ told' = None /\ due' = BootLevel
  /\ displaced' = FALSE /\ rebuilt' = FALSE
  /\ UNCHANGED dark

-----------------------------------------------------------------------------
(***************************************************************************)
(* The surroundings.                                                       *)
(***************************************************************************)
Around == <<at, asked, caches, shown, history>>

Publish(content) ==
  /\ Move
  /\ base' = New(Snap(0, content.state, content.fault, None, None))
  /\ UNCHANGED <<status, soak, dark, Around>>

ManagerMoves(s) == Move /\ status' = s /\ UNCHANGED <<base, soak, dark, Around>>

SoakStart == Move /\ soak' = TRUE /\ UNCHANGED <<base, status, dark, Around>>

\* CancelSoak, or the deadline.
SoakEnds == soak /\ soak' = FALSE /\ UNCHANGED <<base, status, dark, moves, Around>>

ClockMoves == Move /\ dark' = ~dark /\ UNCHANGED <<base, status, soak, Around>>

RenderStep == CallBegins("render") \/ ReadHotspot("render") \/ ReadConn("render")
              \/ RenderScene \/ SoakFrame
WebStep == CallBegins("web") \/ ReadHotspot("web") \/ ReadConn("web") \/ WebView

Next ==
  \/ RenderStep \/ WebStep \/ Restart
  \/ \E content \in Publishes : Publish(content)
  \/ \E s \in Status : ManagerMoves(s)
  \/ SoakStart \/ SoakEnds \/ ClockMoves

Spec == Init /\ [][Next]_vars

\* The ticker drives the loop, and a soak has a deadline. Nobody makes the
\* web ask, nor finish.
FairSpec == Spec /\ WF_vars(RenderStep) /\ WF_vars(SoakEnds)
-----------------------------------------------------------------------------
Snapshot == [id : Id \cup {0},
             state : {"initialising", "departures", "no-services", "clock-not-synced", "error"},
             fault : {None, "E01", "E02", "E03", "E04", "E05", "E06", "E07"},
             detail : Stage \cup {None}, hotspot : Hotspot \cup {None}]
Read  == [base : Snapshot, status : Status]
Entry == [base : Snapshot, status : Status, made : Snapshot]

TypeOK ==
  /\ base \in Snapshot /\ status \in Status
  /\ at \in [Caller -> {"idle", "hotspot", "conn", "compose"}]
  /\ asked \in [Caller -> Read] /\ seen \in Read \cup {None}
  /\ apCache \in Entry /\ cxCache \in Entry
  /\ loop.last \in Snapshot /\ loop.brightness \in -1 .. FullLevel
  /\ loop.built \in BOOLEAN /\ loop.flushed \in BOOLEAN /\ loop.soaking \in BOOLEAN
  /\ panel \in 0 .. FullLevel /\ due \in 0 .. FullLevel
  /\ moves \in 0 .. MaxMoves
  /\ {soak, dark, displaced, rebuilt} \subseteq BOOLEAN

\* The panel shows what the loop's own last call has read.
PanelTrue == seen # None => loop.scene = SceneOf(Pure(seen))

\* The web preview describes what its own last call has read.
WebTrue == view # None => view.state = told.kind /\ view.detail = told.detail

\* The caches cannot be noticed: both of these hold, though panel and web
\* share the entries and either may replace one while the other is half-way
\* through its call.
CachesUnseen == PanelTrue /\ WebTrue

\* A scene in the middle of its animation is built anew only when the loop
\* has read something else, or a web request that had read something else
\* has taken the entry from under it.
NoChurn == ~rebuilt

\* Every frame is seen at the contrast it is meant to have: through soaks,
\* the ends of soaks, the edges of the window and restarts.
ContrastTrue == panel = due

\* Neither the caches, nor the scene kept from frame to frame, nor the
\* remembered contrast can be noticed from outside: panel and preview look
\* like a device that draws every frame anew.
Content(b) == [state |-> b.state, fault |-> b.fault]

Reading(r) == [base |-> Content(r.base), status |-> r.status]

Readings == [c \in Caller |-> Reading(asked[c])]

D == INSTANCE Display WITH base <- Content(base), asked <- Readings,
                           scene <- loop.scene, contrast <- panel

DrawnAnew == D!Spec

\* The surroundings move MaxMoves times at most: once they have come to
\* rest, so does the screen. It shows the present inputs, at the present
\* contrast, and has reported the first frame.
Settles ==
  <>[](/\ loop.scene = SceneOf(Pure([base |-> base, status |-> status]))
       /\ panel = BrightnessAt /\ loop.flushed /\ ~loop.soaking)
=============================================================================

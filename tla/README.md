# A verification project for trainboard

trainboard is a departure board for a Raspberry Pi: one Go process that polls a
departures API and draws on a small display, provisions itself over a WiFi
hotspot of its own, and updates itself over two slots with automatic rollback.
This directory holds TLA+ models of its control logic, the TLC runs that check
them on small instances, and proofs, checked by TLAPS, that hold for every
instance. Paths below are relative to `src/`.

Contents: [inventory](#inventory), [modules](#modules), [runs](#runs),
[fairness](#fairness), [proofs](#proofs), [disagreements found](#disagreements-found),
[abstractions](#abstractions), [not modelled](#not-modelled), [plan](#plan),
[how to run](#how-to-run).

## Inventory

| component | state it keeps | operations | interacts with |
|---|---|---|---|
| **Slot state** `internal/update/{state,slots,manifest}.go` | `state.json`: active and known-good slot with versions, boot attempts, version floor, rollback marker | `Decide`, `Rollback`, `Promote`, `DismissRollback`, `CheckInstallable`, `SaveState` | read and written by the launcher, the health check, the apply pipeline and a web handler, with no lock |
| **Launcher** `cmd/trainboard-launcher` | none: it becomes the payload by `exec` | load, decide, persist, exec, fall back | systemd starts it, and starts it again whenever the payload ends |
| **Health check** `internal/update/health.go` | frame seen, probe answered | `NoteFrame`, `Run`, `Promote` | render loop, web server, state document |
| **Apply pipeline** `internal/update/apply.go` | a document read before a download of minutes | `Apply`, `installBinary` | slot directories, state document, process exit |
| **Release checker** `internal/update/checker.go` | `available` and the last check under `mu`; `applyMu` | `CheckNow`, `ApplyNow`, `tick` | release feed, web handlers, apply pipeline |
| **Connectivity manager** `internal/net/manager.go` | published `Status`, phase, retry channel, time of the last portal activity | `Run` and its phases `bootSTA`, `runOnlineWait`, `runAPWait`, `toSTA`, `toAP`, `cleanupOnCancel`; `RetryNow`, `NoteProvisioning` | driver, DHCP server, layered check, watchdog (`Beat`), portal, display |
| **Radio driver** `internal/net/driver*.go`, `dnsmasq.go`, `check.go`, `prereq.go` | the daemons wpa_supplicant, dhclient, dnsmasq; the addresses of wlan0 | `StartAP`, `StopAP`, `AttemptSTA`, `APActive`, `Start`, `Stop`, `Alive`, `Evaluate` | external commands through `Runner`, which bounds none of them: a call ends when its context does |
| **Watchdog** `internal/obs/watchdog.go` | a deadline and last beat per component | `Register`, `Healthy`, `Run` | every long-running goroutine; systemd |
| **Poller** `internal/runtime/{poller,classify}.go` | last good board, failures, backoff | `Run`, `pollOnce`, `Poke`, `Classify` | departures client, screen |
| **Screen** `internal/runtime/{composite,loop,soak}.go`, `internal/web/handlers_board.go` | two cache entries of the decorator, the loop's scene and contrast, the soak's deadline | `Snapshot`, `step`, `soakStep`, `handleAPIBoard` | manager status, poller, faults, configuration; render loop and web call the same decorator |
| **Provisioning** `internal/config/store.go`, `internal/web/{service,handlers_*}.go` | `config.json` | `UpdateConfig`, `SetInitialPassword`, `SetupConnectivity`, `NeedsSetup`, `VerifyLogin`, `Save` | HTTP handlers run concurrently; the manager re-reads the credentials; a save restarts the process |
| **Web sessions, limiter and gates** `internal/web/{session,ratelimit,middleware,server}.go` | tokens with expiry, one bucket per budget and address | `Create`, `Lookup`, `Destroy`, `allow`, `setupGate`, `requireAuth`, `csrfProtect` | every handler |
| **mDNS responder** `internal/mdns` | one listener and reader per interface | `Run`, `poll`, `announce`, `handle`, `shutdown` | network interfaces, hotspot, watchdog, peers' caches |
| **Windows and clocks** `internal/config/powersaving.go`, `internal/data/{timerecon,filter}.go` | none (pure) | window membership across midnight, reconstruction of dates, filters | screen, checker, poller |
| **Log ring and faults** `internal/obs/{ring,faults,log}.go` | a bounded buffer | `Write`, `Snapshot` | log page |
| **Departure data**, **board layout and rendering**, **stations, tz, build info**, **release tools** | text, pixels, static tables, offline tools | | no protocol to check |

What is hard about each, and what makes it correct:

* **Self-update.** Four actors read, modify and write one document without a
  lock; a crash or a power cut may come between any two steps; a write may fail
  and the caller goes on. Correct means: whatever happens, the launcher can
  return to a binary that has proved itself (KnownGoodProven), apply never
  overwrites it (KnownGoodKept), what is trusted does not get older (NeverOlder),
  the launcher gives up on no sound binary but one whose exec has failed
  (AlwaysBootable), a bad release gets three boots (ThreeStrikes) and is not
  installed again for ever (Converges).
* **Connectivity.** One radio is either a client or an access point, every step
  is an external command that may fail or hang, and a half-switched radio is the
  starting point of the next attempt. Correct means: a hotspot that is shown is
  real (FallbackIsReal), a client lease is not renewed behind it nor after a
  shutdown (NoStrayRenewer), the device does not serve DHCP on somebody else's
  network (OnlineWithoutServing), what is shown is taken back before it is torn
  down and gone when the process ends (KeepsPromise), a slow but healthy
  iteration is not shot by the watchdog (BeatsInTime), and the device recovers
  (Recovers, NeverStranded).
* **Provisioning.** Concurrent handlers read, merge and save one document
  without a lock; two set-ups may both find that none was done; pages hand a
  redacted copy back; the branch of the setup handler depends on a hotspot that
  the manager may be dropping; a restart that one save schedules ends the others.
  Correct means: a device that has been set up always has an admin password
  stored, though an overlapping set-up may replace it (SetUpForGood), the board that
  runs is the one on disk or is about to be (NothingStale), a save touches its own slice (OwnSliceUnlessOvertaken), and
  saved credentials are tried (HandedOff).
* **Release checker.** The unattended loop and web requests share `available`;
  the feed is called with no lock held, so answers are recorded in an order of
  their own, and the loop decides on a copy that the pipeline reads again.
  Correct means: one pipeline at a time (OnePipeline), never backwards
  (OnlyForward), a release that was rolled back is not applied by the loop
  (GateRespected), and the device ends up on the newest one that works
  (Converges of `Checker`).
* **Poller.** The grace of a stale board is asked for only when a poll ends, and
  the distance of polls depends on backoff, interval and two call timeouts; pokes
  are coalesced and race the timer. Correct means: no board is shown for ever
  (BoardAge), none is given up early (ErrorEarned), a poke leads to a fetch that
  begins after it (PokeHeard), and a feed that is back is soon on the board
  (BackInTime).
* **Watchdog.** One component that is late withholds the pet for all: whatever
  hangs must end the process (WedgeEnds), and a slow poll must not
  (NoNeedlessKill).
* **Screen.** Three sources are read one after the other while they change, by
  two callers that share two cache entries; contrast is remembered across
  frames, soaks and windows. Correct means: each caller shows what it has read
  (CachesUnseen), a running animation is not restarted (NoChurn), whatever is
  remembered to save work is not noticed, in scene or contrast (DrawnAnew), and
  the panel comes to rest (Settles).
* **mDNS.** Interfaces move and calls fail during a poll that blocks for the
  gap between two announcements; readers answer during the shutdown. Correct
  means: no listener leaks (NoLeak), `wlan0` is left to the hotspot
  (HotspotQuiet), what is announced is announced twice (AnnouncedTwice) and
  retracted (Retracted), and `Run` returns (ShutdownEnds).
* **Web access.** A request passes limiter, session, CSRF check and handler
  while another logs out, changes the password or ends the process; until the
  answer to a log-out has come, the browser goes on with the old cookie. Correct
  means: a limiter bounds every window of time (RateBounded) and locks nobody out
  (NotLockedOut), and a session that is over opens nothing (SignedOutStaysOut).

`PROJECT.json` lists every hazard at its line with the properties aimed at it.

## Modules

| module | models | relation |
|---|---|---|
| `SlotState` | the document and the pure operators over it | extended by `Updater` |
| `Updater` | launcher, health check, apply pipeline, dismissal, process life cycle | implements `SlotGuarantee` |
| `SlotGuarantee` | what A/B slots promise: one good slot, only the other one is overwritten, only a proven binary is trusted | abstract specification |
| `UpdaterProofs` | theorems about `Updater` | |
| `MCUpdater` | instance: manifests of two or three releases | |
| `Mode2Driver` | the radio: each driver call as the sequence of worlds its commands produce | extended by `Manager` |
| `Manager` | `Manager.Run` with its collaborators and surroundings | implements `Fallback` |
| `Fallback` | what the AP fallback promises: complete when shown, taken back before it is dismantled, gone for the client and after the end | abstract specification |
| `ManagerProofs` | theorems about `Manager` | |
| `MCManager` | instance: all disturbances | |
| `Provisioning` | `config.json` under concurrent set-ups, pages and API saves; restarts; the handoff to the manager | abstracts `Manager` to the calls that read the credentials |
| `ProvisioningProofs` | theorems about `Provisioning` | |
| `MCProvisioning` | instance: two requests | |
| `Watchdog` | registration, beats, the pet and systemd's deadline | extended by `Poller` |
| `Poller` | poller, feed and watchdog in discrete time | |
| `PollerProofs`, `MCPoller` | theorems; instance: a unit is 15 s | |
| `Screen` | decorator, render loop, soak and web view | implements `Display` |
| `Display` | what panel and preview promise: a device that keeps nothing and draws every frame anew | abstract specification |
| `ScreenProofs`, `MCScreen` | theorems; instance: departures, errors, a hotspot, two stages | |
| `Responder` | mDNS: `Run`, its readers and the peers' caches | |
| `ResponderProofs`, `MCResponder` | theorems; instance: two interfaces | |
| `Checker` | release checker: one loop and web requests | extends `SlotState`; `Updater` has its calls as single steps |
| `CheckerProofs`, `MCChecker` | theorems; instance: the loop and one request | |
| `WebAuth` | limiter, sessions, gates and the handlers behind them | |
| `WebAuthProofs`, `MCWebAuth` | theorems; instance: two tabs | |

### Self-update

`doc` is `state.json` as processes read it. `durable` is what a power cut may
restore: `SaveState` writes a temporary file, syncs it and renames it, but does
not sync the directory, so the newest rename may be lost. An earlier one may
not: the sync of the next temporary file commits it (this is the ordered journal
of ext4, the file system of the image). `installBinary` does sync its directory,
which is why `ApplyInstall` sets `durable`.

`pc` is where the one process is: `down` until systemd starts the launcher,
`exec` and `fallback` between the launcher's write and its `exec`, `running` in
the payload. The records `health`, `apply` and `dismiss` are the progress of the
three activities of the payload. Each holds the copy of the document it read, so
the read and the write of one activity may be interleaved with those of another:
`PromoteLoad`/`PromoteSave`, `ApplyLoad`/`ApplyInstall`/`ApplySave`,
`DismissLoad`/`DismissSave`. The executable that `runningSlotOK` compares is the
one found at process start, so replacing the file of the running slot does not
confuse it: the model compares slots. `exiting` is the short time between a
successful apply and the exit that both callers perform.

Releases are numbers in semver order, 0 a version that is not semver; a slot
without a binary holds `None`. `MinVersion[v]` is the signed minimum of release
`v`. Which releases can be exec'd, are able to pass the health check, or crash
are constants of the model.

`passed` and `strikes` are history variables: which versions have passed their
health check, and how often the binary now being tried has been exec'd.

### Connectivity

`world` is the radio as the commands leave it: what wpa_supplicant does, whether
dnsmasq and dhclient run, which addresses wlan0 holds. A driver call is a
*trace*, the worlds it passes through one command at a time. A call that succeeds
ends in the last world, one that fails stops in any earlier one (`Interrupted`),
and one made under a cancelled context does nothing: `exec.CommandContext` does
not start the command. Both networks of the generated configuration are
`disabled=1`, so a reload selects neither.

`wifi` are the stored credentials: none, plain ones, or ones with a quote in
them, which `validateWifi` accepts and `renderConf` refuses. `AttemptSTA` keeps
what it is given in `d.sta` before it writes the file, and `StartAP` writes the
same file; `renders` says whether what the driver has kept can be written, and a
call under ~`renders` fails before its first command (`Works`, `Breaks`). A new
process has kept nothing yet.

`pc` is the position in the loop, one value per call of a collaborator; `phase`
is `managerPhase`; `attempt` and `restore` count the two attempts of `toAP` and
the two restores of `runAPWait`. `status` is what display and portal see. `gap`
is the time since the last `Beat` in units of 5 s, every call taking its whole
bound. `died` is a history variable: a daemon has died since the AP was last found
active.

The process is restarted by systemd after a clean stop, and after `Run` has
given up, since nothing beats any more and the watchdog withholds its pets.
systemd kills the whole control group (`KillMode` is the default), so a new
process finds none of the daemons; the addresses of wlan0 survive.

`Fallback` forgets the commands. It has the published state (or `off`), the set
of parts that are up (beacon, server, the hotspot's address as the only one, the
renewing dhclient) and whether a part has vanished by itself. While nothing is
shown it may build and dismantle at will; the other actions say when a hotspot
may be shown, and what must be gone when it is taken back, when the device joins
a network and when the process ends. `Shown` and `Up` in `Manager` are the
refinement mapping.

### Provisioning

`file` is `config.json`, `None` when it does not parse. A document maps each
field to the request that entered its value (or `unset`, or `factory` for what
the device came with): the request is the name of its own input, so one can read
off a document who wrote which part of it. The fields are the ones the
properties tell apart. `origin`, `look` (everything on the display, departures
and updates pages that has a default) and `ssid` are what `ConfigUpdate.Cfg`
carries back and forth in the open; `token`, `psk` and `hash` are the write-only
secrets that `Redacted` masks.

`req` holds the requests in flight. A page goes through `ReadForm` (it reads the
document, redacted, and puts its own fields over it), `UpdateConfig` (reads
again, merges, validates, hashes) and `Save` (the rename), and a set-up through
`SetInitialPassword` or `SetupConnectivity` and `Save`; between any two of these
any other step may happen. `draft` is the copy the request holds. `Answer` ends
the request and schedules what the handler schedules. `overtaken` is a history
variable: another request has saved since this one read the document.

`running` is the part of the configuration that the process keeps in memory
(`None` in the configuration error loop, E04), `timer` the calls that
`time.AfterFunc` will make. `hotspot`, `token` and `tried` are the manager as
far as it matters here: whether it shows a hotspot, whether a token waits in its
retry channel, and which credentials it last read.

`SetupArrives` and `PageArrives` are the gate: the first branches on the hotspot
as `handleSetupPost` does, the second stands for `setupGate` and a session,
which whoever knows the password can have at any time.

### Release checker

`available` is `Checker.available`; `pc[c]` and `got[c]` are where a caller, the
loop or a web request, is and the version it works with. `CheckNow` is two steps,
`Answered` and `Recorded`, between which anything may happen; `ApplyNow` is
`ApplyBegins`, its own check, `RereadFinds` and `Installed`. `tick` is
`TickBegins`, `TickLooks` (the copy of `available`) and `TickGates` (the read of
the rollback marker). What becomes of a staged release is one step, `Upgraded` or
`RolledBack`, since `Updater` takes that apart. `crossed` is history: another
caller has written `available` since the tick looked at it.

### Poller and watchdog

Time is discrete. `Tick` lets a unit pass and is disabled while something is due
(`Urgent`, `WDMayPass`), so every upper bound on time is a safety property and
needs no fairness. A fetch is one call (`fetching`) and, if headcodes are wanted,
another (`enriching`), each of at most `CallTimeout`; `AfterPoll` is the rest of
`pollOnce` and the head of the loop: classify, publish, count, beat, new timer.
`snap.age` is the age of `FetchedAt` and `snap.data` that of the board, which is
one headcode call older. `goodFor` says for how long the feed has been up: a call
that it was up for throughout must succeed. `Wedge` stops one component for good;
the others beat or are late as the code makes them. `unheard` and `spoilt` are
history.

### Screen

A call of the decorator is three steps, as the code reads three sources with no
lock over all: `CallBegins` reads the base, `ReadHotspot` and `ReadConn` the
status, twice. `WebView` or `RenderScene` ends it, with the change of the two
cache entries, which the decorator's mutex makes atomic. Snapshots are compared
as pointers, so each carries an identity `id`; `New` gives one that nothing in
memory has, and identities of snapshots that are no longer held are used again
(eight places hold one, so of nine identities one is free).
`loop` is the state of `Loop`; the panel's contrast is `panel`. `seen`, `told`,
`due`, `displaced` and `rebuilt` are history.

`Display` has none of this: no caches, no identities, no remembered snapshot,
scene or contrast. A frame is the scene and the contrast that its own readings
call for, a view what the web's readings call for. The readings, and the moments
at which they are made, are the same.

### mDNS responder

`pc` is where `Run` is. A poll looks at one interface after the other (`Look`,
`LookFails`), closes the listeners whose interface is gone (`Closing`), opens new
ones (`Opening`, `OpeningFails`), and announces twice with a gap in between.
`sock` are the sockets with their readers, `conns` the map. A zone is the
addresses it was made with. `heard` is what peers on a link have cached, which
is what goodbyes are for: closed sockets and links that are gone reach nobody
(`Reaches`). `quiet` and `unretracted` are history.

### Web access

`Send` puts a request on its way with the cookie of the moment, which is the
browser's, hence shared by its tabs. It meets the set-up gate (`Redirect`) and the
limiter (`Admit`, `Refuse`), then `Authenticate` or `Verify`, and its handler, each
a step of its own. A handler that sets or clears the cookie only answers:
`Receive` is when the browser learns of it, unless the answer is lost, and up to
then every tab may send the old cookie. Requests on their way outlive a restart. A
bucket is counted in fractions of a token so that the refill of a time unit is a
whole number. `since`, `watched`, `admitted`
and `latest` watch a window of time that begins whenever it likes (`Watch`);
`born`, `ended` and `late` say which sessions were over when a request arrived.

## Runs

In the models of the updater and of the manager `Hazards` is the set of
disturbances that a run admits. Without a hazard the corresponding action is
disabled, so each run states under which disturbances its properties hold.

| run | properties | what it shows |
|---|---|---|
| `Updater_safety` | KnownGoodProven, Guarantee, NeverOlder, AlwaysBootable | with power cuts, failing writes, failing execs and unusable configurations, the device can always go back to a binary that has passed, and the slots implement the abstract A/B device; the trusted version never goes back but for a power cut, and the launcher does not give up while a sound binary could be exec'd. The operator waits for the health check |
| `Updater_converges` | ThreeStrikes, Converges | a release that never becomes healthy is tried three times per install; after the disturbances the device runs a healthy release for good |
| `Updater_early` (violated) | KnownGoodProven | an operator who applies during the health check breaks the guarantee |
| `Manager_hazards` | FallbackIsReal, NoStrayRenewer, BeatsInTime, OnlineWithoutServing, KeepsPromise | under all disturbances at once: a hotspot that is shown is the verified one unless a daemon has died since, and the manager implements `Fallback` |
| `Manager_recovers` | Recovers, NeverStranded | after failing commands, dying daemons, changing credentials and an operator the device gets online if it can and is otherwise reachable again and again, unless the stored credentials cannot be written |
| `Provisioning_safety` | NothingStale, SetUpForGood, OwnSliceUnlessOvertaken, HandedOff | two requests of any kind overlap in every way, with restarts at any time and a manager that moves on its own |
| `Poller` | BoardAge, ErrorEarned, PokeHeard, BackInTime, NoNeedlessKill, WedgeEnds | how stale a board gets, how soon pokes and a recovered feed are acted on, that a hanging component ends the process and a failing feed does not |
| `Screen` | CachesUnseen, NoChurn, DrawnAnew, Settles | panel and web each show what they read, at the right contrast, whatever the other does to the shared entries half-way through: they implement `Display`; then the panel comes to rest |
| `Responder` | NoLeak, HotspotQuiet, AnnouncedTwice, Retracted, ShutdownEnds, Converges | interfaces that come, go, change index and address, a hotspot, failing calls and sockets, queries at any time |
| `Checker` | OnePipeline, GateRespected, OnlyForward, Converges | loop and web request at once, late and failing answers, withdrawn releases, restarts, rollbacks |
| `Checker_race` (violated) | NeverReapplied | an answer recorded between the tick's gate and its apply makes it install what was just rolled back |
| `WebAuth` | RateBounded, SignedOutStaysOut, NotLockedOut | two tabs of one browser, requests and answers under way, password changes, log-outs, restarts, time |

The type invariants are proved in every module and not run ([proofs](#proofs)).
Neither are KnownGoodVersionTrue, which is part of the theorem on
KnownGoodProven, KnownGoodKept, which is part of the refinement of
`SlotGuarantee`, and ContrastTrue, which is part of that of `Display`.

Bounds, and why they are enough:

* Releases: two (three for `Updater_safety` and `Updater_converges`). With the
  seeded version this gives each slot an old and a new content, a pending update
  that is replaced by another before it was tried, and a bad release followed by
  a good one. In `Updater_safety` release 1 is healthy, 2 crashes and 3 does not
  exec; in `Updater_converges` release 1 crashes, 2 is healthy, 3 does not exec,
  so convergence is by rollback, by a good release, and by the fallback of the
  launcher. The manifest of release 2 or 3 raises the floor to the release
  before it.
* Nothing else is bounded in `Updater`: boots, checks, applies, dismissals and
  crashes are unlimited, and the document is finite.
* `Manager` has no bound at all: `gap` is reset by each Beat and stops growing
  when `Run` has ended. `Manager_recovers` leaves out the shutdown, after which
  systemd starts the process as it does after a failed `Run`, and a network that
  moves, so that the check ends in time: a network is chosen at the start and
  stays.
* `Poller`: a unit is 15 s, rounded up, with the refresh of 45 s, pets, deadlines
  and `WatchdogSec` of the program; the grace is six units, enough for two rounds
  of polls to fit in; the backoff keeps two different steps. Ages are counted up
  to `AgeBound`, which lies above every bound that a property states.
* `Screen`: the surroundings move four times, each move a publish, a change of
  the manager, a soak, an edge of the window or a restart. A wrong entry takes
  two: the change that fills it and the one that makes it wrong; the others are
  for the second caller and for leaving it again. Nine identities
  are enough: eight places hold a snapshot.
* `Responder`: two interfaces, two sets of addresses and two moves, where every
  failure and every change of the surroundings is a move: a listener opened under
  one and closed under another, or a failure in the poll that follows a change.
  Queries and the shutdown are free. `Run` really ends, so deadlock is not
  checked.
* `Checker`: two releases, so that one may be bad, withdrawn or below the floor
  that the other raised, and one web request besides the loop, used again and
  again. In `Checker` release 2 fails its health check, in `Checker_race` release
  1 does. The proofs hold for any number of requests.
* `WebAuth`: two tabs, two passwords (interchangeable, as the tabs are), two
  sessions, two time units; the auth bucket holds one token and the action bucket
  two, so that both are emptied and refilled. A session lives for one unit and
  outlives itself in the other. The proofs hold for any of these.
* `Provisioning`: two requests, each used once. Every conflict the model knows is
  between the copy of one request and the save of another, and set-up followed
  by a page needs no third. What the device came with is any document with a
  complete or an empty WiFi block, or one that does not parse. Restarts,
  attempts and hotspots are unbounded. The proofs hold for any number of requests.

## Fairness

`Updater`: systemd restarts the launcher (`Restart=always`) and the launcher
never blocks; each goroutine of the payload is scheduled and each of its calls
has a timeout; a build that crashes does so eventually. The disturbances end
(`Settle`): without it, `Converges` would demand progress from a device whose
power is cut for ever. Publishing, checking and auto-apply are **not** fair: a
device may never hear of a release and must be healthy all the same.

`Manager`: the goroutine of `Run` is scheduled and each of its waits ends, since
all are timers; time passes (`ProvisioningAges`, `GraceEnds`); systemd restarts;
the disturbances end. The heartbeat of the parked manager is not counted as
progress: `Heartbeat` is not part of the fair action `Run`, as otherwise it
could postpone the end of the wait for ever.

`Provisioning`: a handler runs to its end, the calls scheduled with
`time.AfterFunc` are made, and the manager acts on what prompts it: it attempts
to join when it boots, and when a token waits while it is parked behind its
hotspot. Its own schedule is not assumed: it may be suppressed for as long as
somebody uses the portal. Nobody has to send a request or restart the process.

`Checker`: each call ends, the ticker fires, a check gets old, an exit that was
asked for happens, the disturbances end. The window moves, but does not close
before a tick has looked at it: a tick comes every few minutes, and a window that
is shorter than that is never seen by the program either.

`Screen`: the ticker drives the render loop, and a soak has a deadline. Nobody
makes the web ask, nor a web call end: what it leaves half-way must not keep the
panel from settling.

`Responder`: `Run` and the readers are scheduled, of the readers one or another.
`SeeCancel` is strongly fair: the `select` of `Run` finds the ticker ready again
and again, and Go chooses among ready cases at random.

`Poller` and `WebAuth` assume no fairness: whatever they promise about time is a
bound, and bounds are safety.

## Proofs

`UpdaterProofs` proves, for every number of releases, every choice of which are
loadable, healthy or crashing and every set of hazards:

* `TypeCorrect`: `Spec => []TypeOK`;
* `KnownGoodIsProven`: KnownGoodProven and KnownGoodVersionTrue, provided
  `"EarlyOperator" \notin Hazards`;
* `KnownGoodIsKept`: the same proviso, `Spec => KnownGoodKept`;
* `UpdaterImplementsGuarantee`: the same proviso, `Spec => Guarantee`;
* `TrustNeverAges` and `ThereIsAlwaysABoot`: the same proviso, NeverOlder and
  AlwaysBootable;
* `ThreeStrikesAndOut`: `Spec => []ThreeStrikes`, provided also
  `"SaveFails" \notin Hazards`: a boot whose write of the document fails is not
  counted.

The proviso, that the operator does not act while the health check of the same
process is undecided, is necessary: `Updater_early` shows what happens without,
and each of the other properties has a counterexample then, too.

`KnownGoodProven` is not inductive. `GoodInv` is, and it says:

* `Good(d)` of the document and its durable copy, of the copy each activity
  holds and of the one the launcher has decided on: the slot it names known-good
  holds a binary that has passed, with the version it names;
* `OneProcess`: the payload's activities are idle unless the payload runs;
* `HealthAlone`: while the health check is undecided neither apply nor dismissal
  is under way, so what the health check has read is what is on disk;
* `Blessing`: between the health check and the write of its promotion, the active
  slot is the running one and holds the running version, which has passed;
* `CopiesAgree`: a pipeline or dismissal that holds a copy agrees with the
  document on which slot is known-good. This is what makes the unlocked write
  back harmless: the copies may be stale in every other field.

Three more stand on `GoodInv`. `StrikeInv` says that wherever a copy of the
document has its active slot unproven, it has counted every boot of it, in what
is on disk, in what a dismissal will write back and in what the launcher is about
to exec. `NewInv` says that such a slot holds a binary newer than the trusted
version, in every copy that may still be written or restored, the durable one
included, and that what the pipeline is installing is newer than what runs:
hence a promotion, the only step that moves the trusted version, raises it.
`BootInv` says that whatever has passed is healthy, and that the launcher falls
back to the slot known-good.

For the refinement, `good` is `doc.knownGood`, `content` is `slots` and `proven`
is `passed`; each action is a `Trust`, an `Install`, a `Prove` or a stutter.

`ManagerProofs` proves, for every set of disturbances:

* `TypeCorrect`: `Spec => []TypeOK`;
* `NoRenewer` and `NeverServesAsClient`: NoStrayRenewer and OnlineWithoutServing;
* `ShownHotspotIsReal`: FallbackIsReal. It speaks of daemons that have not died
  since the AP was verified, since the parked manager does not look at its AP
  again: such a hotspot stays on the screen until the next retry (NeverStranded
  says that this ends);
* `FallbackIsKept`: KeepsPromise, the refinement of `Fallback`;
* `BeatsAreInTime`: BeatsInTime.

The lemmas about the driver (`StartAPOutcomes`, `StopAPOutcomes`,
`AttemptSTAOutcomes`) say what a call leaves behind whether it succeeds or stops
halfway; all of them rest on `Outcomes`: what holds of every world of a trace
holds of every outcome. Four invariants follow:

* `DaemonInv`: what is published says where the loop can be (`PhaseInv`: APFallback
  is published only at the loop top, parked, or shutting down), and where the
  loop is says which daemons can be running (`RenewerInv`, `ServerInv`: whoever is
  a client, or on its way there, has stopped dnsmasq, or its context is
  cancelled and the layered check can no longer succeed);
* `RealInv`: what `attemptAP` verifies one after the other still holds when it
  publishes, and until the state is taken back;
* `ParkedInv`: where the loop is parked on the AP, the AP is published, the
  converse of `PhaseInv`. With the three others it makes each call of a
  collaborator a step of `Fallback` or none: `PromiseShown` is the moment of
  publication, where RealInv gives all parts, and `CleanedDismantles` the end,
  which puts nothing up and takes the server of a shown AP down;
* `GapInv`: the longest gap at each place of the loop. The binding path is the
  one of the comment above `managerBeatDeadline`: 30 s heartbeat, teardown,
  prerequisites, bounded attempt, two bring-ups with a teardown between them.

`ProvisioningProofs` proves, for any number of requests and without proviso:

* `TypeCorrect`, `BoardIsNeverStale`, `SetUpOnceAndForAll` and `SlicesAreKept`:
  TypeOK, NothingStale, SetUpForGood and OwnSliceUnlessOvertaken.

The inductive invariant `IInv` adds to TypeOK what a request knows of the
document while it holds a copy. A request that has not been overtaken holds a
copy that still agrees with the disk outside its own slice (`Fresh`). While no
restart is on its way the process runs what is on disk, and whoever will not
cause a restart has a copy of that board (`Calm`). A page is only ever under way
once there is a password (`PageHasPassword`), and what is about to be saved has
one (`DraftSound`). The last two make SetUpForGood inductive although nothing is
locked: a set-up that loses the race still saves a document with a password, its
own.

`PollerProofs` proves for all intervals, timeouts, graces, deadlines and backoff
tables, from PollerAssumption, DeadlineAssumption (the poller's deadline covers
an interval and two calls, as `pollerBeatDeadlineExtra` says) and
WatchdogAssumption:

* `TypeCorrect`, `BoardAgeBounded`, `ErrorIsEarned`, `PokesAreHeard`,
  `FeedIsBackInTime`, `KillsAreNeeded`, `WedgesEnd`: TypeOK and the six
  properties of the run.

Each bound is the end of a chain through the three places of the loop, and its
invariant says how much of the bound is used up at each: `BoardInv` for the age
of the board, `FeedInv` for the time since the feed came back, `PokeInv` for a
poke, `BeatInv` for the last beat. `SpentInv` bounds the present call or wait,
`CountInv` ties the streak to the snapshot, so that `FeedInv` knows which wait is
next, `EarnedInv` says what a snapshot's ages mean, and `PetInv` adds what
systemd has waited to what the watchdog has.

`ScreenProofs` proves, for any inputs, any number of stages and identities, and
any interleaving of the two callers:

* `TypeCorrect`: TypeOK, from ScreenAssumption (more than eight identities).
  That `New` finds one is a count: `EightHeld` adds up what is held, `SomeFree`
  finds an identity outside it and `NatMinimum` the smallest;
* `PanelIsTrue`, `WebIsTrue` and `CachesAreUnseen`, `ScenesAreKept`,
  `ContrastIsTrue`: CachesUnseen, NoChurn and ContrastTrue;
* `NothingRememberedShows`: DrawnAnew, the refinement of `Display`.

The invariant `IInv` says that an entry's snapshot is like the one its key calls
for (`ApEntry`, `CxEntry`; like, up to identity), that the loop's scene is the one
of the snapshot it remembers (`SceneKept`, `LastAlike`), that the same reading
would be given the same snapshot as long as the web has replaced nothing
(`StillThere`), and that a remembered contrast is the panel's (`Lit`). For the
refinement `BareInv` adds that what the poller publishes, and what a call has read
of it, carries no overlay of its own; then `PureShown` says that what the readings
make is what `Display` shows for them, and each step of a caller is the step of
`Display` of the same name.

`ResponderProofs` proves for any interfaces, addresses and sockets, and however
often the surroundings move:

* `TypeCorrect`, `NothingLeaks`, `HotspotIsQuiet`, `EachIsAnnouncedTwice`,
  `AllIsRetracted`: TypeOK, NoLeak, HotspotQuiet, AnnouncedTwice and Retracted.
  `PollInv` says that a poll has looked at what it desires and has opened only
  that, `QuietInv` carries the suppression
  from the look at wlan0 through the closing to the next tick, `SaidInv` counts the
  announcements before, in and after the gap. `ReaderLeaves` shows once that no
  reader changes what the polls can see.
* The goodbyes need an invariant of their own (`RInv`), for they come at the end
  of everything: whatever a peer has cached has a live listener behind it, not
  yet said goodbye to (`HeardInv`), one per interface (`Single`); a listener that
  peers cannot hear any more has nothing left in their caches (`StaleInv`),
  because a link that goes takes its peers with it and an index is never used
  again (`Indexed`). `Spoken` says that the goodbyes begin with every listener
  announced.

`CheckerProofs` proves for any number of requests and releases:

* `TypeCorrect`, `PipelineIsSingle`, `GateIsRespected`, `ForwardOnly`: TypeOK,
  OnePipeline, GateRespected and OnlyForward. `PipelineHeld` says that whoever
  is past the check holds `applyMu`; `GateKept` follows the gated version from the
  gate through the queue to the install, as long as nobody crosses.

`WebAuthProofs` proves for any rates, times, tabs, passwords and sessions:

* `TypeCorrect`, `RateIsBounded`, `NobodyIsLockedOut`, `OutStaysOut`: TypeOK,
  RateBounded, NotLockedOut and SignedOutStaysOut. `Budgeted` says that what was
  let through and what the bucket holds are together within the bound, `Saved`
  that the bucket is full or holds the refill since the latest admission (so that
  refused tries cost nothing), `StoreTrue` that the store keeps no session that
  has ended and no wrong expiry, `LateIsOver` that a late request never gets past
  the look-up.

Every invariant and every action property that a passing run checks is proved.
Only model-checked is liveness under fairness, which is out of the reach of the
prover: Converges of `Updater`, `Checker` and `Responder`, Recovers,
NeverStranded, HandedOff, Settles and ShutdownEnds. Which hazards a theorem
excludes is part of its statement; the runs of the updater admit no others, but
that `Updater_converges` lets no write fail.

## Disagreements found

Two have a run that shows them.

* `Updater_early`: apply during the health check. `Promote` blesses the slot that
  `state.json` names when it runs, not the slot it runs from
  (`internal/update/slots.go:71-86`). In the counterexample v0 runs in slot a, and
  an operator applies v1 while it is being checked: the document flips to slot b
  after `runningSlotOK` has looked and before `Promote` reads it again, so b becomes
  known-good, under the name v0, although its binary was never run, against
  `state.go:33`. Slot a still holds the proven v0, but the launcher would not fall
  back to it any more.
* `Checker_race`: `tick` looks at `available` (`internal/update/checker.go:116`)
  and gates that copy (`:127`), but `ApplyNow` reads `available` again (`:190`). A
  web check whose answer was delayed, or that finds the newest release withdrawn,
  records the version that was rolled back in between, and it is installed
  unattended, against the comment at `:121`. GateRespected says that this is
  the only way.

Seen while modelling, without a run of their own:

* the restored AP is "a hard invariant", and a failed one "cannot silently strand
  the device" (`docs/adr/0003-connectivity-ap-fallback-model.md:32-35`), but
  `validateWifi` and the pages accept an SSID or a key with a quote in it
  (`internal/config/validate.go:57-71`), and `renderConf` refuses it
  (`internal/net/driver_mode2.go:61-65`). `AttemptSTA` keeps such credentials before
  its `writeConf` fails (`:229-231`), so every `StartAP` that follows fails in the
  same way (`:146-148`). `Run` gives up, and the restarted process begins with the
  same attempt: never online, and no hotspot. This is the proviso of
  NeverStranded; without it TLC finds this cycle with no disturbance at all. As
  long as other credentials are stored, or none, what the driver has kept from
  before does no lasting harm: it is forgotten with the process that gives up;
* `Health.Run` only logs when its deadline passes
  (`internal/update/health.go:127`). Its comment (`:20`) counts on the attempt
  counter, but the counter only moves when something ends the process. (A hung
  render loop is ended by the watchdog; a web server that does not answer the
  probe is not.)
* the online watch (`internal/net/manager.go:374`): 30 s wait, 45 s recheck, 5 s
  prerequisites, 45 s attempt and the 40 s of `toAP` make 165 s without a beat. The
  comment above the deadline of 150 s (`cmd/trainboard/connectivity.go:47`) takes
  the AP retry, 130 s, for the worst case;
* without an SSID `toSTA` returns before `Prereqs` (`internal/net/manager.go:597`),
  so the first hotspot of a virgin device may come up on a radio that is
  soft-blocked;
* `UpdateConfig` takes every non-secret field from a copy that the page read
  earlier (`internal/web/service.go:206-211`), so a page that "saves ONLY that
  slice" (`internal/web/handlers_config.go:30`) undoes a save of another page in
  between;
* `DismissRollback` saves the document it read before an apply completed
  (`internal/update/slots.go:91-100`), and with it the old active slot and the old
  version floor, which `internal/update/state.go:42` calls a high-water mark. The
  other way round, `Apply` brings back a rollback marker that was dismissed
  during its download;
* two set-ups that overlap both succeed, and the password of the first is
  replaced, although set-up is "permitted only while no admin password is stored
  yet" (`internal/web/service.go:254`);
* a page that overlaps a WiFi change can save the old SSID with the new key,
  since the one comes from its copy and the other from the disk;
* a restart between the rename of a binary and the write of the document makes a
  later `Rollback` record a version that was not in the slot;
* boots with an unusable configuration, and restarts within the first minute,
  count as strikes for a slot that has been healthy, while
  `docs/superpowers/specs/2026-07-09-m5-self-update-design.md:166` says that only
  a never-healthy slot reaches three;
* `Status.Stage` is documented for APFallback (`manager.go:60`) but never set
  there;
* the error returns of `Run` do not kill dhclient (`manager.go:86` and 299);
* a shutdown in the middle of `toAP` leaves the AP up (`manager.go:230`), since
  `cleanupOnCancel` looks at the published state only;
* a `RetryNow` outside the AP wait stays in its channel and drops a later
  hotspot at once, in the middle of a provisioning session if need be;
* a board may be shown for longer than `StaleGrace`, by an interval and three
  calls, since the grace is only asked for when a poll ends, and `FetchedAt` is
  taken after the headcodes (`internal/runtime/poller.go`);
* the comment at `internal/runtime/poller.go:164` says the timer is left to fire,
  while the code stops it and makes a new one; the reset of the contrast to -1
  after a soak is not needed for DrawnAnew, as the soak frame remembers its
  own;
* a soak that is on from the start postpones the first-frame report, on which the
  health check waits;
* the responder: an address that changes while the interface keeps its index is
  not noticed, and the old one is announced; a reader ends at any read error,
  though "Per-packet errors are logged and survived"
  (`internal/mdns/responder.go`), and its listener stays in the map, deaf; a
  passing error of `Addrs` closes a listener; closing one says no goodbye; a
  reader's answer may follow the goodbye;
* the hotspot is looked at once per poll, so `wlan0` is not silent "exactly while
  the AP is up" (`cmd/trainboard/mdns.go:30`);
* an update window whose start is its end is empty, and one shorter than the
  tick may never be seen: neither ever applies;
* sessions survive a change of the password, which is intended
  (`docs/superpowers/plans/2026-07-09-web-ui-wayfinding.md:1963`), and entries of
  the session and limiter maps are removed only when they are looked up.

## Abstractions

Named here because a property could depend on them.

* A missing or damaged `state.json` (which `LoadStateOrDefault` answers with slot
  a) is not modelled: no step of the system produces one.
* Auto-apply starts no sooner than two minutes after the process
  (`initialDelay`), the health check has ended after 60 s and a 5 s probe: the
  model takes it that the two never overlap.
* `CheckNow` is one step in `Updater`; `Checker` takes it apart, and has install,
  health check and rollback as single steps in turn. The text of the last error is
  left out of both.
* An exec may fail for a sound binary (`ExecFails`), as the launcher reckons with.
* The two windows, of power saving and of updates, are open or closed.
* `Screen`: pixels, frame timing and the update dot are left out; which of the two
  error codes a poll publishes is an input.
* `Responder`: the records of a zone are its addresses, a query is one for them,
  and a message that is sent arrives.
* `WebAuth`: buckets of different addresses share nothing, so one address stands
  for all. Time is Go's monotonic reading. A token of a session is new.
* `pkill` does not fail, except that under a cancelled context it is not started.
* A driver call that fails may have done any proper prefix of its commands.
* A second dnsmasq cannot bind the interface, so `Start` fails while one is running.
* The network can change at any time; credentials that `renderConf` accepts are
  right, and wrong ones look like a network that is out of reach.
* A write of the file of wpa_supplicant that fails for another reason than the
  credentials is a driver call that fails before its first command.
* A field that a page clears is not told apart from one it leaves as it was:
  `Validate` refuses a cleared origin, and a cleared SSID as long as a key is stored.
* A document with half a WiFi block, which only an editor can produce, is not
  among the initial ones: a hotspot set-up would complete it and leave the board
  in E04 until somebody restarts it.
* A power cut during a save of `config.json`, whose directory is not synced
  either, is not modelled: it may undo any save, a set-up included.
* Time is modelled where it is compared: `gap` and two windows in `Manager`, every
  interval in `Poller`, refill and expiry in `WebAuth`.

## Not modelled

* Release signatures, HTTP, SOAP parsing, name and time clean-up, layout and
  rendering, the wire format of DNS: data with no protocol. What they make of
  their input for every input is a question of induction over data.
* The hostapd driver, which is not wired in production
  (`cmd/trainboard/connectivity.go:200`), and the offline tools.
* Which minutes of the day a window covers, across midnight: arithmetic, for which
  the unit tests enumerate the cases.
* The log ring: one slice under one mutex.
* Of the web, the captive-portal probes, which only read, and the middleware that
  keeps no state: origin check, panic recovery, request log.

## Plan

| order | module | models | properties, runs, theorems |
|---|---|---|---|
| done | `SlotState`, `Updater`, `SlotGuarantee` | self-update | refinement and all safety properties proved |
| done | `Mode2Driver`, `Manager`, `Fallback` | connectivity | refinement and all safety properties proved |
| done | `Provisioning` | config.json under concurrent handlers, credential handoff | all safety properties proved |
| done | `Checker` | late feed answers, `available`, `applyMu`, the gates of the tick | all safety properties that hold proved |
| done | `Poller`, `Watchdog` | time, grace, pokes, pets | all properties proved |
| done | `Screen`, `Display` | three sources, two callers, contrast | refinement and all safety properties proved |
| done | `WebAuth` | sessions, buckets, gates | all properties proved |
| done | `Responder` | interfaces, readers, goodbyes | all safety properties proved |
| 1 | `Windows`, `Ring` | pure functions | against reference definitions |

## How to run

Each run of the table is `tlc -config <run>.cfg` with the MC module of its
system (`MCUpdater`, `MCManager`, `MCProvisioning`, `MCPoller`, `MCScreen`,
`MCResponder`, `MCChecker`, `MCWebAuth`); the proofs are `tlapm` on
`UpdaterProofs`, `ManagerProofs`, `ProvisioningProofs`, `PollerProofs`,
`ScreenProofs`, `ResponderProofs`, `CheckerProofs` and `WebAuthProofs`. The longest
run takes about three minutes on two workers.

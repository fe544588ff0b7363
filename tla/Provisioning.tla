----------------------------- MODULE Provisioning -----------------------------
(***************************************************************************)
(* The configuration document and everybody who rewrites it: first-boot    *)
(* setup over the LAN or the hotspot, the settings pages and the JSON API. *)
(* Every request reads, merges and saves the whole document with no lock,  *)
(* while the process restarts and the connectivity manager rereads the     *)
(* WiFi credentials.                                                       *)
(***************************************************************************)
EXTENDS FiniteSets

CONSTANTS
  Requests,   \* each is one POST or PUT, and its own name for what it enters
  None        \* what cannot be read, or has not been

VARIABLES
  file,     \* the document on disk
  req,      \* the requests in flight
  running,  \* the configuration this process booted with
  timer,    \* the delayed calls that are scheduled: Apply, WifiRetryNow
  hotspot,  \* the manager publishes a hotspot
  token,    \* a retry request waits in the manager's channel
  tried     \* the credentials the manager last read

process == <<running, timer>>
manager == <<hotspot, token, tried>>
vars    == <<file, req, process, manager>>

-----------------------------------------------------------------------------
(***************************************************************************)
(* The document. A field holds the request that entered it.                *)
(***************************************************************************)
Carried == {"origin", "look", "ssid"}    \* what ConfigUpdate.Cfg carries
Secret  == {"token", "psk", "hash"}      \* write-only: blank keeps the stored one
Field   == Carried \cup Secret

Value     == Requests \cup {"unset", "factory"}
Document  == [Field -> Value]
Redaction == [Field -> Value \cup {"masked"}]

ASSUME ProvisioningAssumption ==
  /\ Requests \cap {"unset", "masked", "factory"} = {}
  /\ None \notin Redaction

Default == [f \in Field |-> IF f = "look" THEN "factory" ELSE "unset"]

\* LoadRaw with its callers' fallback. The file may fail to parse.
Load(f) == IF f = None THEN Default ELSE f

Redacted(d) ==
  [f \in Field |-> IF f \in Secret /\ d[f] # "unset" THEN "masked" ELSE d[f]]

WifiComplete(d)         == (d["ssid"] = "unset") <=> (d["psk"] = "unset")
Validate(d)             == d["origin"] # "unset" /\ d["token"] # "unset" /\ WifiComplete(d)
ValidateConnectivity(d) == d["hash"] # "unset" /\ WifiComplete(d)

NeedsSetup(f) == Load(f)["hash"] = "unset"
Wifi(f)       == [field \in {"ssid", "psk"} |-> Load(f)[field]]

\* What a process that boots now runs with: the board's fields, or none (E04).
Board(d) == [field \in {"origin", "token", "look"} |-> d[field]]
Boot(f)  == IF Validate(Load(f)) THEN Board(Load(f)) ELSE None

-----------------------------------------------------------------------------
(***************************************************************************)
(* The requests.                                                           *)
(***************************************************************************)
Setup == {"lan", "ap"}
Page  == {"departures", "display", "network", "admin", "api"}
Kind  == Setup \cup Page

\* The fields a form has inputs for. The network page shows the origin only
\* while none is stored.
Own(kind) ==
  CASE kind = "lan"        -> {"origin", "token", "hash"}
    [] kind = "ap"         -> {"ssid", "psk", "hash"}
    [] kind = "departures" -> {"origin"}
    [] kind = "display"    -> {"look"}
    [] kind = "network"    -> {"ssid", "psk", "token", "origin"}
    [] kind = "admin"      -> {"hash"}
    [] kind = "api"        -> Field

\* Mutant: the display page does not restart the board.
ScheduledNotDisplay(kind) ==
  CASE kind = "ap" -> {"retry"} [] kind \in {"admin", "display"} -> {} [] OTHER -> {"apply"}

\* Mutant: a hotspot setup leaves the retry to the manager's own schedule.
ScheduledNoRetry(kind) == IF kind \in {"ap", "admin"} THEN {} ELSE {"apply"}

\* What the handler schedules behind its answer: a hotspot setup hands its
\* credentials to the manager, a new password is live at once, all else
\* takes a restart.
Scheduled(kind) ==
  CASE kind = "ap" -> {"retry"} [] kind = "admin" -> {} [] OTHER -> {"apply"}

Request ==
  [ pc : {"idle", "arrived", "form", "next", "saved", "done"}, kind : Kind,
    draft : Redaction, overtaken : BOOLEAN ]

Idle  == [pc |-> "idle", kind |-> "lan", draft |-> Default, overtaken |-> FALSE]
Ended == [Idle EXCEPT !.pc = "done"]

InFlight(r) == req[r].pc \notin {"idle", "done"}

Init ==
  /\ file \in {None} \cup {d \in [Field -> {"unset", "factory"}] :
                                  d["look"] = "factory" /\ WifiComplete(d)}
  /\ req = [r \in Requests |-> Idle]
  /\ running = Boot(file) /\ timer = {}
  /\ hotspot = FALSE /\ token = FALSE /\ tried = None

Moves(r, pc) == req' = [req EXCEPT ![r].pc = pc]

\* POST /setup passes the gate; its branch follows the hotspot of the moment.
SetupArrives(r) ==
  /\ req[r].pc = "idle"
  /\ NeedsSetup(file)
  /\ req' = [req EXCEPT ![r].pc = "arrived",
                        ![r].kind = IF hotspot THEN "ap" ELSE "lan"]
  /\ UNCHANGED <<file, process, manager>>

\* A save from a page passes the gate and requireAuth: whoever knows the
\* password logs in first.
PageArrives(r) ==
  /\ req[r].pc = "idle"
  /\ ~NeedsSetup(file)
  /\ \E page \in Page : req' = [req EXCEPT ![r].pc = "arrived", ![r].kind = page]
  /\ UNCHANGED <<file, process, manager>>

\* The handler reads the document and puts its own fields over it.
ReadForm(r) ==
  LET read == Redacted(file) IN
  /\ req[r].pc = "arrived" /\ req[r].kind \in Page
  /\ file # None
  /\ \E entered \in SUBSET (Own(req[r].kind) \cap Carried) :
       /\ req[r].kind = "network" /\ "origin" \in entered => read["origin"] = "unset"
       /\ req' = [req EXCEPT ![r].pc = "form",
                    ![r].draft = [f \in Field |-> IF f \in entered THEN r ELSE read[f]]]
  /\ UNCHANGED <<file, process, manager>>

\* Mutant: the submitted config is saved whole, with its redacted secrets.
MergedWhole(stored, form, r, entered) ==
  [f \in Field |-> IF f \in entered THEN r ELSE form[f]]

\* Mutant: a secret left blank is cleared.
MergedBlank(stored, form, r, entered) ==
  [f \in Field |-> IF f \in Carried THEN form[f]
                   ELSE IF f \in entered THEN r ELSE Default[f]]

\* UpdateConfig's merge of a form and the secrets entered over what is stored.
Merged(stored, form, r, entered) ==
  [f \in Field |-> IF f \in Carried THEN form[f]
                   ELSE IF f \in entered THEN r ELSE stored[f]]

\* UpdateConfig reads the document again and merges.
UpdateConfig(r) ==
  /\ req[r].pc = "form"
  /\ file # None
  /\ \E entered \in SUBSET (Own(req[r].kind) \cap Secret) :
       LET next == Merged(file, req[r].draft, r, entered) IN
       /\ Validate(next)
       /\ req' = [req EXCEPT ![r].pc = "next", ![r].draft = next]
  /\ UNCHANGED <<file, process, manager>>

\* SetInitialPassword up to the save; a blank token keeps the stored one.
SetInitialPassword(r) ==
  LET cur == Load(file) IN
  /\ req[r].pc = "arrived" /\ req[r].kind = "lan"
  /\ cur["hash"] = "unset"
  /\ \E entered \in {{"hash", "origin"}, {"hash", "origin", "token"}} :
       LET next == [f \in Field |-> IF f \in entered THEN r ELSE cur[f]] IN
       /\ Validate(next)
       /\ req' = [req EXCEPT ![r].pc = "next", ![r].draft = next]
  /\ UNCHANGED <<file, process, manager>>

\* SetupConnectivity up to the save.
SetupConnectivity(r) ==
  LET cur  == Load(file)
      next == [f \in Field |-> IF f \in {"hash", "ssid", "psk"} THEN r ELSE cur[f]]
  IN
  /\ req[r].pc = "arrived" /\ req[r].kind = "ap"
  /\ cur["hash"] = "unset"
  /\ ValidateConnectivity(next)
  /\ req' = [req EXCEPT ![r].pc = "next", ![r].draft = next]
  /\ UNCHANGED <<file, process, manager>>

\* The rename: a hash of a second or so after the read, whoever saved since.
Save(r) ==
  /\ req[r].pc = "next"
  /\ file' = req[r].draft
  /\ req' = [q \in Requests |->
               IF q = r THEN [Idle EXCEPT !.pc = "saved", !.kind = req[r].kind]
               ELSE IF req[q].pc \in {"form", "next"}
                    THEN [req[q] EXCEPT !.overtaken = TRUE] ELSE req[q]]
  /\ UNCHANGED <<process, manager>>

\* The answer, and what is scheduled behind it.
Answer(r) ==
  /\ req[r].pc = "saved"
  /\ req' = [req EXCEPT ![r] = Ended]
  /\ timer' = timer \cup Scheduled(req[r].kind)
  /\ UNCHANGED <<file, running, manager>>

\* Another guard of the handlers, or a failing hash or write.
Refuse(r) ==
  /\ req[r].pc \in {"arrived", "form", "next"}
  /\ req' = [req EXCEPT ![r] = Ended]
  /\ UNCHANGED <<file, process, manager>>

-----------------------------------------------------------------------------
(***************************************************************************)
(* The process and the connectivity manager.                               *)
(***************************************************************************)
\* Every restart of the process, Apply or not: what is in memory is gone.
Restart ==
  /\ req' = [r \in Requests |-> IF InFlight(r) THEN Ended ELSE req[r]]
  /\ running' = Boot(file) /\ timer' = {}
  /\ hotspot' = FALSE /\ token' = FALSE /\ tried' = None
  /\ UNCHANGED file

Apply == "apply" \in timer /\ Restart

WifiRetryNow ==
  /\ "retry" \in timer
  /\ timer' = timer \ {"retry"} /\ token' = TRUE
  /\ UNCHANGED <<file, req, running, hotspot, tried>>

\* An attempt reads the stored credentials; the hotspot is down meanwhile.
\* Only the wait behind the hotspot takes a token.
Attempt ==
  /\ tried' = Wifi(file)
  /\ hotspot' = FALSE
  /\ token' \in IF hotspot THEN {token, FALSE} ELSE {token}
  /\ UNCHANGED <<file, req, process>>

\* The attempt failed: back to a verified hotspot.
FallBack ==
  /\ tried # None /\ ~hotspot
  /\ hotspot' = TRUE
  /\ UNCHANGED <<file, req, process, token, tried>>

\* What makes the manager attempt at once: its own boot, or a token.
Prompted == tried = None \/ (hotspot /\ token)

-----------------------------------------------------------------------------
Handle(r) ==
  \/ ReadForm(r) \/ UpdateConfig(r) \/ SetInitialPassword(r)
  \/ SetupConnectivity(r) \/ Save(r) \/ Answer(r) \/ Refuse(r)

Next ==
  \/ \E r \in Requests : SetupArrives(r) \/ PageArrives(r) \/ Handle(r)
  \/ Restart \/ WifiRetryNow \/ Attempt \/ FallBack

Spec == Init /\ [][Next]_vars

(***************************************************************************)
(* A handler runs to its end, a delayed call is made, and the manager does *)
(* what it is prompted to. Nobody has to restart or send a form.           *)
(***************************************************************************)
FairSpec ==
  /\ Spec
  /\ \A r \in Requests : WF_vars(Handle(r))
  /\ WF_vars(Apply) /\ WF_vars(WifiRetryNow)
  /\ WF_vars(Prompted /\ Attempt)

-----------------------------------------------------------------------------
(***************************************************************************)
(* Properties.                                                             *)
(***************************************************************************)
TypeOK ==
  /\ file \in {None} \cup Document
  /\ req \in [Requests -> Request]
  /\ running \in {None} \cup [{"origin", "token", "look"} -> Value]
  /\ timer \subseteq {"apply", "retry"}
  /\ hotspot \in BOOLEAN /\ token \in BOOLEAN
  /\ tried \in {None} \cup [{"ssid", "psk"} -> Value]

\* A password somebody can log in with.
CanLogIn(f) == Load(f)["hash"] \in Requests \cup {"factory"}

\* However saves overlap, and through every restart, a device that has been
\* set up never loses its admin password: /setup does not open again.
SetUpForGood == [][CanLogIn(file) => CanLogIn(file')]_vars

\* The process runs the board that is on disk, or is about to restart:
\* neither a new password nor a hotspot setup, which do not restart it,
\* ever saves a board the process is not running.
NothingStale ==
  \/ running = Boot(file)
  \/ "apply" \in timer
  \/ \E r \in Requests : req[r].pc = "saved" /\ "apply" \in Scheduled(req[r].kind)

\* The stored document changes outside the slice of the request that saves.
OutsideOwnSlice(r) ==
  \E f \in Field \ Own(req[r].kind) : Load(file')[f] # Load(file)[f]

Saves(r) == req[r].pc = "next" /\ req'[r].pc = "saved"

\* What each save persists of a field it has no input for is what is stored,
\* secrets behind the redacted copy included, unless another request saved
\* since it first read the document.
OwnSliceUnlessOvertaken ==
  [][\A r \in Requests : Saves(r) /\ OutsideOwnSlice(r) => req[r].overtaken]_vars

\* Credentials that were saved are tried: a hotspot is not served for ever
\* over credentials the manager has not read.
HandedOff == hotspot /\ tried # Wifi(file) ~> tried = Wifi(file) \/ ~hotspot

=============================================================================

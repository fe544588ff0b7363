-------------------------- MODULE ProvisioningProofs --------------------------
(***************************************************************************)
(* Proofs about Provisioning, for every set of requests.                   *)
(***************************************************************************)
EXTENDS Provisioning, TLAPS

(***************************************************************************)
(* The inductive invariant. What a request has read is either what is      *)
(* stored still, or it has been overtaken; and while no restart is on its  *)
(* way, whoever will not cause one has the board as it is stored.          *)
(***************************************************************************)
Pending ==
  \/ "apply" \in timer
  \/ \E r \in Requests : req[r].pc = "saved" /\ "apply" \in Scheduled(req[r].kind)

DraftSound(r) ==
  /\ req[r].pc = "form" =>
       req[r].kind \in Page /\ \A f \in Carried : req[r].draft[f] \in Value
  /\ req[r].pc = "next" =>
       /\ req[r].draft \in Document
       /\ req[r].draft["hash"] # "unset" /\ WifiComplete(req[r].draft)

PageHasPassword(r) ==
  req[r].kind \in Page /\ req[r].pc \in {"arrived", "form"} => ~NeedsSetup(file)

Fresh(r) ==
  ~req[r].overtaken =>
    /\ req[r].pc = "form" =>
         \A f \in Carried \ Own(req[r].kind) : req[r].draft[f] = Load(file)[f]
    /\ req[r].pc = "next" =>
         \A f \in Field \ Own(req[r].kind) : req[r].draft[f] = Load(file)[f]

Calm(r) ==
  ~Pending /\ req[r].kind \in {"admin", "ap"} =>
    /\ req[r].pc = "form" =>
         /\ req[r].draft["origin"] = Load(file)["origin"]
         /\ req[r].draft["look"] = Load(file)["look"]
    /\ req[r].pc = "next" => Board(req[r].draft) = Board(Load(file))

IInv ==
  /\ TypeOK
  /\ file # None => WifiComplete(file)
  /\ ~Pending => running = Boot(file)
  /\ \A r \in Requests : DraftSound(r) /\ PageHasPassword(r) /\ Fresh(r) /\ Calm(r)

(***************************************************************************)
(* The data.                                                               *)
(***************************************************************************)
LEMMA DefaultIsDocument == Default \in Document
BY DEF Default, Document, Field, Carried, Secret, Value

LEMMA LoadIsDocument ==
  ASSUME TypeOK PROVE Load(file) \in Document
BY DefaultIsDocument DEF TypeOK, Load

LEMMA NoDocumentIsNone ==
  ASSUME NEW d \in Document PROVE d # None /\ Load(d) = d
<1>1. d \in Redaction
  BY DEF Document, Redaction
<1> QED BY <1>1, ProvisioningAssumption DEF Load

LEMMA LoadedWifi ==
  ASSUME file # None => WifiComplete(file) PROVE WifiComplete(Load(file))
BY DEF Load, Default, WifiComplete, Field, Carried, Secret

LEMMA BoardFields ==
  ASSUME NEW d, NEW e, Board(d) = Board(e)
  PROVE  d["origin"] = e["origin"] /\ d["token"] = e["token"] /\ d["look"] = e["look"]
<1>1. \A c : /\ Board(c)["origin"] = c["origin"] /\ Board(c)["token"] = c["token"]
             /\ Board(c)["look"] = c["look"]
  BY DEF Board
<1> QED BY <1>1

\* With complete credentials, the board decides what a process boots with.
LEMMA SameBoardSameBoot ==
  ASSUME NEW f, NEW g, WifiComplete(Load(f)), WifiComplete(Load(g)),
         Board(Load(f)) = Board(Load(g))
  PROVE  Boot(f) = Boot(g)
<1>1. Load(f)["origin"] = Load(g)["origin"] /\ Load(f)["token"] = Load(g)["token"]
  BY BoardFields
<1> QED BY <1>1 DEF Boot, Validate

LEMMA BootType ==
  ASSUME TypeOK PROVE Boot(file) \in {None} \cup [{"origin", "token", "look"} -> Value]
<1>1. Load(file) \in [Field -> Value]
  BY LoadIsDocument DEF Document
<1>2. Board(Load(file)) \in [{"origin", "token", "look"} -> Value]
  BY <1>1 DEF Board, Field, Carried, Secret
<1> QED BY <1>2 DEF Boot

LEMMA RedactedType ==
  ASSUME NEW d \in Document
  PROVE  /\ Redacted(d) \in Redaction
         /\ \A f \in Carried : Redacted(d)[f] = d[f] /\ d[f] \in Value
BY DEF Redacted, Redaction, Document, Field, Carried, Secret, Value, ProvisioningAssumption

(***************************************************************************)
(* The initial states.                                                     *)
(***************************************************************************)
LEMMA InitIInv == Init => IInv
<1> SUFFICES ASSUME Init PROVE IInv
  OBVIOUS
<1> USE DEF Init
<1>1. file \in {None} \cup Document
  BY DEF Document, Value
<1>2. req \in [Requests -> Request]
  <2>1. Idle \in Request
    BY DefaultIsDocument DEF Idle, Request, Kind, Setup, Redaction, Document
  <2> QED BY <2>1
<1>3. TypeOK
  <2>1. file \in {None} \cup Document /\ timer = {} /\ hotspot \in BOOLEAN /\ token \in BOOLEAN
    BY <1>1
  <2>2. Load(file) \in [Field -> Value]
    BY <1>1, DefaultIsDocument DEF Load, Document
  <2>3. running \in {None} \cup [{"origin", "token", "look"} -> Value]
    BY <2>2 DEF Boot, Board, Field, Carried, Secret
  <2> QED BY <1>2, <2>1, <2>3 DEF TypeOK
<1>4. file # None => WifiComplete(file)
  OBVIOUS
<1>5. \A r \in Requests : DraftSound(r) /\ PageHasPassword(r) /\ Fresh(r) /\ Calm(r)
  BY DEF DraftSound, PageHasPassword, Fresh, Calm, Idle, Page
<1> QED BY <1>3, <1>4, <1>5 DEF IInv

(***************************************************************************)
(* A request moves on and nothing else changes but the schedule.           *)
(***************************************************************************)
LEMMA OneMoves ==
  ASSUME IInv, NEW r \in Requests, NEW s \in Request, req' = [req EXCEPT ![r] = s],
         UNCHANGED <<file, running, manager>>,
         timer \subseteq timer', timer' \subseteq {"apply", "retry"},
         req[r].pc = "saved" /\ "apply" \in Scheduled(req[r].kind) => "apply" \in timer',
         DraftSound(r)', PageHasPassword(r)', Fresh(r)', Calm(r)'
  PROVE  IInv'
<1>1. TypeOK'
  BY DEF IInv, TypeOK, manager
<1>2. Pending => Pending'
  BY DEF IInv, TypeOK, Pending
<1>3. ASSUME NEW q \in Requests, q # r
      PROVE  DraftSound(q)' /\ PageHasPassword(q)' /\ Fresh(q)' /\ Calm(q)'
  <2>1. req'[q] = req[q]
    BY <1>3 DEF IInv, TypeOK
  <2>2. DraftSound(q)'
    BY <2>1 DEF IInv, DraftSound
  <2>3. PageHasPassword(q)'
    BY <2>1 DEF IInv, PageHasPassword
  <2>4. Fresh(q)'
    BY <2>1 DEF IInv, Fresh
  <2>5. Calm(q)'
    BY <2>1, <1>2 DEF IInv, Calm
  <2> QED BY <2>2, <2>3, <2>4, <2>5
<1>4. ~Pending' => running' = Boot(file')
  BY <1>2 DEF IInv
<1>5. file' # None => WifiComplete(file')
  BY DEF IInv
<1> QED BY <1>1, <1>3, <1>4, <1>5 DEF IInv

\* The draft of a page that has just read the document.
LEMMA ReadFormIInv ==
  ASSUME IInv, NEW r \in Requests, ReadForm(r)
  PROVE  IInv'
<1> DEFINE read == Redacted(file)
<1>1. PICK entered \in SUBSET (Own(req[r].kind) \cap Carried) :
        req' = [req EXCEPT ![r].pc = "form",
                  ![r].draft = [f \in Field |-> IF f \in entered THEN r ELSE read[f]]]
  BY DEF ReadForm
<1> DEFINE draft == [f \in Field |-> IF f \in entered THEN r ELSE read[f]]
           s     == [req[r] EXCEPT !.pc = "form", !.draft = draft]
<1>2. file # None /\ file \in Document /\ Load(file) = file
  BY DEF ReadForm, IInv, TypeOK, Load
<1>3. /\ read \in Redaction
      /\ \A f \in Carried : read[f] = file[f] /\ read[f] \in Value
  BY <1>2, RedactedType
<1>4. draft \in Redaction /\ \A f \in Carried : draft[f] \in Value
  BY <1>3 DEF Redaction, Value, Field
<1>5. req[r] \in Request /\ req[r].pc = "arrived" /\ req[r].kind \in Page
  BY DEF ReadForm, IInv, TypeOK
<1>6. s \in Request
  BY <1>4, <1>5 DEF Request
<1>7. req' = [req EXCEPT ![r] = s]
  BY <1>1, <1>5 DEF IInv, TypeOK, Request
<1>8. req'[r] = s
  BY <1>7 DEF IInv, TypeOK
<1>9. s.pc = "form" /\ s.kind = req[r].kind /\ s.draft = draft
  BY <1>5 DEF Request
<1>10. UNCHANGED <<file, running, timer, manager>>
  BY DEF ReadForm, process
<1>11. \A f \in Carried \ Own(req[r].kind) : draft[f] = Load(file)[f]
  BY <1>1, <1>2, <1>3 DEF Field
<1>12. DraftSound(r)'
  BY <1>4, <1>5, <1>8, <1>9 DEF DraftSound
<1>13. PageHasPassword(r)'
  BY <1>5, <1>8, <1>9, <1>10 DEF PageHasPassword, IInv
<1>14. Fresh(r)'
  BY <1>8, <1>9, <1>10, <1>11 DEF Fresh
<1>15. Calm(r)'
  <2>1. SUFFICES ASSUME req[r].kind = "admin"
                 PROVE  draft["origin"] = Load(file)["origin"] /\ draft["look"] = Load(file)["look"]
    BY <1>5, <1>8, <1>9, <1>10 DEF Calm, Page
  <2>2. Own(req[r].kind) = {"hash"}
    BY <2>1 DEF Own
  <2> QED BY <2>2, <1>11 DEF Carried
<1> QED BY <1>5, <1>6, <1>7, <1>10, <1>12, <1>13, <1>14, <1>15, OneMoves DEF IInv, TypeOK

\* Boards that agree field by field.
LEMMA SameBoard ==
  ASSUME NEW d, NEW e, d["origin"] = e["origin"], d["token"] = e["token"], d["look"] = e["look"]
  PROVE  Board(d) = Board(e)
BY DEF Board

\* A request that becomes ready to save a sound draft.
LEMMA BecomesReady ==
  ASSUME IInv, NEW r \in Requests, NEW draft \in Document, req[r].pc \in {"arrived", "form"},
         req' = [req EXCEPT ![r].pc = "next", ![r].draft = draft],
         UNCHANGED <<file, process, manager>>,
         draft["hash"] # "unset", WifiComplete(draft),
         ~req[r].overtaken =>
           \A f \in Field \ Own(req[r].kind) : draft[f] = Load(file)[f],
         ~Pending /\ req[r].kind \in {"admin", "ap"} => Board(draft) = Board(Load(file))
  PROVE  IInv'
<1> DEFINE s == [req[r] EXCEPT !.pc = "next", !.draft = draft]
<1>1. req[r] \in Request
  BY DEF IInv, TypeOK
<1>2. draft \in Redaction
  BY DEF Document, Redaction
<1>3. s \in Request
  BY <1>1, <1>2 DEF Request
<1>4. req' = [req EXCEPT ![r] = s]
  BY <1>1 DEF IInv, TypeOK, Request
<1>5. req'[r] = s
  BY <1>4 DEF IInv, TypeOK
<1>6. s.pc = "next" /\ s.kind = req[r].kind /\ s.draft = draft /\ s.overtaken = req[r].overtaken
  BY <1>1 DEF Request
<1>7. UNCHANGED <<file, running, timer, manager>>
  BY DEF process
<1>8. Pending' <=> Pending
  <2>1. \A q \in Requests : q # r => req'[q] = req[q]
    BY <1>4 DEF IInv, TypeOK
  <2> QED BY <2>1, <1>5, <1>6, <1>7 DEF Pending
<1>9. DraftSound(r)' /\ PageHasPassword(r)'
  BY <1>5, <1>6 DEF DraftSound, PageHasPassword
<1>10. Fresh(r)'
  <2>1. /\ req'[r].draft = draft /\ req'[r].kind = req[r].kind
        /\ req'[r].overtaken = req[r].overtaken /\ req'[r].pc = "next"
        /\ file' = file
    BY <1>5, <1>6, <1>7
  <2> HIDE DEF s
  <2>2. ASSUME ~req[r].overtaken, NEW f \in Field \ Own(req[r].kind)
        PROVE  draft[f] = Load(file)[f]
    BY <2>2
  <2> QED BY <2>1, <2>2 DEF Fresh
<1>11. Calm(r)'
  BY <1>5, <1>6, <1>7, <1>8 DEF Calm
<1> QED BY <1>3, <1>4, <1>7, <1>9, <1>10, <1>11, OneMoves DEF IInv, TypeOK

LEMMA UpdateConfigIInv ==
  ASSUME IInv, NEW r \in Requests, UpdateConfig(r)
  PROVE  IInv'
<1>1. PICK entered \in SUBSET (Own(req[r].kind) \cap Secret) :
        /\ Validate(Merged(file, req[r].draft, r, entered))
        /\ req' = [req EXCEPT ![r].pc = "next",
                              ![r].draft = Merged(file, req[r].draft, r, entered)]
  BY DEF UpdateConfig
<1> DEFINE form == req[r].draft
           next == Merged(file, form, r, entered)
<1>2. req[r].pc = "form" /\ file # None /\ file \in Document /\ Load(file) = file
  BY DEF UpdateConfig, IInv, TypeOK, Load
<1>3. \A f \in Carried : next[f] = form[f]
  BY DEF Merged, Field
<1>4. \A f \in Secret : next[f] = IF f \in entered THEN r ELSE file[f]
  BY DEF Merged, Field, Carried, Secret
<1>5. req[r].kind \in Page /\ \A f \in Carried : form[f] \in Value
  BY <1>2 DEF IInv, DraftSound
<1>6. next \in Document
  BY <1>2, <1>5 DEF Merged, Document, Field, Value
<1>7. next["hash"] # "unset"
  <2>1. file["hash"] # "unset"
    BY <1>2, <1>5 DEF IInv, PageHasPassword, NeedsSetup
  <2>2. r # "unset"
    BY ProvisioningAssumption
  <2> QED BY <2>1, <2>2, <1>4 DEF Secret
<1>8. WifiComplete(next)
  BY <1>1 DEF Validate
<1>9. ASSUME ~req[r].overtaken, NEW f \in Field \ Own(req[r].kind)
      PROVE  next[f] = Load(file)[f]
  <2>1. CASE f \in Carried
    BY <2>1, <1>9, <1>2, <1>3 DEF IInv, Fresh
  <2>2. CASE f \in Secret
    BY <2>2, <1>9, <1>2, <1>4
  <2> QED BY <2>1, <2>2 DEF Field
<1>10. ASSUME ~Pending, req[r].kind \in {"admin", "ap"}
       PROVE  Board(next) = Board(Load(file))
  <2>1. req[r].kind = "admin"
    BY <1>5, <1>10 DEF Page
  <2>2. Own(req[r].kind) = {"hash"}
    BY <2>1 DEF Own
  <2>3. form["origin"] = file["origin"] /\ form["look"] = file["look"]
    BY <1>2, <1>10 DEF IInv, Calm
  <2>4. next["token"] = file["token"]
    BY <1>4, <2>2 DEF Secret
  <2> QED BY <1>2, <1>3, <2>3, <2>4, SameBoard DEF Carried
<1> QED BY <1>1, <1>2, <1>6, <1>7, <1>8, <1>9, <1>10, BecomesReady DEF UpdateConfig

LEMMA SetInitialPasswordIInv ==
  ASSUME IInv, NEW r \in Requests, SetInitialPassword(r)
  PROVE  IInv'
<1> DEFINE cur == Load(file)
           Next_(entered) == [f \in Field |-> IF f \in entered THEN r ELSE cur[f]]
<1>1. PICK entered \in {{"hash", "origin"}, {"hash", "origin", "token"}} :
        /\ Validate(Next_(entered))
        /\ req' = [req EXCEPT ![r].pc = "next", ![r].draft = Next_(entered)]
  BY DEF SetInitialPassword
<1> DEFINE next == Next_(entered)
<1>2. req[r].pc = "arrived" /\ req[r].kind = "lan"
  BY DEF SetInitialPassword
<1>3. cur \in Document
  BY LoadIsDocument DEF IInv
<1>4. next \in Document
  BY <1>3 DEF Document, Value
<1>5. next["hash"] # "unset"
  BY <1>1, ProvisioningAssumption DEF Field, Secret
<1>6. WifiComplete(next)
  BY <1>1 DEF Validate
<1>7. \A f \in Field \ Own(req[r].kind) : next[f] = cur[f]
  BY <1>1, <1>2 DEF Own
<1> HIDE DEF next
<1>8. req' = [req EXCEPT ![r].pc = "next", ![r].draft = next]
  BY <1>1 DEF next
<1> QED BY <1>2, <1>4, <1>5, <1>6, <1>7, <1>8, BecomesReady DEF SetInitialPassword

LEMMA SetupConnectivityIInv ==
  ASSUME IInv, NEW r \in Requests, SetupConnectivity(r)
  PROVE  IInv'
<1> DEFINE cur  == Load(file)
           next == [f \in Field |-> IF f \in {"hash", "ssid", "psk"} THEN r ELSE cur[f]]
<1>1. /\ req[r].pc = "arrived" /\ req[r].kind = "ap"
      /\ ValidateConnectivity(next)
      /\ req' = [req EXCEPT ![r].pc = "next", ![r].draft = next]
      /\ UNCHANGED <<file, process, manager>>
  BY DEF SetupConnectivity
<1>2. next \in Document
  BY LoadIsDocument DEF IInv, Document, Value
<1>3. next["hash"] # "unset" /\ WifiComplete(next)
  BY <1>1 DEF ValidateConnectivity
<1>4. \A f \in Field \ Own(req[r].kind) : next[f] = cur[f]
  BY <1>1 DEF Own
<1>5. Board(next) = Board(cur)
  BY SameBoard DEF Field, Carried, Secret
<1> HIDE DEF next
<1> QED BY <1>1, <1>2, <1>3, <1>4, <1>5, BecomesReady

\* Arrivals read nothing; what has ended has no draft.
LEMMA OthersIInv ==
  ASSUME IInv, NEW r \in Requests,
         SetupArrives(r) \/ PageArrives(r) \/ Answer(r) \/ Refuse(r)
  PROVE  IInv'
<1>1. PICK s \in Request :
        /\ s.pc \in {"arrived", "done"} /\ req' = [req EXCEPT ![r] = s]
        /\ s.kind \in Page /\ s.pc = "arrived" => ~NeedsSetup(file)
  <2>1. req[r] \in Request
    BY DEF IInv, TypeOK
  <2>2. CASE SetupArrives(r)
    <3> DEFINE s == [req[r] EXCEPT !.pc = "arrived", !.kind = IF hotspot THEN "ap" ELSE "lan"]
    <3>1. s \in Request /\ s.pc = "arrived" /\ s.kind \notin Page
      BY <2>1 DEF Request, Kind, Setup, Page
    <3>2. req' = [req EXCEPT ![r] = s]
      BY <2>1, <2>2 DEF SetupArrives, IInv, TypeOK, Request
    <3> QED BY <3>1, <3>2
  <2>3. CASE PageArrives(r)
    <3>1. PICK page \in Page :
            req' = [req EXCEPT ![r].pc = "arrived", ![r].kind = page]
      BY <2>3 DEF PageArrives
    <3> DEFINE s == [req[r] EXCEPT !.pc = "arrived", !.kind = page]
    <3>2. s \in Request /\ s.pc = "arrived" /\ ~NeedsSetup(file)
      BY <2>1, <2>3 DEF PageArrives, Request, Kind
    <3>3. req' = [req EXCEPT ![r] = s]
      BY <2>1, <3>1 DEF IInv, TypeOK, Request
    <3> QED BY <3>2, <3>3
  <2>4. CASE Answer(r) \/ Refuse(r)
    <3>1. Ended \in Request /\ Ended.pc = "done"
      BY DefaultIsDocument DEF Ended, Idle, Request, Kind, Setup, Redaction, Document
    <3> QED BY <2>4, <3>1 DEF Answer, Refuse
  <2> QED BY <2>2, <2>3, <2>4
<1>2. req'[r] = s
  BY <1>1 DEF IInv, TypeOK
<1>3. /\ UNCHANGED <<file, running, manager>> /\ timer \subseteq timer'
      /\ timer' \subseteq {"apply", "retry"}
      /\ req[r].pc = "saved" /\ "apply" \in Scheduled(req[r].kind) => "apply" \in timer'
  BY DEF SetupArrives, PageArrives, Answer, Refuse, process, Scheduled, IInv, TypeOK
<1>4. DraftSound(r)' /\ Fresh(r)' /\ Calm(r)'
  BY <1>1, <1>2 DEF DraftSound, Fresh, Calm
<1>5. PageHasPassword(r)'
  BY <1>1, <1>2, <1>3 DEF PageHasPassword
<1> QED BY <1>1, <1>3, <1>4, <1>5, OneMoves

\* What a save leaves behind: a sound document, and every draft that was
\* read before it overtaken.
LEMMA SaveFacts ==
  ASSUME IInv, NEW r \in Requests, Save(r)
  PROVE  /\ file' = req[r].draft /\ file' \in Document /\ file' # None /\ Load(file') = file'
         /\ file'["hash"] # "unset" /\ WifiComplete(file')
         /\ req'[r] = [Idle EXCEPT !.pc = "saved", !.kind = req[r].kind]
         /\ \A q \in Requests : q # r =>
              /\ req'[q].pc = req[q].pc /\ req'[q].kind = req[q].kind
              /\ req'[q].draft = req[q].draft
              /\ req[q].pc \in {"form", "next"} => req'[q].overtaken
<1>1. file' = req[r].draft /\ file' \in Document
      /\ file'["hash"] # "unset" /\ WifiComplete(file')
  BY DEF Save, IInv, DraftSound
<1>2. file' # None /\ Load(file') = file'
  BY <1>1, NoDocumentIsNone
<1>3. ASSUME NEW q \in Requests, q # r
      PROVE  /\ req'[q].pc = req[q].pc /\ req'[q].kind = req[q].kind
             /\ req'[q].draft = req[q].draft
             /\ req[q].pc \in {"form", "next"} => req'[q].overtaken
  <2>1. req'[q] = IF req[q].pc \in {"form", "next"}
                  THEN [req[q] EXCEPT !.overtaken = TRUE] ELSE req[q]
    BY <1>3 DEF Save
  <2>2. req[q] \in Request
    BY DEF IInv, TypeOK
  <2> QED BY <2>1, <2>2 DEF Request
<1>4. req'[r] = [Idle EXCEPT !.pc = "saved", !.kind = req[r].kind]
  BY DEF Save
<1> QED BY <1>1, <1>2, <1>3, <1>4

LEMMA SaveIInv ==
  ASSUME IInv, NEW r \in Requests, Save(r)
  PROVE  IInv'
<1> DEFINE saved == [Idle EXCEPT !.pc = "saved", !.kind = req[r].kind]
<1>1. UNCHANGED <<running, timer, hotspot, token, tried>>
  BY DEF Save, process, manager
<1>2. saved \in Request /\ saved.pc = "saved" /\ saved.kind = req[r].kind
  BY DefaultIsDocument DEF Idle, Request, Redaction, Document, IInv, TypeOK
<1>3. req' \in [Requests -> Request]
  <2>1. \A q \in Requests : [req[q] EXCEPT !.overtaken = TRUE] \in Request
    BY DEF IInv, TypeOK, Request
  <2> QED BY <1>2, <2>1 DEF Save, IInv, TypeOK
<1>4. TypeOK'
  BY <1>1, <1>3, SaveFacts DEF IInv, TypeOK
<1>5. Pending => Pending'
  <2>1. CASE "apply" \in timer
    BY <2>1, <1>1 DEF Pending
  <2>2. ASSUME NEW q \in Requests, req[q].pc = "saved", "apply" \in Scheduled(req[q].kind)
        PROVE  Pending'
    <3>1. q # r
      BY <2>2 DEF Save
    <3> QED BY <2>2, <3>1, SaveFacts DEF Pending
  <2> QED BY <2>1, <2>2 DEF Pending
\* A save that will not be followed by a restart leaves the board alone.
<1>6. ASSUME ~Pending' PROVE ~Pending /\ Board(file') = Board(Load(file))
  <2>1. req[r].kind \in {"admin", "ap"}
    <3>1. "apply" \notin Scheduled(req[r].kind)
      BY <1>2, <1>6, SaveFacts DEF Pending
    <3> QED BY <3>1 DEF Scheduled
  <2> QED BY <1>5, <1>6, <2>1, SaveFacts DEF IInv, Calm, Save
<1>7. ~Pending' => running' = Boot(file')
  <2>1. SUFFICES ASSUME ~Pending' PROVE Boot(file') = Boot(file)
    BY <1>1, <1>5 DEF IInv
  <2>2. WifiComplete(Load(file)) /\ WifiComplete(Load(file'))
    BY LoadedWifi, SaveFacts DEF IInv
  <2>3. Board(Load(file')) = Board(Load(file))
    BY <1>6, <2>1, SaveFacts
  <2> QED BY <2>2, <2>3, SameBoardSameBoot
<1>8. ASSUME NEW q \in Requests
      PROVE  DraftSound(q)' /\ PageHasPassword(q)' /\ Fresh(q)' /\ Calm(q)'
  <2>1. CASE q = r
    BY <2>1, <1>2, SaveFacts DEF DraftSound, PageHasPassword, Fresh, Calm
  <2>2. CASE q # r
    <3>1. DraftSound(q)'
      BY <2>2, SaveFacts DEF DraftSound, IInv
    <3>2. PageHasPassword(q)'
      BY SaveFacts DEF PageHasPassword, NeedsSetup
    <3>3. Fresh(q)'
      BY <2>2, SaveFacts DEF Fresh
    <3>4. Calm(q)'
      <4>1. SUFFICES ASSUME ~Pending' PROVE Calm(q)'
        BY DEF Calm
      <4>2. /\ Load(file')["origin"] = Load(file)["origin"]
            /\ Load(file')["look"] = Load(file)["look"]
        <5>1. Load(file') = file' /\ Board(file') = Board(Load(file))
          BY <1>6, <4>1, SaveFacts
        <5> QED BY <5>1, BoardFields
      <4> QED BY <2>2, <1>6, <4>1, <4>2, SaveFacts DEF Calm, IInv
    <3> QED BY <3>1, <3>2, <3>3, <3>4
  <2> QED BY <2>1, <2>2
<1> QED BY <1>4, <1>7, <1>8, SaveFacts DEF IInv

LEMMA RestartIInv ==
  ASSUME IInv, Restart
  PROVE  IInv'
<1>1. Ended \in Request /\ Ended.pc = "done"
  BY DefaultIsDocument DEF Ended, Idle, Request, Kind, Setup, Redaction, Document
<1>2. req' \in [Requests -> Request] /\ \A q \in Requests : req'[q].pc \in {"idle", "done"}
  BY <1>1 DEF Restart, InFlight, IInv, TypeOK
<1>3. TypeOK'
  BY <1>2, BootType DEF Restart, IInv, TypeOK
<1>4. \A q \in Requests : DraftSound(q)' /\ PageHasPassword(q)' /\ Fresh(q)' /\ Calm(q)'
  BY <1>2 DEF DraftSound, PageHasPassword, Fresh, Calm
<1> QED BY <1>3, <1>4 DEF IInv, Restart

\* The manager and the retry timer touch neither document nor requests.
LEMMA ManagerIInv ==
  ASSUME IInv, WifiRetryNow \/ Attempt \/ FallBack \/ UNCHANGED vars
  PROVE  IInv'
<1>1. UNCHANGED <<file, req, running>> /\ ("apply" \in timer' <=> "apply" \in timer)
  BY DEF WifiRetryNow, Attempt, FallBack, process, vars
<1>2. Wifi(file) \in [{"ssid", "psk"} -> Value]
  BY LoadIsDocument DEF IInv, Wifi, Document, Field, Carried, Secret
<1>3. TypeOK'
  BY <1>1, <1>2 DEF WifiRetryNow, Attempt, FallBack, process, manager, vars, IInv, TypeOK
<1>4. Pending' <=> Pending
  BY <1>1 DEF Pending
<1>5. ASSUME NEW q \in Requests
      PROVE  DraftSound(q)' /\ PageHasPassword(q)' /\ Fresh(q)' /\ Calm(q)'
  BY <1>1, <1>4 DEF IInv, DraftSound, PageHasPassword, Fresh, Calm
<1> QED BY <1>1, <1>3, <1>4, <1>5 DEF IInv

LEMMA NextIInv == IInv /\ [Next]_vars => IInv'
<1> SUFFICES ASSUME IInv, [Next]_vars PROVE IInv'
  OBVIOUS
<1>1. ASSUME NEW r \in Requests, SetupArrives(r) \/ PageArrives(r) \/ Handle(r)
      PROVE  IInv'
  BY <1>1, OthersIInv, ReadFormIInv, UpdateConfigIInv, SetInitialPasswordIInv,
     SetupConnectivityIInv, SaveIInv DEF Handle
<1>2. CASE Restart
  BY <1>2, RestartIInv
<1>3. CASE WifiRetryNow \/ Attempt \/ FallBack \/ UNCHANGED vars
  BY <1>3, ManagerIInv
<1> QED BY <1>1, <1>2, <1>3 DEF Next

THEOREM Invariance == Spec => []IInv
BY InitIInv, NextIInv, PTL DEF Spec

-----------------------------------------------------------------------------
(***************************************************************************)
(* The theorems.                                                           *)
(***************************************************************************)
\* Type correctness: no redacted value ever reaches the disk.
THEOREM TypeCorrect == Spec => []TypeOK
<1>1. IInv => TypeOK
  BY DEF IInv
<1> QED BY <1>1, Invariance, PTL

\* The process runs the board on disk or is about to restart, however many
\* saves, passwords and hotspot setups overlap (handlers_config.go:371).
THEOREM BoardIsNeverStale == Spec => []NothingStale
<1>1. IInv => NothingStale
  BY DEF IInv, Pending, NothingStale
<1> QED BY <1>1, Invariance, PTL

\* A device that has been set up keeps an admin password for good.
THEOREM SetUpOnceAndForAll == Spec => SetUpForGood
<1>1. IInv /\ [Next]_vars => (CanLogIn(file) => CanLogIn(file'))
  <2> SUFFICES ASSUME IInv, [Next]_vars, CanLogIn(file), file' # file PROVE CanLogIn(file')
    OBVIOUS
  <2>1. PICK r \in Requests : Save(r)
    BY DEF Next, Handle, SetupArrives, PageArrives, ReadForm, UpdateConfig, SetInitialPassword,
       SetupConnectivity, Answer, Refuse, Restart, WifiRetryNow, Attempt, FallBack, vars
  <2>2. file' \in Document /\ file'["hash"] # "unset" /\ Load(file') = file'
    BY <2>1, SaveFacts
  <2> QED BY <2>2 DEF CanLogIn, Document, Value, Field, Secret
<1> QED BY <1>1, Invariance, PTL DEF Spec, SetUpForGood

\* A save changes nothing outside its own slice unless it was overtaken: the
\* round trip through the redacted copy corrupts neither secrets nor
\* settings (handlers_config.go:28).
THEOREM SlicesAreKept == Spec => OwnSliceUnlessOvertaken
<1>1. IInv /\ [Next]_vars =>
        \A r \in Requests : Saves(r) /\ OutsideOwnSlice(r) => req[r].overtaken
  <2> SUFFICES ASSUME IInv, [Next]_vars, NEW r \in Requests, Saves(r), ~req[r].overtaken
               PROVE  ~OutsideOwnSlice(r)
    OBVIOUS
  <2>1. Save(r)
    <3>1. req[r] \in Request
      BY DEF IInv, TypeOK
    <3>2. ASSUME NEW q \in Requests, SetupArrives(q) \/ PageArrives(q) \/ Handle(q), ~Save(r)
          PROVE  FALSE
      <4>1. req[r].pc = "next" /\ req'[r].pc = "saved"
        BY DEF Saves
      <4>2. CASE q = r
        BY <3>2, <4>1, <4>2 DEF SetupArrives, PageArrives, Handle, ReadForm, UpdateConfig,
           SetInitialPassword, SetupConnectivity, Answer, Refuse, Ended, Idle, IInv, TypeOK
      <4>3. CASE q # r /\ Save(q)
        BY <4>1, <4>3, SaveFacts
      <4>4. CASE q # r /\ ~Save(q)
        <5>1. PICK s : req' = [req EXCEPT ![q] = s]
          BY <3>2, <4>4 DEF SetupArrives, PageArrives, Handle, ReadForm, UpdateConfig,
             SetInitialPassword, SetupConnectivity, Answer, Refuse
        <5> QED BY <4>1, <4>4, <5>1 DEF IInv, TypeOK
      <4> QED BY <4>2, <4>3, <4>4
    <3>3. ~Restart /\ ~WifiRetryNow /\ ~Attempt /\ ~FallBack /\ ~UNCHANGED vars
      BY DEF Saves, Restart, InFlight, Ended, Idle, WifiRetryNow, Attempt, FallBack, vars,
             IInv, TypeOK
    <3> QED BY <3>2, <3>3 DEF Next
  <2>2. file' = req[r].draft /\ Load(file') = file'
    BY <2>1, SaveFacts
  <2>3. \A f \in Field \ Own(req[r].kind) : req[r].draft[f] = Load(file)[f]
    BY <2>1 DEF Save, IInv, Fresh
  <2> QED BY <2>2, <2>3 DEF OutsideOwnSlice
<1> QED BY <1>1, Invariance, PTL DEF Spec, OwnSliceUnlessOvertaken
=============================================================================

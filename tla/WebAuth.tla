------------------------------- MODULE WebAuth -------------------------------
(***************************************************************************)
(* Who gets in at the web UI: the token buckets (internal/web/             *)
(* ratelimit.go), the session store (session.go), the middleware chain     *)
(* around every state-changing route (middleware.go, server.go NewServer)  *)
(* and the setup, login and logout handlers. The tabs of one browser, at   *)
(* one address, share a cookie, which only answers change: until one has   *)
(* arrived, and for a request already on its way, the cookie is the old    *)
(* one. net/http serves each request in its own goroutine. The limiter     *)
(* keeps a bucket per address, and buckets share nothing, so one address   *)
(* stands for all.                                                         *)
(*                                                                         *)
(* A bucket is counted in fractions of a token, 1/Minute each, so that the *)
(* refill of one time unit is a whole number. Time is Go's monotonic       *)
(* reading, which no clock adjustment moves.                               *)
(***************************************************************************)
EXTENDS Integers, FiniteSets

CONSTANTS
  Tab,          \* the browser's tabs: each has one request in progress at most
  Password,     \* passwords the operator may choose or type
  Unset,        \* no admin password is stored
  Minute,       \* time units in a minute
  PerMinute,    \* [Budget -> requests per minute]
  TTL,          \* SessionTTL, in time units
  Horizon,      \* bound: the last moment explored
  MaxSession    \* bound: sessions are 1 .. MaxSession

Budget == {"auth", "action"}
Session == 1 .. MaxSession
NoSession == 0

ASSUME WebAssumption ==
  /\ Unset \notin Password
  /\ Minute \in Nat \ {0} /\ TTL \in Nat
  /\ PerMinute \in [Budget -> Nat \ {0}]
  /\ Horizon \in Nat /\ MaxSession \in Nat

VARIABLES
  now,
  stored,      \* web.password_hash in config.json, as the password it stands for
  tokens,      \* tokens[b]: what the bucket held when last touched
  last,        \* last[b]: when that was
  sessions,    \* the store: session -> the moment it expires
  cookie,      \* the browser's session cookie
  req,         \* req[t]: tab t's request - its progress, kind, password typed
               \* and the session it carries, which is the cookie it was sent
               \* with, then the one its answer sets; late is history: that
               \* session was over when the request arrived
  born,        \* history: when each session was created
  ended,       \* history: sessions logged out or lost by a restart
  since,       \* history: start of an arbitrary window of this process
  watched,     \* history: the budget whose requests are counted in it
  admitted,    \* history: how many of them were let through
  latest       \* history: when the latest of them was, or the window began

bucket  == <<tokens, last>>
window  == <<since, watched, admitted, latest>>
vars == <<now, stored, bucket, sessions, cookie, req, born, ended,
          window>>

Kind == {"setup", "login", "logout", "password", "other"}
NoRequest ==
  [pc |-> "idle", kind |-> "other", typed |-> Unset, carries |-> NoSession, late |-> FALSE]

Full == [b \in Budget |-> PerMinute[b] * Minute]
Over == ended \cup {s \in DOMAIN born : now > born[s] + TTL}

Init ==
  /\ now = 0 /\ stored = Unset
  /\ tokens = Full /\ last = [b \in Budget |-> 0]
  /\ sessions = [s \in {} |-> 0]
  /\ cookie = NoSession
  /\ req = [t \in Tab |-> NoRequest]
  /\ born = [s \in {} |-> 0] /\ ended = {}
  /\ since = 0 /\ watched = "auth" /\ admitted = 0 /\ latest = 0

At(t, place) == req[t].pc = place
Done(t) == req' = [req EXCEPT ![t] = NoRequest]
OnItsWay(t) == At(t, "way") \/ At(t, "answer")

\* The handler is through, and its answer sets the cookie to s.
Answered(t, s) ==
  req' = [req EXCEPT ![t] = [NoRequest EXCEPT !.pc = "answer", !.carries = s]]

\* The request goes on at place if it passed, and is answered if not.
GoIf(passed, t, place) ==
  req' = [req EXCEPT ![t] = IF passed THEN [req[t] EXCEPT !.pc = place] ELSE NoRequest]

-----------------------------------------------------------------------------
(***************************************************************************)
(* The browser.                                                            *)
(***************************************************************************)
\* The cookie matters to the routes behind requireAuth only.
Carried(k) == IF k \in {"setup", "login"} THEN NoSession ELSE cookie

Send(t, k, p) ==
  /\ At(t, "idle")
  /\ (p = Unset) = (k \in {"logout", "other"})
  /\ req' = [req EXCEPT ![t] =
       [pc |-> "way", kind |-> k, typed |-> p, carries |-> Carried(k), late |-> FALSE]]
  /\ UNCHANGED <<now, stored, bucket, sessions, cookie, born, ended, window>>

\* The browser takes the cookie of an answer, unless the answer is lost.
Receive(t) ==
  /\ At(t, "answer")
  /\ cookie' \in {cookie, req[t].carries}
  /\ Done(t)
  /\ UNCHANGED <<now, stored, bucket, sessions, born, ended, window>>

-----------------------------------------------------------------------------
(***************************************************************************)
(* A request arrives: the gate, then the limiter of its route.             *)
(***************************************************************************)
\* setupGate: until a password is stored only /setup is served, from then
\* on only the rest.
Gate(k) == (k = "setup") = (stored = Unset)

Redirect(t) ==
  /\ At(t, "way") /\ ~Gate(req[t].kind)
  /\ Done(t)
  /\ UNCHANGED <<now, stored, bucket, sessions, cookie, born, ended, window>>

\* Mutant: the refill is not capped.
RefilledUncapped(b) == tokens[b] + (now - last[b]) * PerMinute[b]

\* What bucket b holds now: refilled since it was last touched, and capped.
Refilled(b) ==
  LET level == tokens[b] + (now - last[b]) * PerMinute[b] IN
    IF level > Full[b] THEN Full[b] ELSE level

\* The bucket a kind of request draws from.
BudgetOf(k) == IF k \in {"setup", "login"} THEN "auth" ELSE "action"

\* The step after the limiter.
PlaceOf(k) == IF k = "setup" THEN "hash" ELSE IF k = "login" THEN "verify" ELSE "auth"

Admit(t) ==
  LET b == BudgetOf(req[t].kind) IN
    /\ At(t, "way") /\ Gate(req[t].kind)
    /\ Refilled(b) >= Minute
    /\ tokens' = [tokens EXCEPT ![b] = Refilled(b) - Minute]
    /\ last' = [last EXCEPT ![b] = now]
    /\ admitted' = IF b = watched THEN admitted + 1 ELSE admitted
    /\ latest' = IF b = watched THEN now ELSE latest
    /\ req' = [req EXCEPT ![t] =
         [req[t] EXCEPT !.pc = PlaceOf(req[t].kind), !.late = req[t].carries \in Over]]
    /\ UNCHANGED <<now, stored, sessions, cookie, born, ended, since, watched>>

\* Mutant: a refused request costs what it found.
LeftDrained(b) == 0

\* A refused request costs nothing.
Left(b) == Refilled(b)

Refuse(t) ==
  LET b == BudgetOf(req[t].kind) IN
    /\ At(t, "way") /\ Gate(req[t].kind)
    /\ Refilled(b) < Minute
    /\ tokens' = [tokens EXCEPT ![b] = Left(b)]
    /\ last' = [last EXCEPT ![b] = now]
    /\ Done(t)
    /\ UNCHANGED <<now, stored, sessions, cookie, born, ended, window>>

-----------------------------------------------------------------------------
(***************************************************************************)
(* The session.                                                            *)
(***************************************************************************)

\* Sessions.Lookup: known, and not past its expiry.
Live(s) == s \in DOMAIN sessions /\ now <= sessions[s]

Without(s) == [x \in DOMAIN sessions \ {s} |-> sessions[x]]

\* An entry found expired is removed.
Looked(s) == sessions' = IF Live(s) THEN sessions ELSE Without(s)

\* requireAuth, then csrfProtect: valid tells whether the page's CSRF token is
\* the session's (not on a page left open since an earlier sign-in).
Authenticate(t, valid) ==
  /\ At(t, "auth")
  /\ Looked(req[t].carries)
  /\ GoIf(Live(req[t].carries) /\ valid, t, "act")
  /\ UNCHANGED <<now, stored, bucket, cookie, born, ended, window>>

\* GET of a page.
LoadPage(t) ==
  /\ At(t, "idle") /\ stored # Unset
  /\ Looked(cookie)
  /\ UNCHANGED <<now, stored, bucket, cookie, req, born, ended, window>>

-----------------------------------------------------------------------------
(***************************************************************************)
(* The handlers.                                                           *)
(***************************************************************************)
\* Sessions.Create, whose token is random, so new; the answer sets it.
SignIn(t, s) ==
  /\ s \in Session \ DOMAIN born
  /\ sessions' = [x \in DOMAIN sessions \cup {s} |-> IF x = s THEN now + TTL ELSE sessions[x]]
  /\ born' = [x \in DOMAIN born \cup {s} |-> IF x = s THEN now ELSE born[x]]
  /\ Answered(t, s)

\* VerifyLogin reads the stored hash on every attempt.
Verify(t) ==
  /\ At(t, "verify")
  /\ GoIf(stored # Unset /\ req[t].typed = stored, t, "create")
  /\ UNCHANGED <<now, stored, bucket, sessions, cookie, born, ended, window>>

LogIn(t, s) ==
  /\ At(t, "create")
  /\ SignIn(t, s)
  /\ UNCHANGED <<now, stored, bucket, cookie, ended, window>>

\* POST /setup. SetInitialPassword and SetupConnectivity read the document,
\* hash, and only then write it.
SetupReads(t) ==
  /\ At(t, "hash")
  /\ GoIf(stored = Unset, t, "save")
  /\ UNCHANGED <<now, stored, bucket, sessions, cookie, born, ended, window>>

\* The set-up over the hotspot hands out no session.
SetupSaves(t, s) ==
  /\ At(t, "save")
  /\ stored' = req[t].typed
  /\ SignIn(t, s) \/ (Done(t) /\ UNCHANGED <<sessions, born>>)
  /\ UNCHANGED <<now, bucket, cookie, ended, window>>

\* POST /config/admin: the new password is live at once; sessions stay.
ChangePassword(t) ==
  /\ At(t, "act") /\ req[t].kind = "password"
  /\ stored' = req[t].typed
  /\ Done(t)
  /\ UNCHANGED <<now, bucket, sessions, cookie, born, ended, window>>

\* Any other state-changing handler.
Act(t) ==
  /\ At(t, "act") /\ req[t].kind = "other"
  /\ Done(t)
  /\ UNCHANGED <<now, stored, bucket, sessions, cookie, born, ended, window>>

\* Mutant: the session is left in the store.
DestroyForgotten(s) == UNCHANGED sessions

\* Sessions.Destroy.
Destroy(s) == sessions' = Without(s)

\* The session is over at once. The browser goes on with it until the answer
\* arrives, which clears the cookie, whichever session it names by then.
LogOut(t) ==
  /\ At(t, "act") /\ req[t].kind = "logout"
  /\ Destroy(req[t].carries)
  /\ ended' = ended \cup {req[t].carries}
  /\ Answered(t, NoSession)
  /\ UNCHANGED <<now, stored, bucket, cookie, born, window>>

\* The process ends - scheduled by the setup or a save, or any other way, so
\* at any time. Sessions and buckets are in its memory only: the next one
\* starts with full buckets. Requests it was serving are lost, those still
\* on their way may find the next process, and answers may still arrive.
Restart ==
  /\ sessions' = [s \in {} |-> 0]
  /\ tokens' = Full /\ last' = [b \in Budget |-> now]
  /\ req' = [t \in Tab |-> IF OnItsWay(t) THEN req[t] ELSE NoRequest]
  /\ ended' = DOMAIN born
  /\ since' = now /\ latest' = now /\ admitted' = 0
  /\ UNCHANGED <<now, stored, cookie, born, watched>>

TimePasses ==
  /\ now < Horizon /\ now' = now + 1
  /\ UNCHANGED <<stored, bucket, sessions, cookie, req, born,
                 ended, window>>

\* History: the window begins now, in which requests of budget b are counted.
Watch(b) ==
  /\ since' = now /\ latest' = now /\ watched' = b /\ admitted' = 0
  /\ UNCHANGED <<now, stored, bucket, sessions, cookie, req,
                 born, ended>>

-----------------------------------------------------------------------------
Next ==
  \/ \E t \in Tab :
       \/ \E k \in Kind, p \in Password \cup {Unset} : Send(t, k, p)
       \/ Receive(t) \/ Redirect(t) \/ Admit(t) \/ Refuse(t) \/ LoadPage(t)
       \/ \E valid \in BOOLEAN : Authenticate(t, valid)
       \/ Verify(t) \/ SetupReads(t)
       \/ \E s \in Session : LogIn(t, s) \/ SetupSaves(t, s)
       \/ ChangePassword(t) \/ Act(t) \/ LogOut(t)
  \/ Restart \/ TimePasses \/ \E b \in Budget : Watch(b)

Spec == Init /\ [][Next]_vars

-----------------------------------------------------------------------------
(***************************************************************************)
(* Properties.                                                             *)
(***************************************************************************)
Place == {"idle", "way", "auth", "act", "verify", "create", "hash", "save", "answer"}

TypeOK ==
  /\ now \in 0 .. Horizon
  /\ stored \in Password \cup {Unset}
  /\ tokens \in [Budget -> Nat] /\ \A b \in Budget : tokens[b] <= Full[b]
  /\ last \in [Budget -> 0 .. Horizon]
  /\ DOMAIN sessions \subseteq DOMAIN born /\ DOMAIN born \subseteq Session
  /\ cookie \in Session \cup {NoSession}
  /\ req \in [Tab -> [pc : Place, kind : Kind, typed : Password \cup {Unset},
                       carries : Session \cup {NoSession},
                       late : BOOLEAN]]
  /\ since \in 0 .. now /\ latest \in since .. now
  /\ watched \in Budget /\ admitted \in Nat

\* server.go NewServer ("a burst of 5/min"): in any window of a process's
\* life, however long it was idle before and however the requests of all
\* tabs are spread, a limiter lets through at most a full bucket plus what
\* the length of the window refills.
RateBounded ==
  admitted * Minute <= Full[watched] + (now - since) * PerMinute[watched]

\* Nobody is locked out by trying too often: however many tries were refused
\* in between, a request is refused only within one token's refill time of
\* the latest request that was let through.
NotLockedOut ==
  [][\A t \in Tab :
       Refuse(t) /\ BudgetOf(req[t].kind) = watched
         => (now - latest) * PerMinute[watched] < Minute]_vars

\* A request that arrives after its session was logged out, outlived its
\* TTL or was lost by a restart never reaches its handler: not one that was
\* on its way by then, nor one that a tab sent before the answer to the log-out
\* had come, with whatever page, and also when it had to wait.
SignedOutStaysOut ==
  \A t \in Tab : At(t, "act") => ~req[t].late
=============================================================================

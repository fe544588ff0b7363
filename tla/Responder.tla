------------------------------ MODULE Responder ------------------------------
(***************************************************************************)
(* The mDNS responder (internal/mdns/responder.go, records.go, wired by    *)
(* cmd/trainboard/mdns.go): one goroutine polls the interfaces, opens and  *)
(* closes a listener per eligible one, announces and says goodbye; one     *)
(* reader per listener answers queries at the same time. Interfaces come   *)
(* and go, the setup hotspot goes up and down, calls and sockets fail.     *)
(***************************************************************************)
EXTENDS Integers, FiniteSets

CONSTANTS
  Name,      \* interfaces, "wlan0" among them
  Addrs,     \* what an interface's usable addresses (v4, v6) can be
  Sock,      \* identities of sockets
  MaxMoves,  \* bound: of the surroundings
  None

ASSUME ResponderAssumption ==
  /\ "wlan0" \in Name
  /\ Addrs # {} /\ None \notin Addrs
  /\ Sock \subseteq Nat /\ MaxMoves \in Nat

VARIABLES
  ifaces,     \* per name: None or its index and addresses
  hotspot,    \* Status().Hotspot # nil
  cancelled,  \* ctx is done
  pc,         \* where Run is
  todo,       \* names the poll has not looked at yet
  desired,    \* the poll's eligible interfaces
  appeared,   \* sockets the poll has opened
  conns,      \* sockets in the map, each under its own name and index
  sock,       \* all sockets, with their readers
  heard,      \* per name: addresses that peers on that link have cached
  moves,
  quiet,      \* history: the poll has found wlan0 suppressed, and it still is
  unretracted \* history: names last heard of without a goodbye to follow

around  == <<ifaces, hotspot, cancelled, moves>>
polling == <<todo, desired, appeared>>
vars    == <<around, pc, polling, conns, sock, heard, quiet, unretracted>>

(***************************************************************************)
(* A socket, its zone and its reader. said counts the announcements.       *)
(***************************************************************************)
Socket == [open : BOOLEAN, name : Name, index : 1 .. MaxMoves + 1, zone : Addrs,
           reader : {"reading", "answering", "gone"}, said : 0 .. 2]
Unused == [open |-> FALSE, name |-> "wlan0", index |-> 1, zone |-> None,
           reader |-> "gone", said |-> 0]

Info == [name : Name, index : 1 .. MaxMoves + 1, zone : Addrs]

\* Mutant: a re-indexed interface of the same name is taken for the old one.
KeyOfName(i) == <<i.name, 0>>

Key(i) == <<i.name, i.index>>

\* Mutant: the hotspot is asked for only before a listener is opened.
EligibleLoosely(n) ==
  /\ ifaces[n] # None /\ ifaces[n].zone # None
  /\ n = "wlan0" /\ hotspot => \E s \in conns : sock[s].name = n

\* eligible: up, with a usable address, and not a suppressed wlan0.
Eligible(n) ==
  /\ ifaces[n] # None /\ ifaces[n].zone # None
  /\ ~(n = "wlan0" /\ hotspot)

Begun(n) == [name |-> n, index |-> ifaces[n].index, zone |-> ifaces[n].zone]

\* What a written message does to the peers' caches on the socket's link. A
\* closed socket writes nothing, and a link that is gone has no peers.
Reaches(s) ==
  LET c == sock[s] IN c.open /\ ifaces[c.name] # None /\ ifaces[c.name].index = c.index
Taught(socks) ==
  [n \in Name |->
     IF \E s \in socks : Reaches(s) /\ sock[s].name = n
       THEN (CHOOSE c \in {sock[s] : s \in {t \in socks : Reaches(t)}} : c.name = n).zone
       ELSE heard[n]]

-----------------------------------------------------------------------------
Init ==
  /\ LET zone == CHOOSE z \in Addrs : TRUE
     IN ifaces \in [Name -> {None, [index |-> 1, zone |-> zone]}]
  /\ hotspot = FALSE /\ cancelled = FALSE /\ moves = 0
  /\ pc = "poll" /\ todo = {} /\ desired = {} /\ appeared = {}
  /\ conns = {} /\ sock = [s \in Sock |-> Unused]
  /\ heard = [n \in Name |-> None]
  /\ quiet = FALSE /\ unretracted = {}

Move == moves < MaxMoves /\ moves' = moves + 1

\* The poll is over; its locals are gone.
Rest ==
  /\ pc' = "wait" /\ todo' = {} /\ desired' = {} /\ appeared' = {}

\* poll: beat and enumerate, at start or at a tick.
PollBegins ==
  /\ pc = "poll" \/ pc = "wait"
  /\ pc' = "look" /\ todo' = Name /\ desired' = {} /\ appeared' = {}
  /\ quiet' = FALSE
  /\ UNCHANGED <<around, conns, sock, heard, unretracted>>

\* Interfaces fails: the listeners stay as they are until the next tick.
EnumerationFails ==
  /\ pc \in {"poll", "wait"} /\ Move
  /\ Rest
  /\ UNCHANGED <<ifaces, hotspot, cancelled, conns, sock, heard, quiet, unretracted>>

\* One interface after the other is judged; Addrs may fail for it.
Look(n) ==
  /\ pc = "look" /\ n \in todo
  /\ todo' = todo \ {n}
  /\ desired' = IF Eligible(n) THEN desired \cup {Begun(n)} ELSE desired
  /\ quiet' = IF n = "wlan0" THEN hotspot ELSE quiet
  /\ UNCHANGED <<around, pc, appeared, conns, sock, heard, unretracted>>

LookFails(n) ==
  /\ pc = "look" /\ n \in todo /\ Move
  /\ todo' = todo \ {n}
  /\ UNCHANGED <<ifaces, hotspot, cancelled, pc, desired, appeared, conns, sock, heard, quiet,
                 unretracted>>

Vanished == {s \in conns : \A i \in desired : Key(i) # Key(sock[s])}
Wanted == {i \in desired : \A s \in conns : Key(i) # Key(sock[s])}

\* Mutant: the listener is forgotten, its socket stays open.
ClosingForgets(s) ==
  /\ pc = "look" /\ todo = {} /\ s \in Vanished
  /\ conns' = conns \ {s}
  /\ unretracted' = unretracted \cup {sock[s].name}
  /\ UNCHANGED <<around, pc, polling, sock, heard, quiet>>

\* Close a listener whose interface disappeared: no goodbye is said.
Closing(s) ==
  /\ pc = "look" /\ todo = {} /\ s \in Vanished
  /\ conns' = conns \ {s}
  /\ sock' = [sock EXCEPT ![s].open = FALSE]
  /\ unretracted' = unretracted \cup {sock[s].name}
  /\ UNCHANGED <<around, pc, polling, heard, quiet>>

Closed == pc = "look" /\ todo = {} /\ Vanished = {}

\* Open a listener and start its reader, the zone's addresses baked in.
Opening(i) ==
  /\ Closed /\ i \in Wanted
  /\ \E s \in Sock :
       /\ sock[s] = Unused /\ \A t \in Sock : sock[t] = Unused => s <= t
       /\ sock' = [sock EXCEPT ![s] =
            [open |-> TRUE, name |-> i.name, index |-> i.index, zone |-> i.zone,
             reader |-> "reading", said |-> 0]]
       /\ conns' = conns \cup {s}
       /\ appeared' = appeared \cup {s}
  /\ UNCHANGED <<around, pc, todo, desired, heard, quiet, unretracted>>

\* ListenV4 fails: the interface has to wait for the next poll.
OpeningFails(i) ==
  /\ Closed /\ i \in Wanted /\ Move
  /\ desired' = desired \ {i}
  /\ UNCHANGED <<ifaces, hotspot, cancelled, pc, todo, appeared, conns, sock, heard, quiet,
                 unretracted>>

PollEnds ==
  /\ Closed /\ Wanted = {} /\ appeared = {}
  /\ Rest
  /\ UNCHANGED <<around, conns, sock, heard, quiet, unretracted>>

Announced ==
  /\ heard' = Taught(appeared)
  /\ sock' = [s \in Sock |->
       IF s \in appeared THEN [sock[s] EXCEPT !.said = @ + 1] ELSE sock[s]]
  /\ unretracted' = unretracted \ {sock[s].name : s \in appeared}
  /\ UNCHANGED <<around, conns, quiet>>

AnnounceOnce ==
  /\ Closed /\ Wanted = {} /\ appeared # {}
  /\ Announced
  /\ pc' = "gap" /\ UNCHANGED polling

\* The gap ends early when ctx is done.
GapCancelled ==
  /\ pc = "gap" /\ cancelled
  /\ Rest
  /\ UNCHANGED <<around, conns, sock, heard, quiet, unretracted>>

\* Mutant: a tick during the gap is taken for the next poll.
AnnounceAgainOrPoll ==
  /\ pc = "gap" /\ Rest
  /\ Announced \/ UNCHANGED <<around, conns, sock, heard, quiet, unretracted>>

\* The gap is over.
AnnounceAgain == pc = "gap" /\ Announced /\ Rest

-----------------------------------------------------------------------------
\* ctx is done: the deferred shutdown.
SeeCancel ==
  /\ pc = "wait" /\ cancelled
  /\ pc' = "goodbye"
  /\ UNCHANGED <<around, polling, conns, sock, heard, quiet, unretracted>>

\* Mutant: the listener is closed before the goodbye is written.
GoodbyeClosed(s) ==
  /\ pc = "goodbye" /\ s \in conns /\ \A t \in conns : sock[t].said # 0
  /\ sock' = [sock EXCEPT ![s].open = FALSE, ![s].said = 0]
  /\ UNCHANGED <<around, pc, polling, conns, heard, quiet, unretracted>>

\* All records of the zone at TTL 0; said = 0 again.
Goodbye(s) ==
  /\ pc = "goodbye" /\ s \in conns /\ \A t \in conns : sock[t].said # 0
  /\ heard' = [heard EXCEPT ![sock[s].name] = IF Reaches(s) /\ @ = sock[s].zone THEN None ELSE @]
  /\ sock' = [sock EXCEPT ![s].said = 0]
  /\ UNCHANGED <<around, pc, polling, conns, quiet, unretracted>>

HangUp(s) ==
  /\ pc = "goodbye" /\ s \in conns /\ sock[s].said = 0
  /\ sock' = [sock EXCEPT ![s].open = FALSE]
  /\ conns' = conns \ {s}
  /\ UNCHANGED <<around, pc, polling, heard, quiet, unretracted>>

\* wg.Wait
Return ==
  /\ pc = "goodbye" /\ conns = {} /\ \A s \in Sock : sock[s].reader = "gone"
  /\ pc' = "done"
  /\ UNCHANGED <<around, polling, conns, sock, heard, quiet, unretracted>>

-----------------------------------------------------------------------------
(***************************************************************************)
(* The readers.                                                            *)
(***************************************************************************)
ReaderStep(s, next) ==
  /\ sock' = [sock EXCEPT ![s] = next]
  /\ UNCHANGED <<around, pc, polling, conns, quiet>>

\* A query for one of the zone's names; anything else changes nothing.
Query(s) ==
  /\ sock[s].reader = "reading" /\ sock[s].open
  /\ ReaderStep(s, [sock[s] EXCEPT !.reader = "answering"])
  /\ UNCHANGED <<heard, unretracted>>

\* The answer: writing to a socket that is closed by now does nothing. After
\* the goodbye it teaches the peers again what they have just forgotten.
Answer(s) ==
  /\ sock[s].reader = "answering"
  /\ heard' = Taught({s})
  /\ unretracted' = IF Reaches(s) /\ pc = "goodbye" /\ sock[s].said = 0
                      THEN unretracted \cup {sock[s].name} ELSE unretracted
  /\ ReaderStep(s, [sock[s] EXCEPT !.reader = "reading"])

\* ReadFrom fails because the socket is closed.
ReaderEnds(s) ==
  /\ sock[s].reader = "reading" /\ ~sock[s].open
  /\ ReaderStep(s, Unused)
  /\ UNCHANGED <<heard, unretracted>>

\* ReadFrom fails on an open socket: the reader ends, the map is not told.
ReadFails(s) ==
  /\ sock[s].reader = "reading" /\ sock[s].open /\ Move
  /\ sock' = [sock EXCEPT ![s].reader = "gone"]
  /\ UNCHANGED <<ifaces, hotspot, cancelled, pc, polling, conns, heard, quiet, unretracted>>

\* A closed socket without a reader is nothing any more.
Collected(s) ==
  /\ sock[s].reader = "gone" /\ ~sock[s].open /\ sock[s] # Unused
  /\ ReaderStep(s, Unused)
  /\ UNCHANGED <<heard, unretracted>>

-----------------------------------------------------------------------------
(***************************************************************************)
(* The surroundings.                                                       *)
(***************************************************************************)
Within == <<pc, polling, conns, sock>>

\* An interface goes, comes back under another index, or changes its address.
InterfaceMoves(n) ==
  /\ Move
  /\ \/ ifaces[n] # None /\ ifaces' = [ifaces EXCEPT ![n] = None]
     \/ \E zone \in Addrs \cup {None} :
          ifaces' = [ifaces EXCEPT ![n] =
            [index |-> IF ifaces[n] = None THEN moves + 2 ELSE ifaces[n].index, zone |-> zone]]
  /\ heard' = [heard EXCEPT ![n] = IF ifaces'[n] = None THEN None ELSE @]
  /\ UNCHANGED <<hotspot, cancelled, Within, quiet, unretracted>>

HotspotMoves ==
  /\ Move
  /\ hotspot' = ~hotspot /\ quiet' = FALSE
  /\ UNCHANGED <<ifaces, cancelled, Within, heard, unretracted>>

Cancel ==
  /\ ~cancelled
  /\ cancelled' = TRUE
  /\ UNCHANGED <<ifaces, hotspot, moves, Within, heard, quiet, unretracted>>

RunStep ==
  \/ PollBegins \/ PollEnds \/ AnnounceOnce \/ AnnounceAgain \/ GapCancelled \/ Return
  \/ \E n \in Name : Look(n)
  \/ \E i \in desired : Opening(i)
  \/ \E s \in conns : Closing(s) \/ Goodbye(s) \/ HangUp(s)

ReaderWorks(s) == Answer(s) \/ ReaderEnds(s) \/ Collected(s)

Next ==
  \/ RunStep \/ SeeCancel \/ EnumerationFails
  \/ \E n \in Name : LookFails(n) \/ InterfaceMoves(n)
  \/ \E i \in desired : OpeningFails(i)
  \/ \E s \in Sock : Query(s) \/ ReaderWorks(s) \/ ReadFails(s)
  \/ HotspotMoves \/ Cancel

Spec == Init /\ [][Next]_vars

\* The goroutines run, of the readers one or another. A select takes a ready
\* ctx.Done sooner or later, also against a tick that is ready too: Go
\* chooses at random.
FairSpec ==
  /\ Spec /\ WF_vars(RunStep) /\ SF_vars(SeeCancel)
  /\ WF_vars(\E s \in Sock : ReaderWorks(s))
-----------------------------------------------------------------------------
TypeOK ==
  /\ ifaces \in [Name -> {None} \cup [index : 1 .. MaxMoves + 1, zone : Addrs \cup {None}]]
  /\ hotspot \in BOOLEAN /\ cancelled \in BOOLEAN
  /\ pc \in {"poll", "look", "gap", "wait", "goodbye", "done"}
  /\ todo \subseteq Name /\ desired \subseteq Info /\ appeared \subseteq conns
  /\ conns \subseteq Sock /\ sock \in [Sock -> Socket \cup {Unused}]
  /\ heard \in [Name -> Addrs \cup {None}] /\ moves \in 0 .. MaxMoves
  /\ quiet \in BOOLEAN /\ unretracted \subseteq Name

\* Nothing leaks: what is open is in the map, once per interface, and is
\* read unless its reader has met an error.
NoLeak ==
  /\ \A s \in Sock : sock[s].open <=> s \in conns
  /\ \A s, t \in conns : Key(sock[s]) = Key(sock[t]) => s = t

\* Once a poll has found the hotspot up, wlan0 is left alone until it goes
\* down again, whatever listener and reader were there before.
HotspotQuiet ==
  quiet /\ (Closed \/ pc \in {"gap", "wait"}) => \A s \in conns : sock[s].name # "wlan0"

\* A listener that outlives its first poll has been announced twice.
AnnouncedTwice == pc = "wait" /\ ~cancelled => \A s \in conns : sock[s].said = 2

\* When Run has returned, no peer goes on believing in it, but for an
\* answer that a reader wrote after the goodbye, and for listeners that a
\* poll had closed without one.
Retracted == pc = "done" => \A n \in Name : heard[n] # None => n \in unretracted

\* A responder that is cancelled returns, its readers with it.
ShutdownEnds == cancelled ~> pc = "done"

\* The surroundings come to rest, and the listeners are those of the
\* eligible interfaces that are there now.
Converges ==
  <>[](cancelled \/ {Key(sock[s]) : s \in conns}
                      = {<<n, ifaces[n].index>> : n \in {m \in Name : Eligible(m)}})
=============================================================================

---------------------------- MODULE ResponderProofs ----------------------------
(***************************************************************************)
(* Proofs about Responder, for any interfaces, addresses and sockets, and  *)
(* however often the surroundings move. What a poll does at its end rests  *)
(* on what it has seen on its way: an interface in desired has been looked *)
(* at (PollInv), and wlan0 is not among them once it was found suppressed  *)
(* (QuietInv). The announcements are counted along the poll (SaidInv). The *)
(* goodbyes have an invariant of their own on top of these (RInv).         *)
(***************************************************************************)
EXTENDS Responder, TLAPS

\* A poll announces what it has opened itself, and has looked at it before.
PollInv ==
  /\ pc = "poll" => conns = {} /\ ~quiet
  /\ pc \notin {"look", "gap"} => appeared = {}
  /\ \A s \in appeared : \E i \in desired : Key(i) = Key(sock[s])
  /\ pc = "look" => \A i \in desired : i.name \notin todo

QuietInv ==
  /\ quiet => hotspot
  /\ quiet /\ pc = "look" => "wlan0" \notin todo /\ \A i \in desired : i.name # "wlan0"
  /\ quiet /\ pc \in {"gap", "wait"} => \A s \in conns : sock[s].name # "wlan0"

\* How often the listeners have been announced, before, in and after the gap.
SaidInv ==
  /\ pc = "look" => \A s \in appeared : sock[s].said = 0
  /\ pc = "gap" => \A s \in appeared : sock[s].said = 1
  /\ pc \in {"look", "gap", "wait"} /\ ~cancelled =>
       \A s \in conns \ appeared : sock[s].said = 2

IInv == TypeOK /\ NoLeak /\ PollInv /\ QuietInv /\ SaidInv

LEMMA Initially == Init => IInv
<1> SUFFICES ASSUME Init PROVE IInv
  OBVIOUS
<1> USE ResponderAssumption DEF Init
<1>1. TypeOK
  <2>1. (CHOOSE z \in Addrs : TRUE) \in Addrs
    OBVIOUS
  <2>2. ifaces \in [Name -> {None} \cup [index : 1 .. MaxMoves + 1, zone : Addrs \cup {None}]]
    BY <2>1
  <2>3. sock \in [Sock -> Socket \cup {Unused}]
    OBVIOUS
  <2>4. heard \in [Name -> Addrs \cup {None}] /\ moves \in 0 .. MaxMoves
    OBVIOUS
  <2> QED BY <2>2, <2>3, <2>4 DEF TypeOK
<1>2. NoLeak
  BY DEF NoLeak, Unused
<1>3. PollInv /\ QuietInv /\ SaidInv
  BY DEF PollInv, QuietInv, SaidInv
<1> QED BY <1>1, <1>2, <1>3 DEF IInv

-----------------------------------------------------------------------------
\* A socket with a reader, or open, is a proper one.
LEMMA InUse ==
  ASSUME TypeOK, NEW s \in Sock, sock[s].open \/ sock[s].reader # "gone"
  PROVE  sock[s] \in Socket /\ sock[s] # Unused
  BY DEF TypeOK, Unused

\* What peers learn is addresses.
LEMMA TaughtType ==
  ASSUME TypeOK, NEW socks, socks \subseteq Sock
  PROVE  Taught(socks) \in [Name -> Addrs \cup {None}]
<1> SUFFICES ASSUME NEW n \in Name, NEW t \in socks, Reaches(t), sock[t].name = n
             PROVE (CHOOSE c \in {sock[s] : s \in {u \in socks : Reaches(u)}} : c.name = n).zone
                     \in Addrs
  BY DEF Taught, TypeOK
<1> DEFINE reaching == {sock[s] : s \in {u \in socks : Reaches(u)}}
<1>1. \A c \in reaching : c.zone \in Addrs
  BY InUse DEF Reaches, Socket
<1>2. \E c \in reaching : c.name = n
  OBVIOUS
<1> QED BY <1>1, <1>2

\* An eligible interface is listed with its index and addresses.
LEMMA BegunType ==
  ASSUME TypeOK, NEW n \in Name, Eligible(n)
  PROVE  Begun(n) \in Info /\ Begun(n).name = n
<1>1. ifaces[n] \in [index : 1 .. MaxMoves + 1, zone : Addrs \cup {None}]
  BY DEF TypeOK, Eligible
<1> QED BY <1>1 DEF Eligible, Begun, Info

\* When a poll that has found wlan0 suppressed has closed what it must, no
\* listener is left there.
LEMMA ClosedIsQuiet ==
  ASSUME IInv, quiet, Closed
  PROVE  \A s \in conns : sock[s].name # "wlan0"
<1>1. \A s \in conns : \E i \in desired : i.name = sock[s].name
  BY DEF Closed, Vanished, Key
<1> QED BY <1>1 DEF IInv, QuietInv, Closed

\* One socket is replaced, and one field of a socket.
LEMMA Replaced ==
  ASSUME TypeOK, NEW s \in Sock, NEW c \in Socket \cup {Unused},
         sock' = [sock EXCEPT ![s] = c]
  PROVE  /\ sock' \in [Sock -> Socket \cup {Unused}]
         /\ sock'[s] = c /\ \A t \in Sock \ {s} : sock'[t] = sock[t]
  BY DEF TypeOK

LEMMA Edited ==
  ASSUME NEW c \in Socket
  PROVE  /\ [c EXCEPT !.open = FALSE] \in Socket
         /\ [c EXCEPT !.said = 0] \in Socket
         /\ c.said \in {0, 1} => [c EXCEPT !.said = @ + 1] \in Socket
         /\ \A r \in {"reading", "answering", "gone"} : [c EXCEPT !.reader = r] \in Socket
<1>1. /\ [c EXCEPT !.open = FALSE] \in Socket
      /\ \A r \in {"reading", "answering", "gone"} : [c EXCEPT !.reader = r] \in Socket
  BY DEF Socket
<1>2. \A n \in 0 .. 2 : [c EXCEPT !.said = n] \in Socket
  BY DEF Socket
<1>3. c.said \in {0, 1} => c.said + 1 \in 0 .. 2
  OBVIOUS
<1>4. c.said \in {0, 1} => [c EXCEPT !.said = @ + 1] \in Socket
  BY <1>2, <1>3
<1> QED BY <1>1, <1>2, <1>4

\* What the polls can see of a socket.
Alike(c, d) ==
  c.name = d.name /\ c.index = d.index /\ c.zone = d.zone /\ c.said = d.said

\* Whatever the readers do, the polls see the sockets as they were.
LEMMA ReaderLeaves ==
  ASSUME IInv, NEW s \in Sock, ReaderWorks(s) \/ Query(s) \/ ReadFails(s)
  PROVE  /\ sock' \in [Sock -> Socket \cup {Unused}]
         /\ \A t \in Sock : sock'[t].open = sock[t].open
         /\ \A t \in conns : Alike(sock[t], sock'[t])
         /\ UNCHANGED <<pc, polling, conns, quiet, hotspot, cancelled, ifaces>>
<1> DEFINE Suits(c) == /\ sock' = [sock EXCEPT ![s] = c] /\ c.open = sock[s].open
                       /\ sock[s].open => Alike(sock[s], c)
<1>1. \E c \in Socket \cup {Unused} : Suits(c)
  <2>1. CASE Query(s) \/ Answer(s)
    <3>1. sock[s] \in Socket
      BY <2>1, InUse DEF IInv, Query, Answer
    <3>2. PICK r \in {"reading", "answering"} :
            sock' = [sock EXCEPT ![s] = [sock[s] EXCEPT !.reader = r]]
      BY <2>1 DEF Query, Answer, ReaderStep
    <3>3. [sock[s] EXCEPT !.reader = r] \in Socket
      BY <3>1, Edited
    <3>4. Suits([sock[s] EXCEPT !.reader = r])
      BY <3>1, <3>2 DEF Alike, Socket
    <3> QED BY <3>3, <3>4
  <2>2. CASE ReaderEnds(s) \/ Collected(s)
    <3>1. sock' = [sock EXCEPT ![s] = Unused] /\ sock[s].open = FALSE
      <4>1. sock[s].open \in BOOLEAN /\ ~sock[s].open
        BY <2>2 DEF ReaderEnds, Collected, IInv, TypeOK, Socket, Unused
      <4> QED BY <2>2, <4>1 DEF ReaderEnds, Collected, ReaderStep
    <3> QED BY <3>1 DEF Unused
  <2>3. CASE ReadFails(s)
    <3>1. sock[s] \in Socket
      BY <2>3, InUse DEF IInv, ReadFails
    <3>2. sock' = [sock EXCEPT ![s] = [sock[s] EXCEPT !.reader = "gone"]]
      BY <2>3 DEF ReadFails
    <3>3. [sock[s] EXCEPT !.reader = "gone"] \in Socket
      BY <3>1, Edited
    <3>4. Suits([sock[s] EXCEPT !.reader = "gone"])
      BY <3>1, <3>2 DEF Alike, Socket
    <3> QED BY <3>3, <3>4
  <2> QED BY <2>1, <2>2, <2>3 DEF ReaderWorks
<1>2. PICK c \in Socket \cup {Unused} : Suits(c)
  BY <1>1
<1>3. /\ sock' \in [Sock -> Socket \cup {Unused}]
      /\ sock'[s] = c /\ \A t \in Sock \ {s} : sock'[t] = sock[t]
  BY <1>2, Replaced DEF IInv
<1>4. \A t \in conns : t \in Sock /\ sock[t].open
  BY DEF IInv, TypeOK, NoLeak
<1>5. UNCHANGED <<pc, polling, conns, quiet, hotspot, cancelled, ifaces>>
  BY DEF ReaderWorks, Query, Answer, ReaderEnds, ReadFails, Collected, ReaderStep, around
<1> QED BY <1>2, <1>3, <1>4, <1>5 DEF Alike

\* An announcement counts, and changes nothing else of a socket.
LEMMA Announcing ==
  ASSUME IInv, pc \in {"look", "gap"}, Announced
  PROVE  /\ sock' \in [Sock -> Socket \cup {Unused}]
         /\ heard' \in [Name -> Addrs \cup {None}]
         /\ \A t \in Sock : /\ sock'[t].open = sock[t].open
                            /\ sock'[t].name = sock[t].name /\ sock'[t].index = sock[t].index
                            /\ sock'[t].zone = sock[t].zone
                            /\ t \notin appeared => sock'[t].said = sock[t].said
                            /\ t \in appeared => sock'[t].said = sock[t].said + 1
         /\ conns' = conns /\ quiet' = quiet
<1>1. \A t \in appeared : t \in Sock /\ sock[t] \in Socket /\ sock[t].said \in {0, 1}
  BY InUse DEF IInv, TypeOK, NoLeak, SaidInv
<1>2. \A t \in appeared : [sock[t] EXCEPT !.said = @ + 1] \in Socket
  BY <1>1, Edited
<1>3. heard' \in [Name -> Addrs \cup {None}]
  BY <1>1, TaughtType DEF IInv, Announced
<1>4. \A t \in Sock : sock'[t] = IF t \in appeared THEN [sock[t] EXCEPT !.said = @ + 1]
                                                   ELSE sock[t]
  BY DEF Announced
<1>5. sock' \in [Sock -> Socket \cup {Unused}]
  BY <1>2 DEF Announced, IInv, TypeOK
<1>6. \A t \in appeared : LET c == [sock[t] EXCEPT !.said = @ + 1] IN
        /\ c.open = sock[t].open /\ c.name = sock[t].name /\ c.index = sock[t].index
        /\ c.zone = sock[t].zone /\ c.said = sock[t].said + 1
  BY <1>1 DEF Socket
<1> QED BY <1>3, <1>4, <1>5, <1>6 DEF Announced

\* Closing a listener, at a poll or at the end.
LEMMA ClosingOne ==
  ASSUME IInv, NEW s \in conns, sock' = [sock EXCEPT ![s].open = FALSE]
  PROVE  /\ sock' \in [Sock -> Socket \cup {Unused}]
         /\ sock'[s].open = FALSE /\ \A t \in Sock \ {s} : sock'[t] = sock[t]
<1>1. s \in Sock /\ sock[s] \in Socket
  BY InUse DEF IInv, TypeOK, NoLeak
<1>2. [sock[s] EXCEPT !.open = FALSE] \in Socket
  BY <1>1, Edited
<1>3. sock' = [sock EXCEPT ![s] = [sock[s] EXCEPT !.open = FALSE]]
  OBVIOUS
<1>4. [sock[s] EXCEPT !.open = FALSE].open = FALSE
  BY <1>1 DEF Socket
<1> QED BY <1>1, <1>2, <1>3, <1>4, Replaced DEF IInv

\* A goodbye.
LEMMA SayingGoodbye ==
  ASSUME IInv, NEW s \in conns, Goodbye(s)
  PROVE  /\ sock' \in [Sock -> Socket \cup {Unused}]
         /\ \A t \in Sock : /\ sock'[t].open = sock[t].open
                            /\ sock'[t].name = sock[t].name /\ sock'[t].index = sock[t].index
                            /\ t # s => sock'[t] = sock[t]
<1>1. s \in Sock /\ sock[s] \in Socket
  BY InUse DEF IInv, TypeOK, NoLeak
<1>2. [sock[s] EXCEPT !.said = 0] \in Socket
  BY <1>1, Edited
<1>3. sock' = [sock EXCEPT ![s] = [sock[s] EXCEPT !.said = 0]]
  BY DEF Goodbye
<1>4. LET c == [sock[s] EXCEPT !.said = 0] IN
        c.open = sock[s].open /\ c.name = sock[s].name /\ c.index = sock[s].index
  BY <1>1 DEF Socket
<1> QED BY <1>1, <1>2, <1>3, <1>4, Replaced DEF IInv

\* Opening one: the lowest free socket becomes a listener of the interface.
LEMMA OpeningOne ==
  ASSUME IInv, NEW i \in desired, Opening(i)
  PROVE  \E s \in Sock :
           /\ sock[s] = Unused /\ s \notin conns
           /\ sock' \in [Sock -> Socket \cup {Unused}]
           /\ sock'[s].open /\ sock'[s].said = 0
           /\ sock'[s].name = i.name /\ sock'[s].index = i.index
           /\ \A t \in Sock \ {s} : sock'[t] = sock[t]
           /\ conns' = conns \cup {s} /\ appeared' = appeared \cup {s}
<1> DEFINE new == [open |-> TRUE, name |-> i.name, index |-> i.index, zone |-> i.zone,
                   reader |-> "reading", said |-> 0]
<1>1. PICK s \in Sock :
        /\ sock[s] = Unused /\ sock' = [sock EXCEPT ![s] = new]
        /\ conns' = conns \cup {s} /\ appeared' = appeared \cup {s}
  BY DEF Opening
<1>2. new \in Socket
  BY DEF Socket, Info, IInv, TypeOK
<1>3. s \notin conns
  BY <1>1 DEF IInv, NoLeak, Unused
<1>4. /\ sock' \in [Sock -> Socket \cup {Unused}]
      /\ sock'[s] = new /\ \A t \in Sock \ {s} : sock'[t] = sock[t]
  BY <1>1, <1>2, Replaced DEF IInv
<1> QED BY <1>1, <1>3, <1>4

-----------------------------------------------------------------------------
\* Types are kept by every step.
LEMMA TypeStep == IInv /\ [Next]_vars => TypeOK'
<1> SUFFICES ASSUME IInv, [Next]_vars PROVE TypeOK'
  OBVIOUS
<1>1. ASSUME PollBegins PROVE TypeOK'
  BY <1>1, ResponderAssumption DEF PollBegins, Rest, IInv, TypeOK, around, polling
<1>2. ASSUME EnumerationFails PROVE TypeOK'
  BY <1>2, ResponderAssumption DEF EnumerationFails, Rest, Move, IInv, TypeOK, around, polling
<1>3. ASSUME NEW n \in Name, Look(n) PROVE TypeOK'
  BY <1>3, BegunType DEF Look, IInv, TypeOK, around
<1>4. ASSUME NEW n \in Name, LookFails(n) PROVE TypeOK'
  BY <1>4, ResponderAssumption DEF LookFails, Move, IInv, TypeOK, around, polling
<1>5. ASSUME NEW s \in conns, Closing(s) PROVE TypeOK'
  <2>1. s \notin appeared
    BY <1>5 DEF Closing, Vanished, IInv, PollInv
  <2>2. sock[s].name \in Name
    BY InUse DEF IInv, TypeOK, NoLeak, Socket
  <2> QED BY <1>5, <2>1, <2>2, ClosingOne DEF Closing, IInv, TypeOK, around, polling
<1>6. ASSUME NEW i \in desired, Opening(i) PROVE TypeOK'
  BY <1>6, OpeningOne DEF Opening, IInv, TypeOK, around
<1>7. ASSUME NEW i \in desired, OpeningFails(i) PROVE TypeOK'
  BY <1>7, ResponderAssumption DEF OpeningFails, Closed, Wanted, Vanished, Move, IInv, TypeOK,
     around, polling
<1>8. ASSUME PollEnds PROVE TypeOK'
  BY <1>8, ResponderAssumption DEF PollEnds, Closed, Vanished, Rest, IInv, TypeOK, around,
     polling
<1>9. ASSUME AnnounceOnce PROVE TypeOK'
  <2>1. pc \in {"look", "gap"} /\ Announced
    BY <1>9 DEF AnnounceOnce, Closed, polling
  <2>2. unretracted' \subseteq Name
    BY <2>1 DEF Announced, IInv, TypeOK
  <2> QED BY <1>9, <2>1, <2>2, Announcing
           DEF Announced, AnnounceOnce, Closed, polling, IInv, TypeOK, around
<1>10. ASSUME GapCancelled PROVE TypeOK'
  BY <1>10, ResponderAssumption DEF GapCancelled, Rest, IInv, TypeOK, around, polling
<1>11. ASSUME AnnounceAgain PROVE TypeOK'
  <2>1. pc \in {"look", "gap"} /\ Announced
    BY <1>11 DEF AnnounceAgain, Rest
  <2>2. unretracted' \subseteq Name
    BY <2>1 DEF Announced, IInv, TypeOK
  <2> QED BY <1>11, <2>1, <2>2, Announcing
           DEF Announced, AnnounceAgain, Rest, IInv, TypeOK, around
<1>12. ASSUME SeeCancel PROVE TypeOK'
  BY <1>12, ResponderAssumption DEF SeeCancel, IInv, TypeOK, around, polling
<1>13. ASSUME NEW s \in conns, Goodbye(s) PROVE TypeOK'
  <2>1. heard' \in [Name -> Addrs \cup {None}]
    BY <1>13 DEF Goodbye, IInv, TypeOK
  <2> QED BY <1>13, <2>1, SayingGoodbye DEF Goodbye, IInv, TypeOK, around, polling
<1>14. ASSUME NEW s \in conns, HangUp(s) PROVE TypeOK'
  BY <1>14, ClosingOne DEF HangUp, IInv, TypeOK, PollInv, around, polling
<1>15. ASSUME Return PROVE TypeOK'
  BY <1>15, ResponderAssumption DEF Return, IInv, TypeOK, around, polling
<1>16. ASSUME NEW s \in Sock, Query(s) PROVE TypeOK'
  BY <1>16, ReaderLeaves DEF IInv, TypeOK, Query, ReaderStep, ReaderWorks, around, polling
<1>17. ASSUME NEW s \in Sock, Answer(s) PROVE TypeOK'
  <2>1. heard' \in [Name -> Addrs \cup {None}]
    BY <1>17, TaughtType DEF IInv, Answer
  <2>2. sock[s].name \in Name
    BY <1>17, InUse DEF IInv, Answer, Socket
  <2>3. unretracted' \subseteq Name
    BY <1>17, <2>2 DEF IInv, TypeOK, Answer
  <2> QED BY <1>17, ReaderLeaves, <2>1, <2>3
          DEF IInv, TypeOK, Answer, ReaderStep, ReaderWorks, around, polling
<1>18. ASSUME NEW s \in Sock, ReaderEnds(s) PROVE TypeOK'
  BY <1>18, ReaderLeaves DEF IInv, TypeOK, ReaderEnds, ReaderStep, ReaderWorks, around, polling
<1>19. ASSUME NEW s \in Sock, ReadFails(s) PROVE TypeOK'
  <2>1. moves' \in 0 .. MaxMoves
    BY <1>19, ResponderAssumption DEF ReadFails, Move, IInv, TypeOK
  <2> QED BY <1>19, <2>1, ReaderLeaves DEF IInv, TypeOK, ReadFails, polling
<1>20. ASSUME NEW s \in Sock, Collected(s) PROVE TypeOK'
  BY <1>20, ReaderLeaves DEF IInv, TypeOK, Collected, ReaderStep, ReaderWorks, around, polling
<1>21. ASSUME NEW n \in Name, InterfaceMoves(n) PROVE TypeOK'
  BY <1>21, ResponderAssumption DEF InterfaceMoves, Move, Within, IInv, TypeOK, around, polling
<1>22. ASSUME HotspotMoves PROVE TypeOK'
  <2>1. hotspot' \in BOOLEAN
    BY <1>22 DEF HotspotMoves
  <2>2. moves' \in 0 .. MaxMoves
    BY <1>22, ResponderAssumption DEF HotspotMoves, Move, IInv, TypeOK
  <2> QED BY <1>22, <2>1, <2>2 DEF HotspotMoves, Within, IInv, TypeOK, polling
<1>23. ASSUME Cancel PROVE TypeOK'
  BY <1>23, ResponderAssumption DEF Cancel, Within, IInv, TypeOK, around, polling
<1>24. ASSUME UNCHANGED vars PROVE TypeOK'
  BY <1>24, ResponderAssumption DEF vars, IInv, TypeOK, around, polling
<1>25. QED BY <1>1, <1>2, <1>3, <1>4, <1>5, <1>6, <1>7, <1>8, <1>9, <1>10, <1>11, <1>12, <1>13,
   <1>14, <1>15, <1>16, <1>17, <1>18, <1>19, <1>20, <1>21, <1>22, <1>23, <1>24 DEF Next,
   RunStep, ReaderWorks

\* What is open stays in the map.
LEMMA LeakStep == IInv /\ [Next]_vars => NoLeak'
<1> SUFFICES ASSUME IInv, [Next]_vars PROVE NoLeak'
  OBVIOUS
<1>1. ASSUME PollBegins PROVE NoLeak'
  BY <1>1 DEF PollBegins, Rest, IInv, TypeOK, NoLeak, Unused, around, polling
<1>2. ASSUME EnumerationFails PROVE NoLeak'
  BY <1>2 DEF EnumerationFails, Rest, Move, IInv, TypeOK, NoLeak, Unused, around, polling
<1>3. ASSUME NEW n \in Name, Look(n) PROVE NoLeak'
  BY <1>3 DEF Look, IInv, TypeOK, NoLeak, Unused, around, polling
<1>4. ASSUME NEW n \in Name, LookFails(n) PROVE NoLeak'
  BY <1>4 DEF LookFails, Move, IInv, TypeOK, NoLeak, Unused, around, polling
<1>5. ASSUME NEW s \in conns, Closing(s) PROVE NoLeak'
  BY <1>5, ClosingOne DEF Closing, IInv, TypeOK, NoLeak
<1>6. ASSUME NEW i \in desired, Opening(i) PROVE NoLeak'
  <2>1. \A t \in conns : t \in Sock /\ Key(sock[t]) # Key(i)
    BY <1>6 DEF Opening, Wanted, IInv, TypeOK
  <2> QED BY <1>6, <2>1, OpeningOne DEF IInv, NoLeak, Key, TypeOK, Unused
<1>7. ASSUME NEW i \in desired, OpeningFails(i) PROVE NoLeak'
  BY <1>7 DEF OpeningFails, Closed, Wanted, Vanished, Move, IInv, TypeOK, NoLeak, Unused,
     around, polling
<1>8. ASSUME PollEnds PROVE NoLeak'
  BY <1>8 DEF PollEnds, Closed, Vanished, Rest, IInv, TypeOK, NoLeak, Unused, around, polling
<1>9. ASSUME AnnounceOnce PROVE NoLeak'
  <2>1. pc \in {"look", "gap"} /\ Announced
    BY <1>9 DEF AnnounceOnce, Closed, polling
  <2> QED BY <2>1, Announcing DEF IInv, TypeOK, NoLeak, Key
<1>10. ASSUME GapCancelled PROVE NoLeak'
  BY <1>10 DEF GapCancelled, Rest, IInv, TypeOK, NoLeak, Unused, around, polling
<1>11. ASSUME AnnounceAgain PROVE NoLeak'
  <2>1. pc \in {"look", "gap"} /\ Announced
    BY <1>11 DEF AnnounceAgain, Rest
  <2> QED BY <2>1, Announcing DEF IInv, TypeOK, NoLeak, Key
<1>12. ASSUME SeeCancel PROVE NoLeak'
  BY <1>12 DEF SeeCancel, IInv, TypeOK, NoLeak, Unused, around, polling
<1>13. ASSUME NEW s \in conns, Goodbye(s) PROVE NoLeak'
  BY <1>13, SayingGoodbye DEF Goodbye, IInv, TypeOK, NoLeak, Key
<1>14. ASSUME NEW s \in conns, HangUp(s) PROVE NoLeak'
  BY <1>14, ClosingOne DEF HangUp, IInv, TypeOK, NoLeak
<1>15. ASSUME Return PROVE NoLeak'
  BY <1>15 DEF Return, IInv, TypeOK, NoLeak, Unused, around, polling
<1>16. ASSUME NEW s \in Sock, Query(s) PROVE NoLeak'
  BY <1>16, ReaderLeaves DEF IInv, ReaderWorks, NoLeak, Key, Alike, TypeOK
<1>17. ASSUME NEW s \in Sock, Answer(s) PROVE NoLeak'
  BY <1>17, ReaderLeaves DEF IInv, ReaderWorks, NoLeak, Key, Alike, TypeOK
<1>18. ASSUME NEW s \in Sock, ReaderEnds(s) PROVE NoLeak'
  BY <1>18, ReaderLeaves DEF IInv, ReaderWorks, NoLeak, Key, Alike, TypeOK
<1>19. ASSUME NEW s \in Sock, ReadFails(s) PROVE NoLeak'
  BY <1>19, ReaderLeaves DEF IInv, ReaderWorks, NoLeak, Key, Alike, TypeOK
<1>20. ASSUME NEW s \in Sock, Collected(s) PROVE NoLeak'
  BY <1>20, ReaderLeaves DEF IInv, ReaderWorks, NoLeak, Key, Alike, TypeOK
<1>21. ASSUME NEW n \in Name, InterfaceMoves(n) PROVE NoLeak'
  BY <1>21 DEF InterfaceMoves, Move, Within, IInv, TypeOK, NoLeak, Unused, around, polling
<1>22. ASSUME HotspotMoves PROVE NoLeak'
  BY <1>22 DEF HotspotMoves, Move, Within, IInv, TypeOK, NoLeak, Unused, around, polling
<1>23. ASSUME Cancel PROVE NoLeak'
  BY <1>23 DEF Cancel, Within, IInv, TypeOK, NoLeak, Unused, around, polling
<1>24. ASSUME UNCHANGED vars PROVE NoLeak'
  BY <1>24 DEF vars, IInv, TypeOK, NoLeak, Unused, around, polling
<1>25. QED BY <1>1, <1>2, <1>3, <1>4, <1>5, <1>6, <1>7, <1>8, <1>9, <1>10, <1>11, <1>12, <1>13,
   <1>14, <1>15, <1>16, <1>17, <1>18, <1>19, <1>20, <1>21, <1>22, <1>23, <1>24 DEF Next,
   RunStep, ReaderWorks

\* A poll goes on as it began.
LEMMA PollStep == IInv /\ [Next]_vars => PollInv'
<1> SUFFICES ASSUME IInv, [Next]_vars PROVE PollInv'
  OBVIOUS
<1>1. ASSUME PollBegins PROVE PollInv'
  BY <1>1 DEF PollBegins, Rest, IInv, TypeOK, PollInv, around, polling
<1>2. ASSUME EnumerationFails PROVE PollInv'
  BY <1>2 DEF EnumerationFails, Rest, Move, IInv, TypeOK, PollInv, around, polling
<1>3. ASSUME NEW n \in Name, Look(n) PROVE PollInv'
  <2>1. \A i \in desired' : i.name \notin todo'
    BY <1>3, BegunType DEF Look, IInv, TypeOK, PollInv
  <2>2. pc = "look" /\ UNCHANGED <<pc, appeared, conns, sock>> /\ desired \subseteq desired'
    BY <1>3 DEF Look
  <2> QED BY <2>1, <2>2 DEF IInv, PollInv
<1>4. ASSUME NEW n \in Name, LookFails(n) PROVE PollInv'
  BY <1>4 DEF LookFails, Move, IInv, TypeOK, PollInv, around, polling
<1>5. ASSUME NEW s \in conns, Closing(s) PROVE PollInv'
  BY <1>5 DEF Closing, Vanished, IInv, TypeOK, PollInv, around, polling
<1>6. ASSUME NEW i \in desired, Opening(i) PROVE PollInv'
  <2>1. pc = "look" /\ pc' = pc /\ desired' = desired /\ todo' = todo
    BY <1>6 DEF Opening, Closed, around
  <2>2. \A s \in appeared' : \E j \in desired : Key(j) = Key(sock'[s])
    BY <1>6, OpeningOne DEF IInv, TypeOK, PollInv, Key
  <2> QED BY <2>1, <2>2 DEF IInv, PollInv
<1>7. ASSUME NEW i \in desired, OpeningFails(i) PROVE PollInv'
  BY <1>7 DEF OpeningFails, Closed, Wanted, Vanished, Move, IInv, TypeOK, PollInv, around,
     polling
<1>8. ASSUME PollEnds PROVE PollInv'
  BY <1>8 DEF PollEnds, Closed, Vanished, Rest, IInv, TypeOK, PollInv, around, polling
<1>9. ASSUME AnnounceOnce PROVE PollInv'
  <2>1. pc = "look" /\ Announced /\ pc' = "gap" /\ UNCHANGED polling
    BY <1>9 DEF AnnounceOnce, Closed
  <2>2. \A s \in appeared : s \in Sock /\ Key(sock'[s]) = Key(sock[s])
    BY <2>1, Announcing DEF IInv, TypeOK, Key
  <2> QED BY <2>1, <2>2 DEF IInv, PollInv, polling
<1>10. ASSUME GapCancelled PROVE PollInv'
  BY <1>10 DEF GapCancelled, Rest, IInv, TypeOK, PollInv, around, polling
<1>11. ASSUME AnnounceAgain PROVE PollInv'
  BY <1>11 DEF AnnounceAgain, Announced, Rest, IInv, TypeOK, PollInv, around, polling
<1>12. ASSUME SeeCancel PROVE PollInv'
  BY <1>12 DEF SeeCancel, IInv, TypeOK, PollInv, around, polling
<1>13. ASSUME NEW s \in conns, Goodbye(s) PROVE PollInv'
  BY <1>13 DEF Goodbye, IInv, TypeOK, PollInv, around, polling
<1>14. ASSUME NEW s \in conns, HangUp(s) PROVE PollInv'
  BY <1>14 DEF HangUp, IInv, TypeOK, PollInv, around, polling
<1>15. ASSUME Return PROVE PollInv'
  BY <1>15 DEF Return, IInv, TypeOK, PollInv, around, polling
<1>16. ASSUME NEW s \in Sock, Query(s) PROVE PollInv'
  BY <1>16, ReaderLeaves DEF IInv, ReaderWorks, PollInv, Key, Alike, TypeOK, polling
<1>17. ASSUME NEW s \in Sock, Answer(s) PROVE PollInv'
  BY <1>17, ReaderLeaves DEF IInv, ReaderWorks, PollInv, Key, Alike, TypeOK, polling
<1>18. ASSUME NEW s \in Sock, ReaderEnds(s) PROVE PollInv'
  BY <1>18, ReaderLeaves DEF IInv, ReaderWorks, PollInv, Key, Alike, TypeOK, polling
<1>19. ASSUME NEW s \in Sock, ReadFails(s) PROVE PollInv'
  BY <1>19, ReaderLeaves DEF IInv, ReaderWorks, PollInv, Key, Alike, TypeOK, polling
<1>20. ASSUME NEW s \in Sock, Collected(s) PROVE PollInv'
  BY <1>20, ReaderLeaves DEF IInv, ReaderWorks, PollInv, Key, Alike, TypeOK, polling
<1>21. ASSUME NEW n \in Name, InterfaceMoves(n) PROVE PollInv'
  BY <1>21 DEF InterfaceMoves, Move, Within, IInv, TypeOK, PollInv, around, polling
<1>22. ASSUME HotspotMoves PROVE PollInv'
  BY <1>22 DEF HotspotMoves, Move, Within, IInv, TypeOK, PollInv, around, polling
<1>23. ASSUME Cancel PROVE PollInv'
  BY <1>23 DEF Cancel, Within, IInv, TypeOK, PollInv, around, polling
<1>24. ASSUME UNCHANGED vars PROVE PollInv'
  BY <1>24 DEF vars, IInv, TypeOK, PollInv, around, polling
<1>25. QED BY <1>1, <1>2, <1>3, <1>4, <1>5, <1>6, <1>7, <1>8, <1>9, <1>10, <1>11, <1>12, <1>13,
   <1>14, <1>15, <1>16, <1>17, <1>18, <1>19, <1>20, <1>21, <1>22, <1>23, <1>24 DEF Next,
   RunStep, ReaderWorks

\* A suppressed wlan0 does not come back.
LEMMA QuietStep == IInv /\ [Next]_vars => QuietInv'
<1> SUFFICES ASSUME IInv, [Next]_vars PROVE QuietInv'
  OBVIOUS
<1>1. ASSUME PollBegins PROVE QuietInv'
  BY <1>1 DEF PollBegins, Rest, IInv, TypeOK, PollInv, QuietInv, around, polling
<1>2. ASSUME EnumerationFails PROVE QuietInv'
  BY <1>2 DEF EnumerationFails, Rest, Move, IInv, TypeOK, PollInv, QuietInv, around, polling
<1>3. ASSUME NEW n \in Name, Look(n) PROVE QuietInv'
  <2>1. pc = "look" /\ UNCHANGED <<pc, hotspot, conns, sock>>
    BY <1>3 DEF Look, around
  <2>2. CASE n = "wlan0"
    <3>1. quiet' = hotspot /\ (hotspot => desired' = desired) /\ "wlan0" \notin todo'
      BY <1>3, <2>2 DEF Look, Eligible
    <3>2. \A i \in desired : i.name # "wlan0"
      BY <1>3, <2>1, <2>2 DEF Look, IInv, PollInv
    <3> QED BY <2>1, <3>1, <3>2 DEF QuietInv
  <2>3. CASE n # "wlan0"
    <3>1. quiet' = quiet /\ todo' = todo \ {n} /\ desired' \subseteq desired \cup {Begun(n)}
      BY <1>3, <2>3 DEF Look
    <3>2. Begun(n).name = n
      BY DEF Begun
    <3> QED BY <2>1, <2>3, <3>1, <3>2 DEF IInv, QuietInv
  <2> QED BY <2>2, <2>3
<1>4. ASSUME NEW n \in Name, LookFails(n) PROVE QuietInv'
  BY <1>4 DEF LookFails, Move, IInv, TypeOK, PollInv, QuietInv, around, polling
<1>5. ASSUME NEW s \in conns, Closing(s) PROVE QuietInv'
  BY <1>5 DEF Closing, Vanished, IInv, TypeOK, PollInv, QuietInv, around, polling
<1>6. ASSUME NEW i \in desired, Opening(i) PROVE QuietInv'
  BY <1>6 DEF Opening, Closed, Wanted, Vanished, IInv, TypeOK, PollInv, QuietInv, around,
     polling
<1>7. ASSUME NEW i \in desired, OpeningFails(i) PROVE QuietInv'
  BY <1>7 DEF OpeningFails, Closed, Wanted, Vanished, Move, IInv, TypeOK, PollInv, QuietInv,
     around, polling
<1>8. ASSUME PollEnds PROVE QuietInv'
  BY <1>8, ClosedIsQuiet DEF PollEnds, Rest, IInv, QuietInv, around
<1>9. ASSUME AnnounceOnce PROVE QuietInv'
  <2>1. pc \in {"look", "gap"} /\ Announced
    BY <1>9 DEF AnnounceOnce, Closed, polling
  <2> QED BY <1>9, <2>1, Announcing, ClosedIsQuiet
          DEF Announced, AnnounceOnce, Closed, polling, IInv, TypeOK, QuietInv, around
<1>10. ASSUME GapCancelled PROVE QuietInv'
  BY <1>10 DEF GapCancelled, Rest, IInv, TypeOK, PollInv, QuietInv, around, polling
<1>11. ASSUME AnnounceAgain PROVE QuietInv'
  <2>1. pc \in {"look", "gap"} /\ Announced
    BY <1>11 DEF AnnounceAgain, Rest
  <2> QED BY <1>11, <2>1, Announcing, ClosedIsQuiet
          DEF Announced, AnnounceAgain, Rest, IInv, TypeOK, QuietInv, around
<1>12. ASSUME SeeCancel PROVE QuietInv'
  BY <1>12 DEF SeeCancel, IInv, TypeOK, PollInv, QuietInv, around, polling
<1>13. ASSUME NEW s \in conns, Goodbye(s) PROVE QuietInv'
  BY <1>13 DEF Goodbye, IInv, TypeOK, PollInv, QuietInv, around, polling
<1>14. ASSUME NEW s \in conns, HangUp(s) PROVE QuietInv'
  BY <1>14 DEF HangUp, IInv, TypeOK, PollInv, QuietInv, around, polling
<1>15. ASSUME Return PROVE QuietInv'
  BY <1>15 DEF Return, IInv, TypeOK, PollInv, QuietInv, around, polling
<1>16. ASSUME NEW s \in Sock, Query(s) PROVE QuietInv'
  BY <1>16, ReaderLeaves DEF IInv, ReaderWorks, QuietInv, Alike, polling
<1>17. ASSUME NEW s \in Sock, Answer(s) PROVE QuietInv'
  BY <1>17, ReaderLeaves DEF IInv, ReaderWorks, QuietInv, Alike, polling
<1>18. ASSUME NEW s \in Sock, ReaderEnds(s) PROVE QuietInv'
  BY <1>18, ReaderLeaves DEF IInv, ReaderWorks, QuietInv, Alike, polling
<1>19. ASSUME NEW s \in Sock, ReadFails(s) PROVE QuietInv'
  BY <1>19, ReaderLeaves DEF IInv, ReaderWorks, QuietInv, Alike, polling
<1>20. ASSUME NEW s \in Sock, Collected(s) PROVE QuietInv'
  BY <1>20, ReaderLeaves DEF IInv, ReaderWorks, QuietInv, Alike, polling
<1>21. ASSUME NEW n \in Name, InterfaceMoves(n) PROVE QuietInv'
  BY <1>21 DEF InterfaceMoves, Move, Within, IInv, TypeOK, PollInv, QuietInv, around, polling
<1>22. ASSUME HotspotMoves PROVE QuietInv'
  BY <1>22 DEF HotspotMoves, Move, Within, IInv, TypeOK, PollInv, QuietInv, around, polling
<1>23. ASSUME Cancel PROVE QuietInv'
  BY <1>23 DEF Cancel, Within, IInv, TypeOK, PollInv, QuietInv, around, polling
<1>24. ASSUME UNCHANGED vars PROVE QuietInv'
  BY <1>24 DEF vars, IInv, TypeOK, PollInv, QuietInv, around, polling
<1>25. QED BY <1>1, <1>2, <1>3, <1>4, <1>5, <1>6, <1>7, <1>8, <1>9, <1>10, <1>11, <1>12, <1>13,
   <1>14, <1>15, <1>16, <1>17, <1>18, <1>19, <1>20, <1>21, <1>22, <1>23, <1>24 DEF Next,
   RunStep, ReaderWorks

\* The announcements are counted.
LEMMA SaidStep == IInv /\ [Next]_vars => SaidInv'
<1> SUFFICES ASSUME IInv, [Next]_vars PROVE SaidInv'
  OBVIOUS
<1>1. ASSUME PollBegins PROVE SaidInv'
  BY <1>1 DEF PollBegins, Rest, IInv, TypeOK, PollInv, NoLeak, SaidInv, around, polling
<1>2. ASSUME EnumerationFails PROVE SaidInv'
  BY <1>2 DEF EnumerationFails, Rest, Move, IInv, TypeOK, PollInv, NoLeak, SaidInv, around,
     polling
<1>3. ASSUME NEW n \in Name, Look(n) PROVE SaidInv'
  BY <1>3 DEF Look, IInv, TypeOK, PollInv, NoLeak, SaidInv, around, polling
<1>4. ASSUME NEW n \in Name, LookFails(n) PROVE SaidInv'
  BY <1>4 DEF LookFails, Move, IInv, TypeOK, PollInv, NoLeak, SaidInv, around, polling
<1>5. ASSUME NEW s \in conns, Closing(s) PROVE SaidInv'
  BY <1>5 DEF Closing, Vanished, IInv, TypeOK, PollInv, NoLeak, SaidInv, around, polling
<1>6. ASSUME NEW i \in desired, Opening(i) PROVE SaidInv'
  BY <1>6 DEF Opening, Closed, Wanted, Vanished, IInv, TypeOK, PollInv, NoLeak, SaidInv, around,
     polling
<1>7. ASSUME NEW i \in desired, OpeningFails(i) PROVE SaidInv'
  BY <1>7 DEF OpeningFails, Closed, Wanted, Vanished, Move, IInv, TypeOK, PollInv, NoLeak,
     SaidInv, around, polling
<1>8. ASSUME PollEnds PROVE SaidInv'
  BY <1>8 DEF PollEnds, Closed, Vanished, Rest, IInv, TypeOK, PollInv, NoLeak, SaidInv, around,
     polling
<1>9. ASSUME AnnounceOnce PROVE SaidInv'
  <2>1. pc \in {"look", "gap"} /\ Announced
    BY <1>9 DEF AnnounceOnce, Closed, polling
  <2> QED BY <1>9, <2>1, Announcing
           DEF Announced, AnnounceOnce, Closed, polling, IInv, TypeOK, SaidInv, around
<1>10. ASSUME GapCancelled PROVE SaidInv'
  BY <1>10 DEF GapCancelled, Rest, IInv, TypeOK, PollInv, NoLeak, SaidInv, around, polling
<1>11. ASSUME AnnounceAgain PROVE SaidInv'
  <2>1. pc \in {"look", "gap"} /\ Announced
    BY <1>11 DEF AnnounceAgain, Rest
  <2> QED BY <1>11, <2>1, Announcing
           DEF Announced, AnnounceAgain, Rest, IInv, TypeOK, SaidInv, around
<1>12. ASSUME SeeCancel PROVE SaidInv'
  BY <1>12 DEF SeeCancel, IInv, TypeOK, PollInv, NoLeak, SaidInv, around, polling
<1>13. ASSUME NEW s \in conns, Goodbye(s) PROVE SaidInv'
  BY <1>13 DEF Goodbye, IInv, TypeOK, PollInv, NoLeak, SaidInv, around, polling
<1>14. ASSUME NEW s \in conns, HangUp(s) PROVE SaidInv'
  BY <1>14 DEF HangUp, IInv, TypeOK, PollInv, NoLeak, SaidInv, around, polling
<1>15. ASSUME Return PROVE SaidInv'
  BY <1>15 DEF Return, IInv, TypeOK, PollInv, NoLeak, SaidInv, around, polling
<1>16. ASSUME NEW s \in Sock, Query(s) PROVE SaidInv'
  BY <1>16, ReaderLeaves DEF IInv, ReaderWorks, SaidInv, Alike, TypeOK, polling
<1>17. ASSUME NEW s \in Sock, Answer(s) PROVE SaidInv'
  BY <1>17, ReaderLeaves DEF IInv, ReaderWorks, SaidInv, Alike, TypeOK, polling
<1>18. ASSUME NEW s \in Sock, ReaderEnds(s) PROVE SaidInv'
  BY <1>18, ReaderLeaves DEF IInv, ReaderWorks, SaidInv, Alike, TypeOK, polling
<1>19. ASSUME NEW s \in Sock, ReadFails(s) PROVE SaidInv'
  BY <1>19, ReaderLeaves DEF IInv, ReaderWorks, SaidInv, Alike, TypeOK, polling
<1>20. ASSUME NEW s \in Sock, Collected(s) PROVE SaidInv'
  BY <1>20, ReaderLeaves DEF IInv, ReaderWorks, SaidInv, Alike, TypeOK, polling
<1>21. ASSUME NEW n \in Name, InterfaceMoves(n) PROVE SaidInv'
  BY <1>21 DEF InterfaceMoves, Move, Within, IInv, TypeOK, PollInv, NoLeak, SaidInv, around,
     polling
<1>22. ASSUME HotspotMoves PROVE SaidInv'
  BY <1>22 DEF HotspotMoves, Move, Within, IInv, TypeOK, PollInv, NoLeak, SaidInv, around,
     polling
<1>23. ASSUME Cancel PROVE SaidInv'
  BY <1>23 DEF Cancel, Within, IInv, TypeOK, PollInv, NoLeak, SaidInv, around, polling
<1>24. ASSUME UNCHANGED vars PROVE SaidInv'
  BY <1>24 DEF vars, IInv, TypeOK, PollInv, NoLeak, SaidInv, around, polling
<1>25. QED BY <1>1, <1>2, <1>3, <1>4, <1>5, <1>6, <1>7, <1>8, <1>9, <1>10, <1>11, <1>12, <1>13,
   <1>14, <1>15, <1>16, <1>17, <1>18, <1>19, <1>20, <1>21, <1>22, <1>23, <1>24 DEF Next,
   RunStep, ReaderWorks

\* The conjunction is inductive: it holds in every reachable state.
THEOREM Inductive == Spec => []IInv
<1>1. IInv /\ [Next]_vars => IInv'
  BY TypeStep, LeakStep, PollStep, QuietStep, SaidStep DEF IInv
<1> QED
  BY Initially, <1>1, PTL DEF Spec

\* Types are kept; in particular no listener is announced a third time.
THEOREM TypeCorrect == Spec => []TypeOK
<1>1. IInv => TypeOK
  BY DEF IInv
<1> QED
  BY <1>1, Inductive, PTL

\* No poll, failure or shutdown leaves a socket that the map has forgotten,
\* nor two listeners for one interface.
THEOREM NothingLeaks == Spec => []NoLeak
<1>1. IInv => NoLeak
  BY DEF IInv
<1> QED
  BY <1>1, Inductive, PTL

\* From the poll that finds the hotspot up until it goes down again, the
\* responder has no listener on wlan0.
THEOREM HotspotIsQuiet == Spec => []HotspotQuiet
<1>1. IInv => HotspotQuiet
  BY DEF IInv, TypeOK, QuietInv, HotspotQuiet, Closed, Vanished, Key
<1> QED
  BY <1>1, Inductive, PTL

\* Between two polls every listener has been announced twice.
THEOREM EachIsAnnouncedTwice == Spec => []AnnouncedTwice
<1>1. IInv => AnnouncedTwice
  BY DEF IInv, PollInv, SaidInv, AnnouncedTwice
<1> QED
  BY <1>1, Inductive, PTL

-----------------------------------------------------------------------------
(***************************************************************************)
(* The goodbyes. An address that peers have cached has a live listener     *)
(* behind it (HeardInv), which will say goodbye. For that an interface has *)
(* one listener (Single), and one that a peer cannot hear any more has     *)
(* nothing left in the caches (StaleInv): indices are never used again     *)
(* (Indexed), and a link that goes takes its peers with it.                *)
(***************************************************************************)
Indexed ==
  /\ \A i \in desired : i.index <= moves + 1
  /\ \A s \in conns : sock[s].index <= moves + 1
  /\ \A n \in Name : ifaces[n] # None => ifaces[n].index <= moves + 1

Single ==
  /\ \A i, j \in desired : i.name = j.name => i = j
  /\ \A s, t \in conns : sock[s].name = sock[t].name => s = t

There(i) == ifaces[i.name] # None /\ ifaces[i.name].index = i.index

StaleInv ==
  /\ \A i \in desired : ~There(i) =>
       heard[i.name] = None /\ \A s \in conns : sock[s].name = i.name => ~Reaches(s)
  /\ \A s \in conns : ~Reaches(s) => heard[sock[s].name] = None

Spoken ==
  /\ pc # "goodbye" => \A s \in conns \ appeared : sock[s].said # 0
  /\ pc = "done" => conns = {}
  /\ pc \notin {"look", "gap"} => desired = {}

Behind(s, n) ==
  /\ sock[s].name = n /\ sock[s].zone = heard[n] /\ Reaches(s)
  /\ pc = "goodbye" => sock[s].said # 0

HeardInv ==
  \A n \in Name \ unretracted : heard[n] # None => \E s \in conns : Behind(s, n)

RInv == Indexed /\ Single /\ StaleInv /\ Spoken /\ HeardInv

\* Steps that leave listeners, links and caches alone, and want no more than
\* before.
Aside ==
  \/ PollBegins \/ EnumerationFails \/ PollEnds \/ GapCancelled \/ SeeCancel \/ Return
  \/ HotspotMoves \/ Cancel \/ UNCHANGED vars
  \/ \E n \in Name : LookFails(n)
  \/ \E i \in desired : OpeningFails(i)

Announces == AnnounceOnce \/ AnnounceAgain

ReaderActs(s) == ReaderWorks(s) \/ Query(s) \/ ReadFails(s)

\* Ten kinds of step.
LEMMA Kinds ==
  ASSUME [Next]_vars
  PROVE  \/ Aside \/ Announces
         \/ \E n \in Name : Look(n) \/ InterfaceMoves(n)
         \/ \E i \in desired : Opening(i)
         \/ \E s \in conns : Closing(s) \/ Goodbye(s) \/ HangUp(s)
         \/ \E s \in Sock : ReaderActs(s)
  BY DEF Next, RunStep, Aside, Announces, ReaderActs

LEMMA AsideLeaves ==
  ASSUME IInv, Aside
  PROVE  /\ UNCHANGED <<ifaces, conns, sock, heard, unretracted>>
         /\ desired' \subseteq desired /\ moves' \in Nat /\ moves' >= moves
<1> moves \in Nat
  BY DEF IInv, TypeOK
<1> QED BY DEF Aside, PollBegins, EnumerationFails, PollEnds, GapCancelled, SeeCancel, Return,
               HotspotMoves, Cancel, LookFails, OpeningFails, Rest, Move, Within, around, polling,
               vars

\* A message teaches the address of a listener that reaches its link.
LEMMA TaughtBy ==
  ASSUME NEW socks, socks \subseteq Sock, NEW n \in Name
  PROVE  \/ /\ \A s \in socks : Reaches(s) => sock[s].name # n
            /\ Taught(socks)[n] = heard[n]
         \/ \E s \in socks : Reaches(s) /\ sock[s].name = n /\ Taught(socks)[n] = sock[s].zone
<1>1. CASE \A s \in socks : Reaches(s) => sock[s].name # n
  BY <1>1 DEF Taught
<1>2. CASE \E s \in socks : Reaches(s) /\ sock[s].name = n
  <2> DEFINE reaching == {sock[s] : s \in {t \in socks : Reaches(t)}}
             told == CHOOSE c \in reaching : c.name = n
  <2>1. told \in reaching /\ told.name = n
    BY <1>2
  <2>2. Taught(socks)[n] = told.zone
    BY <1>2 DEF Taught
  <2> QED BY <2>1, <2>2
<1> QED BY <1>1, <1>2

LEMMA ReachesOpen == ASSUME IInv, NEW s \in Sock, Reaches(s) PROVE s \in conns
  BY DEF IInv, NoLeak, Reaches

\* A reader's step leaves links, listeners and what a poll wants alone.
LEMMA ReaderReaches ==
  ASSUME IInv, NEW s \in Sock, ReaderActs(s)
  PROVE  /\ \A t \in conns : /\ Alike(sock[t], sock'[t])
                             /\ Reaches(t)' <=> Reaches(t)
         /\ UNCHANGED <<pc, ifaces, desired, appeared, conns>>
         /\ moves' \in Nat /\ moves' >= moves
<1>1. \A t \in conns : t \in Sock
  BY DEF IInv, TypeOK
<1>2. \A t \in conns : Alike(sock[t], sock'[t]) /\ sock'[t].open = sock[t].open
  BY <1>1, ReaderLeaves DEF ReaderActs
<1>3. UNCHANGED <<pc, ifaces, desired, appeared, conns>>
  BY ReaderLeaves DEF ReaderActs, polling
<1>4. moves' \in Nat /\ moves' >= moves
  BY DEF IInv, TypeOK, ReaderActs, ReaderWorks, Query, Answer, ReaderEnds, Collected, ReadFails,
         ReaderStep, Move, around
<1> QED BY <1>2, <1>3, <1>4 DEF Alike, Reaches

\* What a reader tells, if anything.
LEMMA AnswersTell ==
  ASSUME IInv, NEW s \in Sock, ReaderActs(s), NEW n \in Name
  PROVE  \/ heard'[n] = heard[n] /\ (n \in unretracted => n \in unretracted')
         \/ /\ Reaches(s) /\ sock[s].name = n /\ heard'[n] = sock[s].zone
            /\ pc = "goodbye" /\ sock[s].said = 0 => n \in unretracted'
<1>1. CASE Answer(s)
  <2>1. heard' = Taught({s})
    BY <1>1 DEF Answer
  <2>2. \/ heard'[n] = heard[n]
        \/ Reaches(s) /\ sock[s].name = n /\ heard'[n] = sock[s].zone
    BY <2>1, TaughtBy
  <2> QED BY <1>1, <2>2 DEF Answer
<1>2. CASE ~Answer(s)
  BY <1>2 DEF ReaderActs, ReaderWorks, Query, ReaderEnds, Collected, ReadFails
<1> QED BY <1>1, <1>2

\* An announcement leaves them alone too.
LEMMA AnnouncesReaches ==
  ASSUME IInv, Announces
  PROVE  /\ Announced /\ pc \in {"look", "gap"} /\ pc' \in {"gap", "wait"}
         /\ \A t \in conns : /\ sock'[t].name = sock[t].name /\ sock'[t].index = sock[t].index
                             /\ sock'[t].zone = sock[t].zone
                             /\ Reaches(t)' <=> Reaches(t)
         /\ UNCHANGED <<ifaces, conns, moves>> /\ desired' \subseteq desired
<1>1. Announced /\ pc \in {"look", "gap"} /\ pc' \in {"gap", "wait"}
  BY DEF Announces, AnnounceOnce, AnnounceAgain, Closed, Rest
<1>2. desired' \subseteq desired
  BY DEF Announces, AnnounceOnce, AnnounceAgain, Rest, polling
<1>3. UNCHANGED <<ifaces, conns, moves>>
  BY <1>1 DEF Announced, around
<1>4. \A t \in conns : t \in Sock
  BY DEF IInv, TypeOK
<1> QED BY <1>1, <1>2, <1>3, <1>4, Announcing DEF Reaches

\* What an announcement tells.
LEMMA AnnouncesTells ==
  ASSUME IInv, Announces, NEW n \in Name
  PROVE  \/ /\ \A s \in appeared : Reaches(s) => sock[s].name # n
            /\ heard'[n] = heard[n]
         \/ \E s \in appeared :
              Reaches(s) /\ sock[s].name = n /\ heard'[n] = sock[s].zone
<1>1. appeared \subseteq Sock /\ heard' = Taught(appeared)
  BY AnnouncesReaches DEF Announced, IInv, TypeOK
<1> QED BY <1>1, TaughtBy

\* A goodbye leaves the links alone.
LEMMA GoodbyeReaches ==
  ASSUME IInv, NEW s \in conns, Goodbye(s)
  PROVE  /\ \A t \in conns : /\ sock'[t].name = sock[t].name /\ sock'[t].index = sock[t].index
                             /\ Reaches(t)' <=> Reaches(t)
         /\ UNCHANGED <<ifaces, conns, moves, desired>>
<1>1. UNCHANGED <<ifaces, conns, moves, desired>>
  BY DEF Goodbye, around, polling
<1>2. \A t \in conns : t \in Sock
  BY DEF IInv, TypeOK
<1> QED BY <1>1, <1>2, SayingGoodbye DEF Reaches

\* A listener less, the others as they were.
LEMMA OneLess ==
  ASSUME IInv, NEW s \in conns, Closing(s) \/ HangUp(s)
  PROVE  /\ conns' = conns \ {s}
         /\ \A t \in conns' : sock'[t] = sock[t] /\ (Reaches(t)' <=> Reaches(t))
         /\ UNCHANGED <<ifaces, moves, desired, appeared, heard, pc>>
<1>1. conns' = conns \ {s} /\ UNCHANGED <<ifaces, moves, desired, appeared, heard, pc>>
  BY DEF Closing, HangUp, around, polling
<1>2. \A t \in conns : t \in Sock
  BY DEF IInv, TypeOK
<1>3. \A t \in Sock \ {s} : sock'[t] = sock[t]
  BY ClosingOne DEF Closing, HangUp
<1> QED BY <1>1, <1>2, <1>3 DEF Reaches

\* A listener more, for an interface that has none.
LEMMA OneMore ==
  ASSUME IInv, Single, NEW i \in desired, Opening(i)
  PROVE  \E s \in Sock :
           /\ conns' = conns \cup {s} /\ s \notin conns /\ appeared' = appeared \cup {s}
           /\ sock'[s].name = i.name /\ sock'[s].index = i.index
           /\ Reaches(s)' <=> There(i)
           /\ \A t \in conns : /\ sock'[t] = sock[t] /\ sock[t].name # i.name
                               /\ Reaches(t)' <=> Reaches(t)
           /\ UNCHANGED <<ifaces, moves, desired, heard, unretracted, pc>>
<1>1. UNCHANGED <<ifaces, moves, desired, heard, unretracted, pc>>
  BY DEF Opening, around
<1>2. PICK s \in Sock :
        /\ s \notin conns /\ sock'[s].open /\ sock'[s].name = i.name /\ sock'[s].index = i.index
        /\ \A t \in Sock \ {s} : sock'[t] = sock[t]
        /\ conns' = conns \cup {s} /\ appeared' = appeared \cup {s}
  BY OpeningOne
<1>3. ASSUME NEW t \in conns, sock[t].name = i.name PROVE FALSE
  <2>1. PICK j \in desired : Key(j) = Key(sock[t])
    BY DEF Opening, Closed, Vanished
  <2>2. j = i
    BY <1>3, <2>1 DEF Single, Key
  <2> QED BY <2>1, <2>2 DEF Opening, Wanted
<1>4. \A t \in conns : t \in Sock /\ sock'[t] = sock[t]
  BY <1>2 DEF IInv, TypeOK
<1> QED BY <1>1, <1>2, <1>3, <1>4 DEF Reaches, There

\* A link keeps its index as long as it is there, and loses its peers when it goes.
LEMMA LinkMoves ==
  ASSUME IInv, NEW n \in Name, InterfaceMoves(n)
  PROVE  /\ \A m \in Name \ {n} : ifaces'[m] = ifaces[m] /\ heard'[m] = heard[m]
         /\ \/ ifaces'[n] = None /\ heard'[n] = None
            \/ /\ ifaces'[n] # None /\ heard'[n] = heard[n]
               /\ ifaces'[n].index = IF ifaces[n] = None THEN moves + 2 ELSE ifaces[n].index
         /\ moves' = moves + 1
         /\ UNCHANGED <<sock, conns, desired, appeared, unretracted, pc>>
<1>1. moves' = moves + 1 /\ UNCHANGED <<sock, conns, desired, appeared, unretracted, pc>>
  BY DEF InterfaceMoves, Move, Within, polling
<1>2. heard' = [heard EXCEPT ![n] = IF ifaces'[n] = None THEN None ELSE @]
  BY DEF InterfaceMoves
<1>3. ifaces \in [Name -> {None} \cup [index : 1 .. MaxMoves + 1, zone : Addrs \cup {None}]]
  BY DEF IInv, TypeOK
<1>4. heard \in [Name -> Addrs \cup {None}]
  BY DEF IInv, TypeOK
<1>5. \/ ifaces' = [ifaces EXCEPT ![n] = None]
      \/ \E zone \in Addrs \cup {None} :
           ifaces' = [ifaces EXCEPT ![n] =
             [index |-> IF ifaces[n] = None THEN moves + 2 ELSE ifaces[n].index, zone |-> zone]]
  BY DEF InterfaceMoves
<1>6. \A m \in Name \ {n} : ifaces'[m] = ifaces[m]
  BY <1>3, <1>5
<1>7. \/ ifaces'[n] = None
      \/ ifaces'[n].index = IF ifaces[n] = None THEN moves + 2 ELSE ifaces[n].index
  BY <1>3, <1>5
<1>8. /\ \A m \in Name \ {n} : heard'[m] = heard[m]
      /\ heard'[n] = IF ifaces'[n] = None THEN None ELSE heard[n]
  BY <1>2, <1>4
<1> QED BY <1>1, <1>6, <1>7, <1>8

-----------------------------------------------------------------------------
\* Indices are never used again.
LEMMA IndexedStep == IInv /\ Indexed /\ Single /\ [Next]_vars => Indexed'
<1> SUFFICES ASSUME IInv, Indexed, Single, [Next]_vars PROVE Indexed'
  OBVIOUS
<1>1. ASSUME Aside PROVE Indexed'
  <2>1. \A t \in conns : sock[t].index \in Int
    BY InUse DEF IInv, TypeOK, NoLeak, Socket
  <2>2. /\ moves \in Nat /\ \A i \in desired : i.index \in Int
        /\ \A m \in Name : ifaces[m] # None => ifaces[m].index \in Int
    BY DEF IInv, TypeOK, Info
  <2> QED BY <1>1, <2>1, <2>2, AsideLeaves DEF Indexed
<1>2. ASSUME Announces PROVE Indexed'
  BY <1>2, AnnouncesReaches DEF Indexed
<1>3. ASSUME NEW n \in Name, Look(n) PROVE Indexed'
  <2>1. Eligible(n) => Begun(n).index <= moves + 1
    BY DEF Indexed, Eligible, Begun
  <2> QED BY <1>3, <2>1 DEF Indexed, Look, around
<1>4. ASSUME NEW n \in Name, InterfaceMoves(n) PROVE Indexed'
  <2>1. \A t \in conns : sock[t].index \in Int
    BY InUse DEF IInv, TypeOK, NoLeak, Socket
  <2>2. /\ moves \in Nat /\ \A i \in desired : i.index \in Int
        /\ \A m \in Name : ifaces[m] # None => ifaces[m].index \in Int
    BY DEF IInv, TypeOK, Info
  <2>3. \A m \in Name : ifaces'[m] # None => ifaces'[m].index <= moves' + 1
    BY <1>4, <2>2, LinkMoves DEF Indexed
  <2> QED BY <1>4, <2>1, <2>2, <2>3, LinkMoves DEF Indexed
<1>5. ASSUME NEW i \in desired, Opening(i) PROVE Indexed'
  BY <1>5, OneMore DEF Indexed
<1>6. ASSUME NEW s \in conns, Closing(s) PROVE Indexed'
  BY <1>6, OneLess DEF Indexed
<1>7. ASSUME NEW s \in conns, Goodbye(s) PROVE Indexed'
  BY <1>7, GoodbyeReaches DEF Indexed
<1>8. ASSUME NEW s \in conns, HangUp(s) PROVE Indexed'
  BY <1>8, OneLess DEF Indexed
<1>9. ASSUME NEW s \in Sock, ReaderActs(s) PROVE Indexed'
  <2>1. \A t \in conns : sock[t].index \in Int
    BY InUse DEF IInv, TypeOK, NoLeak, Socket
  <2>2. /\ moves \in Nat /\ \A i \in desired : i.index \in Int
        /\ \A m \in Name : ifaces[m] # None => ifaces[m].index \in Int
    BY DEF IInv, TypeOK, Info
  <2> QED BY <1>9, <2>1, <2>2, ReaderReaches DEF Indexed, Alike
<1> QED BY Kinds, <1>1, <1>2, <1>3, <1>4, <1>5, <1>6, <1>7, <1>8, <1>9

\* An interface is wanted once, and has one listener.
LEMMA SingleStep == IInv /\ Single /\ [Next]_vars => Single'
<1> SUFFICES ASSUME IInv, Single, [Next]_vars PROVE Single'
  OBVIOUS
<1>1. ASSUME Aside PROVE Single'
  BY <1>1, AsideLeaves DEF Single
<1>2. ASSUME Announces PROVE Single'
  BY <1>2, AnnouncesReaches DEF Single
<1>3. ASSUME NEW n \in Name, Look(n) PROVE Single'
  <2>1. n \in todo /\ UNCHANGED <<conns, sock>> /\ desired' \subseteq desired \cup {Begun(n)}
    BY <1>3 DEF Look
  <2>2. Begun(n).name = n /\ \A i \in desired : i.name # n
    BY <1>3, <2>1 DEF Begun, Look, IInv, PollInv
  <2> QED BY <2>1, <2>2 DEF Single
<1>4. ASSUME NEW n \in Name, InterfaceMoves(n) PROVE Single'
  BY <1>4, LinkMoves DEF Single
<1>5. ASSUME NEW i \in desired, Opening(i) PROVE Single'
  BY <1>5, OneMore DEF Single
<1>6. ASSUME NEW s \in conns, Closing(s) PROVE Single'
  BY <1>6, OneLess DEF Single
<1>7. ASSUME NEW s \in conns, Goodbye(s) PROVE Single'
  BY <1>7, GoodbyeReaches DEF Single
<1>8. ASSUME NEW s \in conns, HangUp(s) PROVE Single'
  BY <1>8, OneLess DEF Single
<1>9. ASSUME NEW s \in Sock, ReaderActs(s) PROVE Single'
  BY <1>9, ReaderReaches DEF Single, Alike
<1> QED BY Kinds, <1>1, <1>2, <1>3, <1>4, <1>5, <1>6, <1>7, <1>8, <1>9

\* Who cannot be heard any more has been forgotten.
LEMMA StaleStep == IInv /\ Indexed /\ Single /\ StaleInv /\ [Next]_vars => StaleInv'
<1> SUFFICES ASSUME IInv, Indexed, Single, StaleInv, [Next]_vars PROVE StaleInv'
  OBVIOUS
<1>1. ASSUME Aside PROVE StaleInv'
  <2>1. UNCHANGED <<ifaces, conns, sock, heard>> /\ desired' \subseteq desired
    BY <1>1, AsideLeaves
  <2>2. \A s \in conns : Reaches(s)' <=> Reaches(s)
    BY <2>1 DEF Reaches
  <2> QED BY <2>1, <2>2 DEF StaleInv, There
<1>2. ASSUME Announces PROVE StaleInv'
  <2>1. \A s \in appeared : s \in conns
    BY DEF IInv, TypeOK
  <2>2. ASSUME NEW i \in desired', ~There(i)'
        PROVE heard'[i.name] = None /\ \A s \in conns : sock[s].name = i.name => ~Reaches(s)
    <3>1. i \in desired /\ i.name \in Name /\ ~There(i)
      BY <1>2, <2>2, AnnouncesReaches DEF There, IInv, TypeOK, Info
    <3> QED BY <1>2, <2>1, <3>1, AnnouncesTells DEF StaleInv
  <2>3. ASSUME NEW s \in conns, ~Reaches(s) PROVE heard'[sock[s].name] = None
    <3>1. sock[s].name \in Name
      BY InUse DEF IInv, TypeOK, NoLeak, Socket
    <3> QED BY <1>2, <2>1, <2>3, <3>1, AnnouncesTells DEF StaleInv, Single
  <2> QED BY <1>2, <2>2, <2>3, AnnouncesReaches DEF StaleInv
<1>3. ASSUME NEW n \in Name, Look(n) PROVE StaleInv'
  <2>1. /\ UNCHANGED <<ifaces, conns, sock, heard>>
        /\ \A i \in desired' : i \in desired \/ (Eligible(n) /\ i = Begun(n))
    BY <1>3 DEF Look, around
  <2>2. Eligible(n) => There(Begun(n))
    BY DEF Eligible, Begun, There
  <2>3. /\ \A s \in conns : Reaches(s)' <=> Reaches(s)
        /\ \A i \in desired' : There(i)' <=> There(i)
    BY <2>1 DEF Reaches, There
  <2> QED BY <2>1, <2>2, <2>3 DEF StaleInv
<1>4. ASSUME NEW n \in Name, InterfaceMoves(n) PROVE StaleInv'
  <2>1. \A s \in conns : s \in Sock /\ sock[s].open /\ sock[s].name \in Name
    BY InUse DEF IInv, TypeOK, NoLeak, Socket
  <2>2. \A i \in desired : i.name \in Name
    BY DEF IInv, TypeOK, Info
  <2>3. \A t \in conns : sock[t].index \in Int
    BY InUse DEF IInv, TypeOK, NoLeak, Socket
  <2>4. /\ moves \in Nat /\ \A i \in desired : i.index \in Int
        /\ \A m \in Name : ifaces[m] # None => ifaces[m].index \in Int
    BY DEF IInv, TypeOK, Info
  <2>5. ASSUME NEW name \in Name, NEW index \in Int, index <= moves + 1,
               ~(ifaces[name] # None /\ ifaces[name].index = index)
        PROVE ~(ifaces'[name] # None /\ ifaces'[name].index = index)
    BY <1>4, <2>4, <2>5, LinkMoves
  <2>6. \A m \in Name : heard'[m] = heard[m] \/ (ifaces'[m] = None /\ heard'[m] = None)
    BY <1>4, LinkMoves
  <2>7. \A s \in conns : ~Reaches(s) => ~Reaches(s)'
    BY <1>4, <2>1, <2>3, <2>5, LinkMoves DEF Indexed, Reaches
  <2>8. \A m \in Name : ifaces[m] # None =>
          \/ ifaces'[m] = None /\ heard'[m] = None
          \/ ifaces'[m] # None /\ ifaces'[m].index = ifaces[m].index
    BY <1>4, LinkMoves
  <2>9. UNCHANGED <<desired, conns, sock>>
    BY <1>4, LinkMoves
  <2>10. ASSUME NEW i \in desired, ~There(i)'
         PROVE heard'[i.name] = None /\ \A s \in conns : sock[s].name = i.name => ~Reaches(s)'
    <3>1. CASE There(i)
      BY <2>2, <2>8, <2>9, <2>10, <3>1 DEF There, Reaches
    <3>2. CASE ~There(i)
      BY <2>2, <2>6, <2>7, <3>2 DEF StaleInv
    <3> QED BY <3>1, <3>2
  <2>11. ASSUME NEW s \in conns, ~Reaches(s)' PROVE heard'[sock[s].name] = None
    <3>1. CASE Reaches(s)
      BY <2>1, <2>8, <2>9, <2>11, <3>1 DEF Reaches
    <3>2. CASE ~Reaches(s)
      BY <2>1, <2>6, <3>2 DEF StaleInv
    <3> QED BY <3>1, <3>2
  <2> QED BY <2>9, <2>10, <2>11 DEF StaleInv
<1>5. ASSUME NEW i \in desired, Opening(i) PROVE StaleInv'
  <2>1. \A j \in desired' : j \in desired /\ (There(j)' <=> There(j))
    BY <1>5, OneMore DEF There
  <2> QED BY <1>5, <2>1, OneMore DEF StaleInv, Single
<1>6. ASSUME NEW s \in conns, Closing(s) PROVE StaleInv'
  <2>1. \A j \in desired' : There(j)' <=> There(j)
    BY <1>6, OneLess DEF There
  <2> QED BY <1>6, <2>1, OneLess DEF StaleInv
<1>7. ASSUME NEW s \in conns, Goodbye(s) PROVE StaleInv'
  <2>1. \A j \in desired' : There(j)' <=> There(j)
    BY <1>7, GoodbyeReaches DEF There
  <2>2. \A n \in Name : heard[n] = None => heard'[n] = None
    BY <1>7 DEF Goodbye, IInv, TypeOK
  <2>3. /\ \A i \in desired : i.name \in Name
        /\ \A t \in conns : sock[t].name \in Name
    BY InUse DEF IInv, TypeOK, NoLeak, Socket, Info
  <2> QED BY <1>7, <2>1, <2>2, <2>3, GoodbyeReaches DEF StaleInv
<1>8. ASSUME NEW s \in conns, HangUp(s) PROVE StaleInv'
  <2>1. \A j \in desired' : There(j)' <=> There(j)
    BY <1>8, OneLess DEF There
  <2> QED BY <1>8, <2>1, OneLess DEF StaleInv
<1>9. ASSUME NEW s \in Sock, ReaderActs(s) PROVE StaleInv'
  <2>1. \A j \in desired' : j \in desired /\ (There(j)' <=> There(j))
    BY <1>9, ReaderReaches DEF There
  <2>2. /\ \A i \in desired : i.name \in Name
        /\ \A t \in conns : sock[t].name \in Name
    BY InUse DEF IInv, TypeOK, NoLeak, Socket, Info
  <2>3. ASSUME NEW n \in Name, heard[n] = None, heard'[n] # None
        PROVE s \in conns /\ Reaches(s) /\ sock[s].name = n
    BY <1>9, <2>3, AnswersTell, ReachesOpen
  <2> QED BY <1>9, <2>1, <2>2, <2>3, ReaderReaches DEF StaleInv, Single, Alike
<1> QED BY Kinds, <1>1, <1>2, <1>3, <1>4, <1>5, <1>6, <1>7, <1>8, <1>9

\* Between polls and at the goodbyes everything has been said at least once.
LEMMA SpokenStep == IInv /\ Spoken /\ [Next]_vars => Spoken'
<1> SUFFICES ASSUME IInv, Spoken, [Next]_vars PROVE Spoken'
  OBVIOUS
<1>1. ASSUME Aside PROVE Spoken'
  <2>1. \A s \in appeared : pc = "gap" => sock[s].said # 0
    BY DEF IInv, SaidInv
  <2> QED BY <1>1, <2>1
           DEF Aside, PollBegins, EnumerationFails, PollEnds, GapCancelled, SeeCancel,
               Return, HotspotMoves, Cancel, LookFails, OpeningFails, Rest, Within, around,
               polling, vars, Closed, IInv, PollInv, Spoken
<1>2. ASSUME Announces PROVE Spoken'
  <2>1. \A s \in conns : s \in Sock
    BY DEF IInv, TypeOK
  <2>2. /\ Announced /\ pc \in {"look", "gap"} /\ pc' \in {"gap", "wait"} /\ conns' = conns
        /\ pc' = "gap" => UNCHANGED polling
        /\ pc' = "wait" => pc = "gap" /\ desired' = {}
    BY <1>2, AnnouncesReaches DEF Announces, AnnounceOnce, AnnounceAgain, Rest
  <2>3. \A s \in conns \ appeared : sock'[s].said # 0
    BY <2>1, <2>2, Announcing DEF Spoken
  <2>4. pc = "gap" => \A s \in appeared : sock'[s].said # 0
    BY <2>1, <2>2, Announcing DEF IInv, SaidInv, TypeOK
  <2> QED BY <2>2, <2>3, <2>4 DEF Spoken, polling
<1>3. ASSUME NEW n \in Name, Look(n) PROVE Spoken'
  BY <1>3 DEF Look, Spoken
<1>4. ASSUME NEW n \in Name, InterfaceMoves(n) PROVE Spoken'
  BY <1>4, LinkMoves DEF Spoken
<1>5. ASSUME NEW i \in desired, Opening(i) PROVE Spoken'
  <2>1. pc = "look" /\ pc' = "look"
    BY <1>5 DEF Opening, Closed, around
  <2>2. conns' \ appeared' \subseteq conns \ appeared /\ \A t \in conns \ appeared : t \in Sock
    BY <1>5, OpeningOne DEF IInv, TypeOK
  <2>3. \A t \in conns : sock'[t] = sock[t]
    BY <1>5, OpeningOne DEF IInv, TypeOK
  <2> QED BY <2>1, <2>2, <2>3 DEF Spoken
<1>6. ASSUME NEW s \in conns, Closing(s) PROVE Spoken'
  <2>1. pc = "look"
    BY <1>6 DEF Closing
  <2> QED BY <1>6, <2>1, OneLess DEF Spoken
<1>7. ASSUME NEW s \in conns, Goodbye(s) PROVE Spoken'
  BY <1>7 DEF Goodbye, Spoken, polling
<1>8. ASSUME NEW s \in conns, HangUp(s) PROVE Spoken'
  BY <1>8, OneLess DEF Spoken, HangUp
<1>9. ASSUME NEW s \in Sock, ReaderActs(s) PROVE Spoken'
  BY <1>9, ReaderReaches DEF Spoken, Alike
<1> QED BY Kinds, <1>1, <1>2, <1>3, <1>4, <1>5, <1>6, <1>7, <1>8, <1>9

\* What is cached has a listener behind it that will say goodbye.
LEMMA HeardStep == IInv /\ Single /\ StaleInv /\ Spoken /\ HeardInv /\ [Next]_vars => HeardInv'
<1> SUFFICES ASSUME IInv, Single, StaleInv, Spoken, HeardInv, [Next]_vars PROVE HeardInv'
  OBVIOUS
<1>1. ASSUME Aside PROVE HeardInv'
  <2>1. UNCHANGED <<ifaces, conns, sock, heard, unretracted>>
    BY <1>1, AsideLeaves
  <2>2. \A s \in conns : Reaches(s)' <=> Reaches(s)
    BY <2>1 DEF Reaches
  <2>3. \A s \in conns : pc' = "goodbye" => pc = "goodbye" \/ sock[s].said # 0
    BY <1>1 DEF Aside, PollBegins, EnumerationFails, PollEnds, GapCancelled, SeeCancel, Return,
       HotspotMoves, Cancel, LookFails, OpeningFails, Rest, Within, around, polling, vars,
       IInv, PollInv, Spoken
  <2> QED BY <2>1, <2>2, <2>3 DEF HeardInv, Behind
<1>2. ASSUME Announces PROVE HeardInv'
  <2> SUFFICES ASSUME NEW n \in Name \ unretracted', heard'[n] # None
               PROVE \E s \in conns' : Behind(s, n)'
    BY DEF HeardInv
  <2>1. \A s \in appeared : s \in conns
    BY DEF IInv, TypeOK
  <2>2. pc' # "goodbye" /\ unretracted' = unretracted \ {sock[s].name : s \in appeared}
    BY <1>2, AnnouncesReaches DEF Announced
  <2>3. CASE \E s \in appeared : Reaches(s) /\ sock[s].name = n /\ heard'[n] = sock[s].zone
    BY <1>2, <2>1, <2>2, <2>3, AnnouncesReaches DEF Behind
  <2>4. CASE /\ \A s \in appeared : Reaches(s) => sock[s].name # n
             /\ heard'[n] = heard[n]
    <3>1. n \notin unretracted
      BY <2>1, <2>2, <2>4 DEF StaleInv
    <3>2. PICK s \in conns : Behind(s, n)
      BY <2>4, <3>1 DEF HeardInv
    <3> QED BY <1>2, <2>2, <2>4, <3>2, AnnouncesReaches DEF Behind
  <2> QED BY <1>2, <2>3, <2>4, AnnouncesTells
<1>3. ASSUME NEW n \in Name, Look(n) PROVE HeardInv'
  BY <1>3 DEF Look, HeardInv, Behind, Reaches, around
<1>4. ASSUME NEW n \in Name, InterfaceMoves(n) PROVE HeardInv'
  <2> SUFFICES ASSUME NEW m \in Name \ unretracted', heard'[m] # None
               PROVE \E s \in conns' : Behind(s, m)'
    BY DEF HeardInv
  <2>1. heard[m] = heard'[m] /\ m \notin unretracted
    BY <1>4, LinkMoves
  <2>2. PICK s \in conns : Behind(s, m)
    BY <2>1 DEF HeardInv
  <2>3. ifaces[m] # None
    BY <2>2 DEF Behind, Reaches
  <2>4. ifaces'[m] # None /\ ifaces'[m].index = ifaces[m].index
    BY <1>4, <2>3, LinkMoves
  <2> QED BY <1>4, <2>1, <2>2, <2>4, LinkMoves DEF Behind, Reaches
<1>5. ASSUME NEW i \in desired, Opening(i) PROVE HeardInv'
  <2>1. pc = "look"
    BY <1>5 DEF Opening, Closed
  <2> QED BY <1>5, <2>1, OneMore DEF HeardInv, Behind
<1>6. ASSUME NEW s \in conns, Closing(s) PROVE HeardInv'
  <2> SUFFICES ASSUME NEW n \in Name \ unretracted', heard'[n] # None
               PROVE \E t \in conns' : Behind(t, n)'
    BY DEF HeardInv
  <2>1. pc = "look" /\ n # sock[s].name /\ n \notin unretracted
    BY <1>6 DEF Closing
  <2>2. PICK t \in conns : Behind(t, n)
    BY <1>6, <2>1, OneLess DEF HeardInv
  <2> QED BY <1>6, <2>1, <2>2, OneLess DEF Behind
<1>7. ASSUME NEW s \in conns, Goodbye(s) PROVE HeardInv'
  <2> SUFFICES ASSUME NEW n \in Name \ unretracted', heard'[n] # None
               PROVE \E t \in conns' : Behind(t, n)'
    BY DEF HeardInv
  <2>1. sock[s].name \in Name
    BY InUse DEF IInv, TypeOK, NoLeak, Socket
  <2>2. /\ unretracted' = unretracted
        /\ heard' = [heard EXCEPT ![sock[s].name] =
                       IF Reaches(s) /\ heard[sock[s].name] = sock[s].zone
                         THEN None ELSE heard[sock[s].name]]
    BY <1>7 DEF Goodbye
  <2>3. heard'[n] = heard[n] /\ (sock[s].name = n => ~(Reaches(s) /\ heard[n] = sock[s].zone))
    BY <2>1, <2>2 DEF IInv, TypeOK
  <2>4. PICK t \in conns : Behind(t, n)
    BY <2>2, <2>3 DEF HeardInv
  <2>5. t # s
    BY <2>3, <2>4 DEF Behind
  <2>6. t \in Sock /\ sock'[t] = sock[t] /\ pc' = pc
    BY <1>7, <2>5, SayingGoodbye DEF IInv, TypeOK, Goodbye
  <2> QED BY <1>7, <2>3, <2>4, <2>6, GoodbyeReaches DEF Behind
<1>8. ASSUME NEW s \in conns, HangUp(s) PROVE HeardInv'
  <2> SUFFICES ASSUME NEW n \in Name \ unretracted', heard'[n] # None
               PROVE \E t \in conns' : Behind(t, n)'
    BY DEF HeardInv
  <2>1. pc = "goodbye" /\ sock[s].said = 0 /\ unretracted' = unretracted
    BY <1>8 DEF HangUp
  <2>2. PICK t \in conns : Behind(t, n)
    BY <1>8, <2>1, OneLess DEF HeardInv
  <2>3. t # s
    BY <2>1, <2>2 DEF Behind
  <2> QED BY <1>8, <2>2, <2>3, OneLess DEF Behind
<1>9. ASSUME NEW s \in Sock, ReaderActs(s) PROVE HeardInv'
  <2> SUFFICES ASSUME NEW n \in Name \ unretracted', heard'[n] # None
               PROVE \E t \in conns' : Behind(t, n)'
    BY DEF HeardInv
  <2>1. CASE /\ s \in conns /\ Reaches(s) /\ sock[s].name = n /\ heard'[n] = sock[s].zone
             /\ pc = "goodbye" => sock[s].said # 0
    BY <1>9, <2>1, ReaderReaches DEF Behind, Alike
  <2>2. CASE heard'[n] = heard[n] /\ n \notin unretracted
    <3>1. PICK t \in conns : Behind(t, n)
      BY <2>2 DEF HeardInv
    <3> QED BY <1>9, <2>2, <3>1, ReaderReaches DEF Behind, Alike
  <2> QED BY <1>9, <2>1, <2>2, AnswersTell, ReachesOpen
<1> QED BY Kinds, <1>1, <1>2, <1>3, <1>4, <1>5, <1>6, <1>7, <1>8, <1>9

\* At first nothing is open and nothing is cached.
LEMMA Beginning == Init => RInv
  BY DEF Init, RInv, Indexed, Single, StaleInv, Spoken, HeardInv

\* When Run has returned, whatever a peer has cached was either taught by an
\* answer after the goodbye or by a listener that a poll closed without one.
THEOREM AllIsRetracted == Spec => []Retracted
<1>1. Init => RInv
  BY Beginning
<1>2. IInv /\ RInv /\ [Next]_vars => RInv'
  BY IndexedStep, SingleStep, StaleStep, SpokenStep, HeardStep DEF RInv
<1>3. RInv => Retracted
  BY DEF RInv, Spoken, HeardInv, Retracted
<1> QED
  BY <1>1, <1>2, <1>3, Inductive, PTL DEF Spec
=============================================================================

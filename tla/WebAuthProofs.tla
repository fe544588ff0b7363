---------------------------- MODULE WebAuthProofs ----------------------------
(***************************************************************************)
(* Proofs about WebAuth, for any rates, lengths of time, tabs and          *)
(* sessions. What a bucket holds, plus what was let through, never exceeds *)
(* a full bucket plus the refill of the window (Budgeted); and it always   *)
(* holds what has been refilled since the latest request it let through,   *)
(* or is full (Saved). A session in the store is neither over nor can it   *)
(* come back once it is (StoreTrue, LateIsOver).                           *)
(***************************************************************************)
EXTENDS WebAuth, TLAPS

BucketsOK == \A b \in Budget : last[b] \in 0 .. now /\ tokens[b] \in 0 .. Full[b]

Budgeted ==
  Refilled(watched) + admitted * Minute
    <= Full[watched] + (now - since) * PerMinute[watched]

Saved ==
  \/ Refilled(watched) >= Full[watched]
  \/ Refilled(watched) >= (now - latest) * PerMinute[watched]

StoreTrue ==
  /\ \A s \in DOMAIN born : born[s] \in 0 .. now
  /\ \A s \in DOMAIN sessions : s \notin ended /\ sessions[s] = born[s] + TTL
  /\ ended \subseteq DOMAIN born

LateIsOver ==
  \A t \in Tab :
    /\ req[t].late => req[t].carries \in Over
    /\ At(t, "act") => ~req[t].late /\ req[t].carries \in DOMAIN born

Clocked == TypeOK /\ BucketsOK
IInv == Clocked /\ Budgeted /\ Saved /\ StoreTrue /\ LateIsOver

-----------------------------------------------------------------------------
LEMMA FullType == Full \in [Budget -> Nat] /\ \A b \in Budget : Full[b] >= Minute
<1>1. \A b \in Budget : PerMinute[b] \in Nat \ {0} /\ Minute \in Nat \ {0}
  BY WebAssumption
<1>2. \A p, m \in Nat \ {0} : p * m \in Nat /\ p * m >= m
  OBVIOUS
<1>3. \A b \in Budget : Full[b] = PerMinute[b] * Minute
  BY DEF Full
<1>4. Full = [b \in Budget |-> PerMinute[b] * Minute]
  BY DEF Full
<1>5. \A b \in Budget : PerMinute[b] * Minute \in Nat /\ PerMinute[b] * Minute >= Minute
  BY <1>1, <1>2
<1>6. QED
  BY <1>3, <1>4, <1>5

\* What a bucket holds is within its bounds.
LEMMA RefilledType ==
  ASSUME TypeOK, BucketsOK, NEW b \in Budget
  PROVE  Refilled(b) \in 0 .. Full[b]
<1>1. tokens[b] \in Nat /\ now - last[b] \in Nat /\ PerMinute[b] \in Nat /\ Full[b] \in Nat
  BY WebAssumption, FullType DEF TypeOK, BucketsOK
<1>2. \A x, y, z \in Nat : x + y * z \in Nat
  OBVIOUS
<1>3. tokens[b] + (now - last[b]) * PerMinute[b] \in Nat
  BY <1>1, <1>2
<1>4. QED
  BY <1>1, <1>3 DEF Refilled

\* A bucket just touched holds what was put there.
LEMMA Touched ==
  ASSUME TypeOK, TypeOK', now' = now, NEW b \in Budget, last'[b] = now,
         tokens'[b] <= Full[b], tokens'[b] \in Nat
  PROVE  Refilled(b)' = tokens'[b]
<1>1. (now' - last'[b]) * PerMinute[b] = 0
  <2>1. now' - last'[b] = 0
    BY DEF TypeOK
  <2>2. PerMinute[b] \in Nat
    BY WebAssumption
  <2>3. QED
    BY <2>1, <2>2
<1>2. QED
  BY <1>1, FullType DEF Refilled

-----------------------------------------------------------------------------
\* One step of time refills PerMinute, up to the cap.
LEMMA Ticked ==
  ASSUME TypeOK, BucketsOK, TimePasses, NEW b \in Budget
  PROVE  /\ Refilled(b)' <= Refilled(b) + PerMinute[b]
         /\ Refilled(b)' >= Full[b] \/ Refilled(b)' >= Refilled(b) + PerMinute[b]
<1>1. tokens[b] \in Nat /\ now - last[b] \in Nat /\ PerMinute[b] \in Nat /\ Full[b] \in Nat
  BY WebAssumption, FullType DEF TypeOK, BucketsOK
<1>2. tokens' = tokens /\ last' = last /\ now' - last[b] = (now - last[b]) + 1
  BY <1>1 DEF TimePasses, bucket, TypeOK, BucketsOK
<1>3. \A x, p \in Nat : (x + 1) * p = x * p + p /\ x * p \in Nat
  OBVIOUS
<1>4. (now' - last'[b]) * PerMinute[b] = (now - last[b]) * PerMinute[b] + PerMinute[b]
  BY <1>1, <1>2, <1>3
<1>5. (now - last[b]) * PerMinute[b] \in Nat
  BY <1>1, <1>3
<1> DEFINE gained == (now - last[b]) * PerMinute[b]
           later  == (now' - last'[b]) * PerMinute[b]
<1>6. later = gained + PerMinute[b] /\ gained \in Nat
  BY <1>4, <1>5
<1>7. /\ Refilled(b) = IF tokens[b] + gained > Full[b] THEN Full[b] ELSE tokens[b] + gained
      /\ Refilled(b)' = IF tokens[b] + later > Full[b] THEN Full[b] ELSE tokens[b] + later
  BY <1>2 DEF Refilled
<1> HIDE DEF gained, later
<1>8. QED
  BY <1>1, <1>6, <1>7

-----------------------------------------------------------------------------
\* The variables of the limiter.
meter == <<now, tokens, last, since, watched, admitted, latest>>

\* Only five actions touch the limiter.
LEMMA Elsewhere ==
  ASSUME [Next]_vars
  PROVE  \/ UNCHANGED meter
         \/ \E t \in Tab : Admit(t) \/ Refuse(t)
         \/ Restart \/ TimePasses \/ \E b \in Budget : Watch(b)
BY DEF Next, vars, meter, bucket, window, Send, Receive, Redirect, LoadPage, Authenticate, Verify, SetupReads,
       LogIn, SetupSaves, ChangePassword, Act, LogOut

LEMMA Initially == Init => IInv
<1> SUFFICES ASSUME Init PROVE IInv
  OBVIOUS
<1> USE WebAssumption, FullType DEF Init
<1>1. TypeOK
  BY DEF TypeOK, NoRequest, Place, Kind, Session, NoSession, Budget
<1>2. BucketsOK
  BY DEF BucketsOK
<1>3. watched \in Budget /\ PerMinute[watched] \in Nat /\ now = 0 /\ since = 0 /\ latest = 0
  BY DEF Budget
<1>4. Refilled(watched) \in 0 .. Full[watched]
  BY <1>1, <1>2, <1>3, RefilledType
<1>5. (now - since) * PerMinute[watched] = 0 /\ admitted * Minute = 0
  BY <1>3
<1>6. Budgeted
  BY <1>3, <1>4, <1>5 DEF Budgeted
<1>7. (now - latest) * PerMinute[watched] = 0
  BY <1>3
<1>8. Saved
  BY <1>4, <1>7 DEF Saved
<1>9. StoreTrue /\ LateIsOver
  BY DEF StoreTrue, LateIsOver, NoRequest, At
<1>10. QED
  BY <1>1, <1>2, <1>6, <1>8, <1>9 DEF IInv, Clocked

\* Types are kept by every step.
LEMMA TypeStep == Clocked /\ [Next]_vars => TypeOK'
<1> SUFFICES ASSUME Clocked, [Next]_vars PROVE TypeOK'
  OBVIOUS
<1> USE WebAssumption, FullType DEF Clocked, TypeOK, Place, Kind, Session, NoSession,
       NoRequest, At, Done, bucket, window, vars
<1> DEFINE Request == [pc : Place, kind : Kind, typed : Password \cup {Unset},
                       carries : Session \cup {NoSession}, late : BOOLEAN]
<1>0. /\ req \in [Tab -> Request] /\ NoRequest \in Request
      /\ \A t \in Tab, s \in Session \cup {NoSession} :
           Answered(t, s) => req' \in [Tab -> Request]
  <2>1. req \in [Tab -> Request] /\ NoRequest \in Request
    OBVIOUS
  <2>2. \A s \in Session \cup {NoSession} :
          [NoRequest EXCEPT !.pc = "answer", !.carries = s] \in Request
    OBVIOUS
  <2> HIDE DEF Request
  <2>3. QED
    BY <2>1, <2>2 DEF Answered
<1>1. ASSUME NEW t \in Tab, NEW k \in Kind, NEW p \in Password \cup {Unset}, Send(t, k, p)
      PROVE  TypeOK'
  <2> DEFINE r == [pc |-> "way", kind |-> k, typed |-> p, carries |-> Carried(k),
                   late |-> FALSE]
  <2>1. Carried(k) \in Session \cup {NoSession}
    BY DEF Carried
  <2>2. r \in Request
    BY <2>1
  <2>3. req' = [req EXCEPT ![t] = r]
    BY <1>1 DEF Send
  <2> HIDE DEF r
  <2>4. QED
    BY <1>1, <2>2, <2>3 DEF Send
<1>2. ASSUME NEW t \in Tab, Admit(t) PROVE TypeOK'
  <2> DEFINE b == BudgetOf(req[t].kind)
  <2>1. b \in Budget /\ Refilled(b) \in 0 .. Full[b] /\ Minute \in Nat
    BY RefilledType DEF BudgetOf, Budget
  <2>2. /\ tokens' = [tokens EXCEPT ![b] = Refilled(b) - Minute] /\ last' = [last EXCEPT ![b] = now]
        /\ Refilled(b) >= Minute
        /\ UNCHANGED <<now, stored, sessions, cookie, born, ended, since, watched>>
    BY <1>2 DEF Admit
  <2>3. tokens' \in [Budget -> Nat] /\ \A c \in Budget : tokens'[c] <= Full[c]
    BY <2>1, <2>2
  <2>4. last' \in [Budget -> 0 .. Horizon]
    BY <2>1, <2>2
  <2>5. req' \in [Tab -> [pc : Place, kind : Kind, typed : Password \cup {Unset},
                       carries : Session \cup {NoSession}, late : BOOLEAN]]
    <3>1. PlaceOf(req[t].kind) \in Place /\ (req[t].carries \in Over) \in BOOLEAN
      BY DEF PlaceOf
    <3>2. req' = [req EXCEPT ![t] =
            [req[t] EXCEPT !.pc = PlaceOf(req[t].kind), !.late = req[t].carries \in Over]]
      BY <1>2 DEF Admit
    <3>3. req[t] \in Request
      BY <1>0
    <3>4. [req[t] EXCEPT !.pc = PlaceOf(req[t].kind), !.late = req[t].carries \in Over]
            \in Request
      BY <3>1, <3>3
    <3>5. QED
      BY <1>0, <3>2, <3>4
  <2>6. admitted' \in Nat /\ latest' \in since' .. now'
    BY <1>2, <2>2 DEF Admit
  <2>7. QED
    BY <2>2, <2>3, <2>4, <2>5, <2>6
<1>3. ASSUME NEW t \in Tab, Refuse(t) PROVE TypeOK'
  <2> DEFINE b == BudgetOf(req[t].kind)
  <2>1. b \in Budget /\ Refilled(b) \in 0 .. Full[b] /\ Minute \in Nat
    BY RefilledType DEF BudgetOf, Budget
  <2>2. /\ tokens' = [tokens EXCEPT ![b] = Refilled(b)] /\ last' = [last EXCEPT ![b] = now]
        /\ TRUE
        /\ UNCHANGED <<now, stored, sessions, cookie, born, ended, since, watched>>
    BY <1>3 DEF Refuse, Left, window
  <2>3. tokens' \in [Budget -> Nat] /\ \A c \in Budget : tokens'[c] <= Full[c]
    BY <2>1, <2>2
  <2>4. last' \in [Budget -> 0 .. Horizon]
    BY <2>1, <2>2
  <2>5. req' \in [Tab -> [pc : Place, kind : Kind, typed : Password \cup {Unset},
                       carries : Session \cup {NoSession}, late : BOOLEAN]]
    BY <1>3 DEF Refuse, PlaceOf
  <2>6. admitted' \in Nat /\ latest' \in since' .. now'
    BY <1>3, <2>2 DEF Refuse
  <2>7. QED
    BY <2>2, <2>3, <2>4, <2>5, <2>6
<1>4. ASSUME NEW t \in Tab, LoadPage(t) PROVE TypeOK'
  <2>1. DOMAIN sessions' \subseteq DOMAIN sessions
    BY <1>4 DEF LoadPage, Looked, Without
  <2>2. QED
    BY <1>4, <2>1 DEF LoadPage
<1>5. ASSUME NEW t \in Tab, NEW valid \in BOOLEAN, Authenticate(t, valid) PROVE TypeOK'
  <2>1. DOMAIN sessions' \subseteq DOMAIN sessions
    BY <1>5 DEF Authenticate, Looked, Without
  <2>2. QED
    BY <1>5, <2>1 DEF Authenticate, GoIf
<1>6. ASSUME NEW t \in Tab, Verify(t) PROVE TypeOK'
  BY <1>6 DEF Verify, GoIf
<1>7. ASSUME NEW t \in Tab, SetupReads(t) PROVE TypeOK'
  BY <1>7 DEF SetupReads, GoIf
<1>8. ASSUME NEW t \in Tab, NEW s \in Session, LogIn(t, s) PROVE TypeOK'
  BY <1>0, <1>8 DEF LogIn, SignIn
<1>9. ASSUME NEW t \in Tab, NEW s \in Session, SetupSaves(t, s) PROVE TypeOK'
  <2>1. stored' \in Password \cup {Unset}
    <3>1. req[t] \in Request
      BY <1>0
    <3>2. QED
      BY <1>9, <3>1 DEF SetupSaves
  <2>2. CASE SignIn(t, s)
    BY <1>0, <1>9, <2>1, <2>2 DEF SetupSaves, SignIn
  <2>3. CASE Done(t) /\ UNCHANGED <<sessions, born>>
    BY <1>0, <1>9, <2>1, <2>3 DEF SetupSaves
  <2>4. QED
    BY <1>9, <2>2, <2>3 DEF SetupSaves
<1>10. ASSUME NEW t \in Tab, ChangePassword(t) PROVE TypeOK'
  BY <1>10 DEF ChangePassword
<1>11. ASSUME NEW t \in Tab, Act(t) PROVE TypeOK'
  BY <1>11 DEF Act
<1>12. ASSUME NEW t \in Tab, LogOut(t) PROVE TypeOK'
  BY <1>0, <1>12 DEF LogOut, Destroy, Without
<1>13. CASE Restart
  BY <1>13 DEF Restart
<1>14. CASE TimePasses
  BY <1>14 DEF TimePasses
<1>15. ASSUME NEW b \in Budget, Watch(b) PROVE TypeOK'
  BY <1>15 DEF Watch
<1>16. CASE UNCHANGED vars
  BY <1>16
<1>17. ASSUME NEW t \in Tab, Receive(t) PROVE TypeOK'
  <2>1. req[t].carries \in Session \cup {NoSession}
    BY <1>0
  <2>2. QED
    BY <1>17, <2>1 DEF Receive
<1>18. ASSUME NEW t \in Tab, Redirect(t) PROVE TypeOK'
  BY <1>18 DEF Redirect
<1>19. QED
  BY <1>1, <1>2, <1>3, <1>4, <1>5, <1>6, <1>7, <1>8, <1>9, <1>10, <1>11, <1>12, <1>13, <1>14,
     <1>15, <1>16, <1>17, <1>18
     DEF Next

LEMMA BucketStep == Clocked /\ [Next]_vars => BucketsOK'
<1> SUFFICES ASSUME Clocked, [Next]_vars PROVE BucketsOK'
  OBVIOUS
<1> USE DEF Clocked, BucketsOK
<1>1. TypeOK'
  BY TypeStep
<1>2. \A b \in Budget : tokens'[b] \in 0 .. Full[b]
  BY <1>1, FullType DEF TypeOK
<1>3. CASE UNCHANGED meter
  BY <1>2, <1>3 DEF meter
<1>4. ASSUME NEW t \in Tab, Admit(t) \/ Refuse(t) PROVE BucketsOK'
  BY <1>2, <1>4 DEF Admit, Refuse, TypeOK
<1>5. CASE Restart
  BY <1>2, <1>5 DEF Restart, TypeOK
<1>6. CASE TimePasses
  BY <1>2, <1>6 DEF TimePasses, bucket, TypeOK
<1>7. ASSUME NEW b \in Budget, Watch(b) PROVE BucketsOK'
  BY <1>2, <1>7 DEF Watch, bucket
<1>8. QED
  BY <1>3, <1>4, <1>5, <1>6, <1>7, Elsewhere

-----------------------------------------------------------------------------
\* Letting a request through takes a token; refusing one takes nothing.
LEMMA Served ==
  ASSUME Clocked, [Next]_vars, NEW t \in Tab, Admit(t) \/ Refuse(t),
         NEW b \in Budget
  PROVE  /\ BudgetOf(req[t].kind) # b => Refilled(b)' = Refilled(b)
         /\ BudgetOf(req[t].kind) = b /\ Admit(t)
              => Refilled(b) >= Minute /\ Refilled(b)' = Refilled(b) - Minute
         /\ BudgetOf(req[t].kind) = b /\ Refuse(t)
              => Refilled(b) < Minute /\ Refilled(b)' = Refilled(b)
<1>1. b \in Budget
  OBVIOUS
<1>2. Refilled(b) \in 0 .. Full[b] /\ Full[b] \in Nat /\ Minute \in Nat
  BY <1>1, RefilledType, FullType, WebAssumption DEF Clocked
<1>3. TypeOK /\ TypeOK' /\ now' = now
  BY TypeStep DEF Admit, Refuse, Clocked
<1>4. ASSUME BudgetOf(req[t].kind) # b PROVE Refilled(b)' = Refilled(b)
  <2>1. tokens'[b] = tokens[b] /\ last'[b] = last[b]
    BY <1>3, <1>4 DEF Admit, Refuse, TypeOK
  <2>2. QED
    BY <1>3, <2>1 DEF Refilled
<1>5. ASSUME BudgetOf(req[t].kind) = b, Admit(t)
      PROVE  Refilled(b) >= Minute /\ Refilled(b)' = Refilled(b) - Minute
  <2>1. /\ Refilled(b) >= Minute
        /\ tokens'[b] = Refilled(b) - Minute /\ last'[b] = now
    BY <1>1, <1>3, <1>5 DEF Admit, TypeOK
  <2>2. QED
    BY <1>1, <1>2, <1>3, <2>1, Touched
<1>6. ASSUME BudgetOf(req[t].kind) = b, Refuse(t)
      PROVE  Refilled(b) < Minute /\ Refilled(b)' = Refilled(b)
  <2>1. /\ Refilled(b) < Minute
        /\ tokens'[b] = Refilled(b) /\ last'[b] = now
    BY <1>1, <1>3, <1>6 DEF Refuse, Left, TypeOK
  <2>2. QED
    BY <1>1, <1>2, <1>3, <2>1, Touched
<1>7. QED
  BY <1>1, <1>4, <1>5, <1>6

\* A new process, or a new window, begins with at most full buckets.
LEMMA Begun ==
  ASSUME Clocked, [Next]_vars, Restart \/ \E b \in Budget : Watch(b)
  PROVE  Budgeted' /\ Saved'
<1>1. TypeOK' /\ BucketsOK'
  BY TypeStep, BucketStep
<1>2. watched' \in Budget /\ PerMinute[watched'] \in Nat /\ Minute \in Nat
  BY <1>1, WebAssumption DEF TypeOK
<1>3. now' \in Nat /\ since' = now' /\ latest' = now' /\ admitted' = 0
  BY <1>1 DEF Restart, Watch, TypeOK
<1>4. (now' - since') * PerMinute[watched'] = 0 /\ admitted' * Minute = 0
      /\ (now' - latest') * PerMinute[watched'] = 0
  BY <1>2, <1>3
<1>5. (Refilled(watched) \in 0 .. Full[watched])'
  <2>1. \A b \in Budget : Refilled(b)' \in 0 .. Full[b]
    <3> SUFFICES ASSUME NEW b \in Budget PROVE Refilled(b)' \in 0 .. Full[b]
      OBVIOUS
    <3>1. tokens'[b] \in Nat /\ now' - last'[b] \in Nat /\ PerMinute[b] \in Nat /\ Full[b] \in Nat
      BY <1>1, WebAssumption, FullType DEF TypeOK, BucketsOK
    <3>2. \A x, y, z \in Nat : x + y * z \in Nat
      OBVIOUS
    <3>3. tokens'[b] + (now' - last'[b]) * PerMinute[b] \in Nat
      BY <3>1, <3>2
    <3>4. QED
      BY <3>1, <3>3 DEF Refilled
  <2>2. Full' = Full
    BY DEF Full
  <2>3. QED
    BY <1>2, <2>1, <2>2 DEF Refilled
<1>6. QED
  BY <1>2, <1>4, <1>5, FullType DEF Budgeted, Saved, Full

LEMMA LimiterStep == Clocked /\ Budgeted /\ Saved /\ [Next]_vars => Budgeted' /\ Saved'
<1> SUFFICES ASSUME Clocked, Budgeted, Saved, [Next]_vars PROVE Budgeted' /\ Saved'
  OBVIOUS
<1> PICK w \in Budget : w = watched
  BY DEF Clocked, TypeOK
<1>1. /\ w \in Budget /\ PerMinute[w] \in Nat /\ Minute \in Nat \ {0} /\ admitted \in Nat
      /\ now - since \in Nat /\ now - latest \in Nat /\ now \in Nat
      /\ Refilled(w) \in 0 .. Full[w] /\ Full[w] \in Nat
  BY RefilledType, FullType, WebAssumption DEF Clocked, TypeOK
<1>2. CASE UNCHANGED meter
  BY <1>2 DEF meter, Budgeted, Saved, Refilled, Full
<1>3. ASSUME NEW t \in Tab, Admit(t) PROVE Budgeted' /\ Saved'
  <2>1. now' = now /\ since' = since /\ watched' = w
    BY <1>3 DEF Admit
  <2>2. CASE BudgetOf(req[t].kind) = w
    <3>1. Refilled(w) >= Minute /\ Refilled(w)' = Refilled(w) - Minute
      BY <1>3, <2>2, Served
    <3>2. admitted' = admitted + 1 /\ latest' = now
      BY <1>3, <2>2 DEF Admit
    <3>3. admitted' * Minute = admitted * Minute + Minute /\ admitted * Minute \in Nat
      <4>1. \A a, m \in Nat : (a + 1) * m = a * m + m /\ a * m \in Nat
        OBVIOUS
      <4>2. QED
        BY <1>1, <3>2, <4>1
    <3>4. (now' - latest') * PerMinute[w] = 0
      BY <1>1, <2>1, <3>2
    <3>5. (now - since) * PerMinute[w] \in Nat
      <4>1. \A x, y \in Nat : x * y \in Nat
        OBVIOUS
      <4>2. QED
        BY <1>1, <4>1
    <3>6. Refilled(w)' + admitted' * Minute <= Full[w] + (now - since) * PerMinute[w]
      BY <1>1, <3>1, <3>3, <3>5 DEF Budgeted
    <3>7. Refilled(w)' >= (now' - latest') * PerMinute[w]
      BY <1>1, <3>1, <3>4
    <3>8. QED
      BY <2>1, <3>6, <3>7 DEF Budgeted, Saved, Refilled, Full
  <2>3. CASE BudgetOf(req[t].kind) # w
    <3>1. Refilled(w)' = Refilled(w)
      BY <1>1, <1>3, <2>3, Served
    <3>2. admitted' = admitted /\ latest' = latest
      BY <1>3, <2>3 DEF Admit
    <3>3. QED
      BY <2>1, <3>1, <3>2 DEF Budgeted, Saved, Refilled, Full
  <2>4. QED
    BY <2>2, <2>3
<1>4. ASSUME NEW t \in Tab, Refuse(t) PROVE Budgeted' /\ Saved'
  <2>1. UNCHANGED <<now, window>>
    BY <1>4 DEF Refuse
  <2>2. Refilled(w)' = Refilled(w)
    BY <1>1, <1>4, Served
  <2>3. QED
    BY <2>1, <2>2 DEF Budgeted, Saved, Refilled, Full, window
<1>5. CASE Restart \/ \E b \in Budget : Watch(b)
  BY <1>5, Begun
<1>6. CASE TimePasses
  <2>1. now' = now + 1 /\ UNCHANGED window
    BY <1>6 DEF TimePasses
  <2>2. /\ Refilled(w)' <= Refilled(w) + PerMinute[w]
        /\ Refilled(w)' >= Full[w] \/ Refilled(w)' >= Refilled(w) + PerMinute[w]
    BY <1>1, <1>6, Ticked DEF Clocked
  <2>3. \A x, p \in Nat : (x + 1) * p = x * p + p /\ x * p \in Nat
    OBVIOUS
  <2>4. (now' - since) * PerMinute[w] = (now - since) * PerMinute[w] + PerMinute[w]
    <3>1. now' - since = (now - since) + 1 /\ now - since \in Nat /\ PerMinute[w] \in Nat
      BY <1>1, <2>1 DEF Clocked, TypeOK
    <3>2. PICK x \in Nat, p \in Nat : x = now - since /\ p = PerMinute[w]
      BY <3>1
    <3>3. (x + 1) * p = x * p + p
      BY <2>3
    <3>4. QED
      BY <3>1, <3>2, <3>3
  <2>5. (now' - latest) * PerMinute[w] = (now - latest) * PerMinute[w] + PerMinute[w]
    <3>1. now' - latest = (now - latest) + 1 /\ now - latest \in Nat /\ PerMinute[w] \in Nat
      BY <1>1, <2>1 DEF Clocked, TypeOK
    <3>2. PICK x \in Nat, p \in Nat : x = now - latest /\ p = PerMinute[w]
      BY <3>1
    <3>3. (x + 1) * p = x * p + p
      BY <2>3
    <3>4. QED
      BY <3>1, <3>2, <3>3
  <2>6. /\ (now - since) * PerMinute[w] \in Nat /\ (now - latest) * PerMinute[w] \in Nat
        /\ admitted * Minute \in Nat
    BY <1>1, <2>3
  <2>7. Refilled(w)' \in Nat
    <3>1. TypeOK' /\ BucketsOK'
      BY TypeStep, BucketStep
    <3>2. tokens'[w] \in Nat /\ now' - last'[w] \in Nat /\ PerMinute[w] \in Nat /\ Full[w] \in Nat
      BY <3>1, WebAssumption, FullType DEF TypeOK, BucketsOK
    <3>3. \A x, y, z \in Nat : x + y * z \in Nat
      OBVIOUS
    <3>4. PICK x \in Nat, y \in Nat, z \in Nat :
            x = tokens'[w] /\ y = now' - last'[w] /\ z = PerMinute[w]
      BY <3>2
    <3>5. x + y * z \in Nat
      BY <3>3
    <3>6. tokens'[w] + (now' - last'[w]) * PerMinute[w] = x + y * z
      BY <3>4
    <3>7. QED
      BY <3>2, <3>5, <3>6 DEF Refilled
  <2>8. Refilled(w)' + admitted * Minute <= Full[w] + (now' - since) * PerMinute[w]
    BY <1>1, <2>2, <2>4, <2>6, <2>7 DEF Budgeted
  <2>9. Refilled(w)' >= Full[w] \/ Refilled(w)' >= (now' - latest) * PerMinute[w]
    BY <1>1, <2>2, <2>5, <2>6, <2>7 DEF Saved
  <2>10. QED
    BY <2>1, <2>8, <2>9 DEF Budgeted, Saved, Refilled, Full, window
<1>7. QED
  BY <1>2, <1>3, <1>4, <1>5, <1>6, Elsewhere

-----------------------------------------------------------------------------
\* Nothing in the store is over, and no token comes twice.
LEMMA StoreStep ==
  Clocked /\ StoreTrue /\ LateIsOver /\ [Next]_vars => StoreTrue'
<1> SUFFICES ASSUME Clocked, StoreTrue, LateIsOver, [Next]_vars PROVE StoreTrue'
  OBVIOUS
<1> USE WebAssumption DEF Clocked, StoreTrue
<1>1. CASE UNCHANGED <<now, sessions, born, ended>>
  BY <1>1
<1>2. ASSUME UNCHANGED <<now, born, ended>>, NEW s, Looked(s) PROVE StoreTrue'
  BY <1>2 DEF Looked, Without
<1>3. ASSUME NEW t, NEW s \in Session, SignIn(t, s), now' = now, ended' = ended PROVE StoreTrue'
  <2>1. now \in Nat
    BY DEF TypeOK
  <2>2. /\ DOMAIN sessions' = DOMAIN sessions \cup {s} /\ DOMAIN born' = DOMAIN born \cup {s}
        /\ s \notin DOMAIN born /\ s \notin ended
        /\ sessions'[s] = now + TTL /\ born'[s] = now
        /\ \A x \in DOMAIN sessions : x # s => sessions'[x] = sessions[x]
        /\ \A x \in DOMAIN born : x # s => born'[x] = born[x]
    BY <1>3 DEF SignIn
  <2>3. DOMAIN sessions \subseteq DOMAIN born
    BY DEF TypeOK
  <2>4. QED
    BY <1>3, <2>1, <2>2, <2>3
<1>4. ASSUME NEW t \in Tab, LogOut(t) PROVE StoreTrue'
  BY <1>4 DEF LogOut, Destroy, Without, LateIsOver
<1>5. CASE Restart
  BY <1>5 DEF Restart
<1>6. CASE TimePasses
  BY <1>6 DEF TimePasses, TypeOK
<1>7. QED
  BY <1>1, <1>2, <1>3, <1>4, <1>5, <1>6
     DEF Next, vars, bucket, Send, Receive, Redirect, Admit, Refuse, LoadPage, Authenticate, Verify,
         SetupReads, LogIn, SetupSaves, ChangePassword, Act, Watch

\* What is over stays over.
LEMMA OverGrows ==
  ASSUME Clocked, StoreTrue, LateIsOver, [Next]_vars
  PROVE  Over \subseteq Over' /\ DOMAIN born \subseteq DOMAIN born'
<1> USE WebAssumption DEF Over
<1>1. now' = now \/ now' = now + 1
  BY DEF Next, vars, bucket, Send, Receive, Redirect, Admit, Refuse, LoadPage, Authenticate, Verify,
         SetupReads, LogIn, SetupSaves, ChangePassword, Act, LogOut, Restart, TimePasses, Watch
<1>2. ended \subseteq ended'
  BY DEF Next, vars, bucket, Send, Receive, Redirect, Admit, Refuse, LoadPage, Authenticate, Verify, StoreTrue,
         SetupReads, LogIn, SetupSaves, ChangePassword, Act, LogOut, Restart, TimePasses, Watch
<1>3. \A x \in DOMAIN born : x \in DOMAIN born' /\ born'[x] = born[x]
  <2>1. born' = born \/ \E t \in Tab, s \in Session : SignIn(t, s)
    BY DEF Next, vars, bucket, Send, Receive, Redirect, Admit, Refuse, LoadPage, Authenticate, Verify,
           SetupReads, LogIn, SetupSaves, ChangePassword, Act, LogOut, Restart, TimePasses, Watch
  <2>2. QED
    BY <2>1 DEF SignIn
<1>4. \A x \in DOMAIN born : born[x] \in Nat /\ now \in Nat /\ TTL \in Nat
  BY DEF StoreTrue, Clocked, TypeOK
<1>5. QED
  BY <1>1, <1>2, <1>3, <1>4

\* A request marked late never gets past requireAuth.
LEMMA LateStep ==
  Clocked /\ StoreTrue /\ LateIsOver /\ [Next]_vars => LateIsOver'
<1> SUFFICES ASSUME Clocked, StoreTrue, LateIsOver, [Next]_vars PROVE LateIsOver'
  OBVIOUS
<1> DEFINE Fine(t) == /\ req'[t].late => req'[t].carries \in Over'
                      /\ req'[t].pc = "act" => ~req'[t].late /\ req'[t].carries \in DOMAIN born'
<1>1. SUFFICES ASSUME NEW u \in Tab PROVE Fine(u)
  BY DEF LateIsOver, At
<1>2. Over \subseteq Over' /\ DOMAIN born \subseteq DOMAIN born'
  BY OverGrows
<1>3. CASE req'[u] = req[u]
  BY <1>2, <1>3 DEF LateIsOver, At
<1>4. CASE req'[u] = NoRequest
  BY <1>4 DEF NoRequest
<1>5. ASSUME NEW k \in Kind, NEW p, Send(u, k, p) PROVE Fine(u)
  <2>1. ~req'[u].late /\ req'[u].pc = "way"
    BY <1>5 DEF Send, Clocked, TypeOK
  <2>2. QED
    BY <2>1
<1>6. ASSUME Admit(u) PROVE Fine(u)
  <2>1. /\ req'[u].late = (req[u].carries \in Over) /\ req'[u].carries = req[u].carries
        /\ req'[u].pc # "act"
    BY <1>6 DEF Admit, PlaceOf, Clocked, TypeOK
  <2>2. QED
    BY <1>2, <2>1
<1>7. ASSUME NEW valid, Authenticate(u, valid) PROVE Fine(u)
  <2>1. CASE Live(req[u].carries) /\ valid
    <3>1. /\ req'[u].late = req[u].late /\ req'[u].carries = req[u].carries
          /\ UNCHANGED <<now, born, ended>>
      BY <1>7, <2>1 DEF Authenticate, GoIf, Clocked, TypeOK
    <3>2. /\ req[u].carries \in DOMAIN sessions /\ req[u].carries \in DOMAIN born
          /\ req[u].carries \notin ended
          /\ now <= born[req[u].carries] + TTL
      BY <2>1 DEF Live, StoreTrue, Clocked, TypeOK
    <3>3. born[req[u].carries] \in Nat /\ TTL \in Nat /\ now \in Nat
      BY <3>2, WebAssumption DEF StoreTrue, Clocked, TypeOK
    <3>4. req[u].carries \notin Over
      BY <3>2, <3>3 DEF Over
    <3>5. QED
      BY <1>2, <3>1, <3>2, <3>4 DEF LateIsOver
  <2>2. CASE ~(Live(req[u].carries) /\ valid)
    BY <1>7, <2>2 DEF Authenticate, GoIf, NoRequest, Clocked, TypeOK
  <2>3. QED
    BY <2>1, <2>2
<1>8. ASSUME Verify(u) \/ SetupReads(u), req'[u] # NoRequest PROVE Fine(u)
  <2>1. req'[u].late = req[u].late /\ req'[u].carries = req[u].carries /\ req'[u].pc # "act"
    BY <1>8 DEF Verify, SetupReads, GoIf, Clocked, TypeOK
  <2>2. QED
    BY <1>2, <2>1 DEF LateIsOver
<1>9. ASSUME NEW s, Answered(u, s) PROVE Fine(u)
  <2>1. ~req'[u].late /\ req'[u].pc = "answer"
    BY <1>9 DEF Answered, NoRequest, Clocked, TypeOK
  <2>2. QED
    BY <2>1
<1>10. req' = [t \in Tab |-> IF OnItsWay(t) THEN req[t] ELSE NoRequest]
         => req'[u] = req[u] \/ req'[u] = NoRequest
  OBVIOUS
<1>11. \/ req'[u] = req[u] \/ req'[u] = NoRequest
       \/ \E k \in Kind, p \in Password \cup {Unset} : Send(u, k, p)
       \/ Admit(u) \/ Verify(u) \/ SetupReads(u)
       \/ \E s : Answered(u, s)
       \/ \E valid \in BOOLEAN : Authenticate(u, valid)
  <2>1. req \in [Tab -> [pc : Place, kind : Kind, typed : Password \cup {Unset},
                       carries : Session \cup {NoSession}, late : BOOLEAN]]
    BY DEF Clocked, TypeOK
  <2>2. ASSUME NEW t \in Tab, NEW r, req' = [req EXCEPT ![t] = r] PROVE t = u \/ req'[u] = req[u]
    BY <2>1, <2>2
  <2>3. ASSUME NEW t \in Tab, Done(t) PROVE req'[u] = req[u] \/ req'[u] = NoRequest
    BY <2>1, <2>3 DEF Done
  <2>4. \/ UNCHANGED req
        \/ \E t \in Tab : Done(t)
        \/ \E t \in Tab, k \in Kind, p \in Password \cup {Unset} : Send(t, k, p)
        \/ \E t \in Tab : Admit(t) \/ Verify(t) \/ SetupReads(t)
        \/ \E t \in Tab, s \in Session \cup {NoSession} : Answered(t, s)
        \/ \E t \in Tab, valid \in BOOLEAN : Authenticate(t, valid)
        \/ Restart
    BY DEF Next, vars, Receive, Redirect, Refuse, LoadPage, LogIn, SetupSaves, SignIn,
           ChangePassword, Act, LogOut, TimePasses, Watch
  <2>5. ASSUME NEW t \in Tab, NEW k \in Kind, NEW p \in Password \cup {Unset}, Send(t, k, p)
        PROVE  t = u \/ req'[u] = req[u]
    BY <2>2, <2>5 DEF Send
  <2>6. ASSUME NEW t \in Tab, Admit(t) PROVE t = u \/ req'[u] = req[u]
    BY <2>2, <2>6 DEF Admit
  <2>7. ASSUME NEW t \in Tab, Verify(t) \/ SetupReads(t) PROVE t = u \/ req'[u] = req[u]
    BY <2>2, <2>7 DEF Verify, SetupReads, GoIf
  <2>8. ASSUME NEW t \in Tab, NEW s, Answered(t, s) PROVE t = u \/ req'[u] = req[u]
    BY <2>2, <2>8 DEF Answered
  <2>9. ASSUME NEW t \in Tab, NEW valid, Authenticate(t, valid) PROVE t = u \/ req'[u] = req[u]
    BY <2>2, <2>9 DEF Authenticate, GoIf
  <2>10. Restart => req'[u] = req[u] \/ req'[u] = NoRequest
    BY <1>10 DEF Restart
  <2>11. CASE \/ UNCHANGED req \/ Restart \/ \E t \in Tab : Done(t)
              \/ \E t \in Tab, k \in Kind, p \in Password \cup {Unset} : Send(t, k, p)
    BY <2>3, <2>5, <2>10, <2>11
  <2>12. CASE \E t \in Tab : Admit(t) \/ Verify(t) \/ SetupReads(t)
    BY <2>6, <2>7, <2>12
  <2>13. CASE \E t \in Tab, s \in Session \cup {NoSession} : Answered(t, s)
    BY <2>8, <2>13
  <2>14. CASE \E t \in Tab, valid \in BOOLEAN : Authenticate(t, valid)
    BY <2>9, <2>14
  <2>15. QED
    BY <2>4, <2>11, <2>12, <2>13, <2>14
<1>12. QED
  BY <1>3, <1>4, <1>5, <1>6, <1>7, <1>8, <1>9, <1>11

-----------------------------------------------------------------------------
\* The conjunction is inductive: it holds in every reachable state.
THEOREM Inductive == Spec => []IInv
<1>1. Init => IInv
  BY Initially
<1>2. IInv /\ [Next]_vars => IInv'
  BY TypeStep, BucketStep, LimiterStep, StoreStep, LateStep DEF IInv, Clocked
<1>3. QED
  BY <1>1, <1>2, PTL DEF Spec

\* Types, and the bounds of the buckets, are kept.
THEOREM TypeCorrect == Spec => []TypeOK
<1>1. IInv => TypeOK
  BY DEF IInv, Clocked
<1>2. QED
  BY <1>1, Inductive, PTL

\* For any rate, minute and window, no more requests are let through than a
\* full bucket and the refill of the window.
THEOREM RateIsBounded == Spec => []RateBounded
<1>1. IInv => RateBounded
  <2> SUFFICES ASSUME IInv PROVE RateBounded
    OBVIOUS
  <2>1. watched \in Budget /\ TypeOK /\ BucketsOK
    BY DEF IInv, Clocked, TypeOK
  <2>2. Refilled(watched) \in 0 .. Full[watched] /\ Full[watched] \in Nat
    BY <2>1, RefilledType, FullType
  <2>3. \A x, y \in Nat : x * y \in Nat
    OBVIOUS
  <2>4. /\ admitted * Minute \in Nat
        /\ (now - since) * PerMinute[watched] \in Nat
    BY <2>1, <2>3, WebAssumption DEF TypeOK
  <2>5. Refilled(watched) + admitted * Minute
          <= Full[watched] + (now - since) * PerMinute[watched]
    BY DEF IInv, Budgeted
  <2>6. QED
    BY <2>2, <2>4, <2>5 DEF RateBounded
<1>2. QED
  BY <1>1, Inductive, PTL

\* For any rate and minute, refusals never delay the next admission.
THEOREM NobodyIsLockedOut == Spec => NotLockedOut
<1>1. ASSUME IInv, NEW t \in Tab, Refuse(t), BudgetOf(req[t].kind) = watched
      PROVE  (now - latest) * PerMinute[watched] < Minute
  <2>1. watched \in Budget /\ TypeOK /\ BucketsOK
    BY <1>1 DEF IInv, Clocked, TypeOK
  <2>2. Refilled(watched) \in 0 .. Full[watched] /\ Full[watched] >= Minute
    BY <2>1, RefilledType, FullType
  <2>3. Refilled(watched) < Minute
    BY <1>1 DEF Refuse
  <2>4. \A x, y \in Nat : x * y \in Nat
    OBVIOUS
  <2>5. /\ (now - latest) * PerMinute[watched] \in Nat /\ Minute \in Nat
        /\ Full[watched] \in Nat
    BY <2>1, <2>4, FullType, WebAssumption DEF TypeOK
  <2>6. QED
    BY <1>1, <2>2, <2>3, <2>5 DEF IInv, Saved
<1>2. IInv => \A t \in Tab :
        Refuse(t) /\ BudgetOf(req[t].kind) = watched
          => (now - latest) * PerMinute[watched] < Minute
  BY <1>1
<1>3. QED
  BY <1>2, Inductive, PTL DEF NotLockedOut

\* A request that arrives with a session logged out, expired or lost never
\* reaches its handler, wherever it was when the session ended.
THEOREM OutStaysOut == Spec => []SignedOutStaysOut
<1>1. IInv => SignedOutStaysOut
  BY DEF IInv, LateIsOver, SignedOutStaysOut
<1>2. QED
  BY <1>1, Inductive, PTL
=============================================================================

----------------------------- MODULE ScreenProofs -----------------------------
(***************************************************************************)
(* The safety properties of Screen, for any identities, stages, access     *)
(* points and number of moves. What makes them inductive is what the       *)
(* caches and the loop remember: an entry is alike to what its key makes,  *)
(* the scene is that of the last snapshot, and the last snapshot is still  *)
(* the one that the same readings would find in the caches.                *)
(***************************************************************************)
EXTENDS Screen, FiniteSetTheorems, TLAPS

\* Snapshots of the same content.
Alike(s, t) ==
  /\ s.state = t.state /\ s.fault = t.fault
  /\ s.detail = t.detail /\ s.hotspot = t.hotspot

ApEntry ==
  apCache.made # Nil =>
    Alike(apCache.made, WithHotspot(apCache.base, apCache.status.hotspot))

CxEntry ==
  cxCache.made # Nil => Alike(cxCache.made, WithFault(cxCache.base, cxCache.status))

SceneKept == loop.built => loop.scene = SceneOf(loop.last)

LastAlike ==
  seen # None => loop.built /\ loop.scene = SceneOf(loop.last) /\ Alike(loop.last, Pure(seen))

\* What a call that reads what r says would be given, without a new entry.
Recalled(r) ==
  IF r.status.hotspot # None THEN ApHit(r) /\ apCache.made = loop.last
  ELSE IF FaultToInject(r.base, r.status) # None THEN CxHit(r) /\ cxCache.made = loop.last
  ELSE r.base = loop.last

StillThere == seen # None /\ ~displaced => Recalled(seen)

Lit == loop.brightness # -1 => panel = loop.brightness

IInv == ApEntry /\ CxEntry /\ SceneKept /\ LastAlike /\ StillThere /\ Lit
        /\ PanelTrue /\ WebTrue /\ NoChurn /\ ContrastTrue

\* New changes nothing but the identity.
LEMMA NewAlike ==
  ASSUME NEW s
  PROVE  Alike(New(s), s)
BY DEF Alike, New, Same, Snap

\* A composed snapshot is not the nil pointer.
LEMMA NewNotNil ==
  ASSUME NEW s, s.hotspot # None \/ s.fault # None
  PROVE  New(s) # Nil
<1>1. New(s).hotspot = s.hotspot /\ New(s).fault = s.fault
  BY DEF New, Same, Snap
<1>2. Nil.hotspot = None /\ Nil.fault = None
  BY DEF Nil, Snap
<1> QED
  BY <1>1, <1>2

\* A call is given what its own readings make.
LEMMA ComposedAlike ==
  ASSUME ApEntry, CxEntry, NEW r
  PROVE  Alike(Composed(r), Pure(r))
<1>1. CASE r.status.hotspot # None
  <2>1. CASE ApHit(r)
    BY <1>1, <2>1 DEF ApEntry, ApHit, Composed, Pure, WithHotspot, Snap, Alike
  <2>2. CASE ~ApHit(r)
    BY <1>1, <2>2, NewAlike DEF Composed, Pure
  <2> QED
    BY <2>1, <2>2
<1>2. CASE r.status.hotspot = None /\ FaultToInject(r.base, r.status) # None
  <2>1. CASE CxHit(r)
    <3>1. WithFault(r.base, r.status) = WithFault(cxCache.base, cxCache.status)
      BY <2>1 DEF CxHit, WithFault, FaultToInject
    <3> QED
      BY <1>2, <2>1, <3>1 DEF CxEntry, CxHit, Composed, Pure
  <2>2. CASE ~CxHit(r)
    BY <1>2, <2>2, NewAlike DEF Composed, Pure
  <2> QED
    BY <2>1, <2>2
<1>3. CASE r.status.hotspot = None /\ FaultToInject(r.base, r.status) = None
  BY <1>3 DEF Composed, Pure, Alike
<1> QED
  BY <1>1, <1>2, <1>3

\* Snapshots that are alike make the same scene.
LEMMA AlikeScenes ==
  ASSUME NEW s, NEW t, Alike(s, t)
  PROVE  SceneOf(s) = SceneOf(t) /\ ViewOf(s) = ViewOf(t)
BY DEF Alike, SceneOf, ViewOf

\* An entry that a call leaves behind is a good one.
LEMMA CacheGood ==
  ASSUME ApEntry, CxEntry, NEW r, Cache(r)
  PROVE  ApEntry' /\ CxEntry'
<1>1. ApEntry'
  <2>1. CASE r.status.hotspot # None /\ ~ApHit(r)
    <3>1. apCache' = Kept(r) /\ Composed(r) = New(WithHotspot(r.base, r.status.hotspot))
      BY <2>1 DEF Cache, Composed
    <3>2. /\ apCache'.made = New(WithHotspot(r.base, r.status.hotspot))
          /\ apCache'.base = r.base /\ apCache'.status = r.status
      BY <3>1 DEF Kept
    <3> QED
      BY <3>2, NewAlike DEF ApEntry
  <2>2. CASE ~(r.status.hotspot # None /\ ~ApHit(r))
    BY <2>2 DEF Cache, ApEntry
  <2> QED
    BY <2>1, <2>2
<1>2. CxEntry'
  <2>1. CASE r.status.hotspot = None /\ Overlaid(r) /\ ~CxHit(r)
    <3>1. cxCache' = Kept(r) /\ Composed(r) = New(WithFault(r.base, r.status))
      BY <2>1 DEF Cache, Composed, Overlaid
    <3>2. /\ cxCache'.made = New(WithFault(r.base, r.status))
          /\ cxCache'.base = r.base /\ cxCache'.status = r.status
      BY <3>1 DEF Kept
    <3> QED
      BY <3>2, NewAlike DEF CxEntry
  <2>2. CASE ~(r.status.hotspot = None /\ Overlaid(r) /\ ~CxHit(r))
    BY <2>2 DEF Cache, CxEntry
  <2> QED
    BY <2>1, <2>2
<1> QED
  BY <1>1, <1>2

\* After a call, the same readings would find what the call was given.
LEMMA CacheRecalls ==
  ASSUME NEW r, Cache(r), loop'.last = Composed(r)
  PROVE  Recalled(r)'
<1>1. CASE r.status.hotspot # None
  <2>1. CASE ApHit(r)
    BY <1>1, <2>1 DEF Cache, Composed, Recalled, ApHit
  <2>2. CASE ~ApHit(r)
    <3>1. apCache' = Kept(r) /\ Composed(r) = New(WithHotspot(r.base, r.status.hotspot))
      BY <1>1, <2>2 DEF Cache, Composed
    <3>2. Composed(r) # Nil
      BY <1>1, <3>1, NewNotNil DEF WithHotspot, Snap
    <3> QED
      BY <1>1, <3>1, <3>2 DEF Recalled, ApHit, Kept
  <2> QED
    BY <2>1, <2>2
<1>2. CASE r.status.hotspot = None /\ FaultToInject(r.base, r.status) # None
  <2>1. CASE CxHit(r)
    BY <1>2, <2>1 DEF Cache, Composed, Recalled, CxHit
  <2>2. CASE ~CxHit(r)
    <3>1. cxCache' = Kept(r) /\ Composed(r) = New(WithFault(r.base, r.status))
      BY <1>2, <2>2 DEF Cache, Composed, Overlaid
    <3>2. Composed(r) # Nil
      BY <1>2, <3>1, NewNotNil DEF WithFault, Snap
    <3> QED
      BY <1>2, <3>1, <3>2 DEF Recalled, CxHit, Kept
  <2> QED
    BY <2>1, <2>2
<1>3. CASE r.status.hotspot = None /\ FaultToInject(r.base, r.status) = None
  BY <1>3 DEF Composed, Recalled
<1> QED
  BY <1>1, <1>2, <1>3

\* What is recalled is what the next call with the same readings is given.
LEMMA RecalledComposed ==
  ASSUME NEW r, Recalled(r)
  PROVE  Composed(r) = loop.last
BY DEF Recalled, Composed

-----------------------------------------------------------------------------
(***************************************************************************)
(* A new snapshot can always be made: there is an identity that no         *)
(* snapshot of the same content in memory has.                             *)
(***************************************************************************)
LEMMA OneMore ==
  ASSUME NEW S, IsFiniteSet(S), NEW x
  PROVE  /\ IsFiniteSet(S \cup {x}) /\ Cardinality(S \cup {x}) \in Nat
         /\ Cardinality(S \cup {x}) <= Cardinality(S) + 1
<1>1. Cardinality(S) \in Nat /\ IsFiniteSet(S \cup {x})
  BY FS_CardinalityType, FS_AddElement
<1>2. Cardinality(S \cup {x}) \in {Cardinality(S), Cardinality(S) + 1}
  BY FS_AddElement
<1>3. QED
  BY <1>1, <1>2

LEMMA EightHeld == IsFiniteSet(Held) /\ Cardinality(Held) <= 8
<1> DEFINE H1 == {base}
           H2 == H1 \cup {apCache.base}
           H3 == H2 \cup {apCache.made}
           H4 == H3 \cup {cxCache.base}
           H5 == H4 \cup {cxCache.made}
           H6 == H5 \cup {loop.last}
           H7 == H6 \cup {asked["render"].base}
           H8 == H7 \cup {asked["web"].base}
<1>0. Held = H8
  BY DEF Held, Caller
<1>1. IsFiniteSet(H1) /\ Cardinality(H1) = 1
  BY FS_Singleton
<1> HIDE DEF H1
<1>2. IsFiniteSet(H2) /\ Cardinality(H2) \in Nat /\ Cardinality(H2) <= Cardinality(H1) + 1
  BY <1>1, OneMore
<1> HIDE DEF H2
<1>3. IsFiniteSet(H3) /\ Cardinality(H3) \in Nat /\ Cardinality(H3) <= Cardinality(H2) + 1
  BY <1>2, OneMore
<1> HIDE DEF H3
<1>4. IsFiniteSet(H4) /\ Cardinality(H4) \in Nat /\ Cardinality(H4) <= Cardinality(H3) + 1
  BY <1>3, OneMore
<1> HIDE DEF H4
<1>5. IsFiniteSet(H5) /\ Cardinality(H5) \in Nat /\ Cardinality(H5) <= Cardinality(H4) + 1
  BY <1>4, OneMore
<1> HIDE DEF H5
<1>6. IsFiniteSet(H6) /\ Cardinality(H6) \in Nat /\ Cardinality(H6) <= Cardinality(H5) + 1
  BY <1>5, OneMore
<1> HIDE DEF H6
<1>7. IsFiniteSet(H7) /\ Cardinality(H7) \in Nat /\ Cardinality(H7) <= Cardinality(H6) + 1
  BY <1>6, OneMore
<1> HIDE DEF H7
<1>8. IsFiniteSet(H8) /\ Cardinality(H8) \in Nat /\ Cardinality(H8) <= Cardinality(H7) + 1
  BY <1>7, OneMore
<1> HIDE DEF H8
<1>9. QED
  BY <1>0, <1>1, <1>2, <1>3, <1>4, <1>5, <1>6, <1>7, <1>8

LEMMA NatMinimum ==
  ASSUME NEW T, T \subseteq Nat, T # {}
  PROVE  \E x \in T : \A y \in T : x <= y
<1> DEFINE R == OpToRel(<, Nat)
<1>1. \E x \in T : \A y \in T : <<y, x>> \notin R
  BY NatLessThanWellFounded, WFMin
<1>2. PICK x \in T : \A y \in T : <<y, x>> \notin R
  BY <1>1
<1>3. \A y \in T : ~(y < x)
  BY <1>2 DEF OpToRel
<1>4. QED
  BY <1>3

LEMMA SomeFree ==
  ASSUME NEW s
  PROVE  {i \in Id : Same(s, i) \notin Held} # {}
<1> SUFFICES ASSUME \A i \in Id : Same(s, i) \in Held PROVE FALSE
  OBVIOUS
<1> DEFINE f == [i \in Id |-> Same(s, i)]
<1>1. \A i, j \in Id : f[i] = f[j] => i = j
  BY DEF Same, Snap
<1>2. f \in [Id -> Held]
  OBVIOUS
<1>3. f \in Injection(Id, Held)
  BY <1>1, <1>2 DEF Injection, IsInjective
<1>4. IsFiniteSet(Id) /\ Cardinality(Id) <= Cardinality(Held)
  BY <1>3, EightHeld, FS_Injection
<1>5. Cardinality(Id) \in Nat /\ Cardinality(Held) \in Nat
  BY <1>4, EightHeld, FS_CardinalityType
<1>6. QED
  BY <1>4, <1>5, EightHeld, ScreenAssumption

\* A new snapshot is one that nobody holds, and it is not the nil pointer.
LEMMA NewIsNew ==
  ASSUME NEW s
  PROVE  New(s).id \in Id /\ New(s) \notin Held
<1> DEFINE free == {i \in Id : Same(s, i) \notin Held}
           pick == CHOOSE i \in free : \A j \in free : i <= j
<1>1. free \subseteq Nat /\ free # {}
  BY SomeFree, ScreenAssumption
<1>2. \E i \in free : \A j \in free : i <= j
  BY <1>1, NatMinimum
<1>3. pick \in free
  BY <1>2
<1>4. New(s) = Same(s, pick)
  BY DEF New
<1>5. QED
  BY <1>3, <1>4 DEF Same, Snap

-----------------------------------------------------------------------------
(***************************************************************************)
(* Types.                                                                  *)
(***************************************************************************)
LEMMA NilType == Nil \in Snapshot
  BY DEF Nil, Snap, Snapshot

LEMMA StatusTypes ==
  /\ Quiet \in Status
  /\ \A s \in Status : /\ [Quiet EXCEPT !.hotspot = s.hotspot] \in Status
                       /\ [hotspot |-> None, stage |-> s.stage, radio |-> s.radio] \in Status
                       /\ s.hotspot \in Hotspot \cup {None}
                       /\ s.stage \in Stage \cup {None}
<1>1. Quiet \in Status
  BY DEF Quiet, Status
<1>2. ASSUME NEW s \in Status
      PROVE  /\ [Quiet EXCEPT !.hotspot = s.hotspot] \in Status
             /\ [hotspot |-> None, stage |-> s.stage, radio |-> s.radio] \in Status
             /\ s.hotspot \in Hotspot \cup {None}
             /\ s.stage \in Stage \cup {None}
  <2>1. s.hotspot \in Hotspot \cup {None} /\ s.stage \in Stage \cup {None}
    BY DEF Status
  <2>2. [Quiet EXCEPT !.hotspot = s.hotspot]
          \in [hotspot : Hotspot \cup {None}, stage : {None}, radio : {FALSE}]
    BY <2>1 DEF Quiet
  <2>3. [hotspot |-> None, stage |-> s.stage, radio |-> s.radio] \in Status
    BY DEF Status
  <2>4. QED
    BY <2>1, <2>2, <2>3 DEF Status
<1>3. QED
  BY <1>1, <1>2

LEMMA NewType ==
  ASSUME NEW s, Same(s, 0) \in Snapshot
  PROVE  New(s) \in Snapshot
<1>1. New(s).id \in Id
  BY NewIsNew
<1>2. \E i : New(s) = Same(s, i)
  BY DEF New
<1>3. PICK i : New(s) = Same(s, i)
  BY <1>2
<1>4. i \in Id
  BY <1>1, <1>3 DEF Same, Snap
<1>5. QED
  BY <1>3, <1>4 DEF Same, Snap, Snapshot

LEMMA ComposedType ==
  ASSUME TypeOK, NEW r \in Read
  PROVE  Composed(r) \in Snapshot
<1>0. r.base \in Snapshot /\ r.status \in Status
  BY DEF Read
<1>1. CASE r.status.hotspot # None
  <2>1. Same(WithHotspot(r.base, r.status.hotspot), 0) \in Snapshot
    BY <1>0, StatusTypes DEF Same, WithHotspot, Snap, Snapshot
  <2>2. QED
    BY <1>1, <2>1, NewType DEF Composed, TypeOK, Entry
<1>2. CASE r.status.hotspot = None /\ FaultToInject(r.base, r.status) # None
  <2>1. FaultToInject(r.base, r.status) \in {None, "E05", "E06"}
    BY DEF FaultToInject
  <2>2. (IF r.status.radio THEN None ELSE r.status.stage) \in Stage \cup {None}
    BY <1>0, StatusTypes
  <2>3. Same(WithFault(r.base, r.status), 0) \in Snapshot
    BY <1>0, <2>1, <2>2 DEF Same, WithFault, Snap, Snapshot
  <2>4. QED
    BY <1>2, <2>3, NewType DEF Composed, TypeOK, Entry
<1>3. CASE r.status.hotspot = None /\ FaultToInject(r.base, r.status) = None
  BY <1>0, <1>3 DEF Composed
<1>4. QED
  BY <1>1, <1>2, <1>3

LEMMA CacheType ==
  ASSUME TypeOK, NEW r \in Read, Cache(r)
  PROVE  apCache' \in Entry /\ cxCache' \in Entry
<1>1. Kept(r) \in Entry
  BY ComposedType DEF Kept, Entry, Read
<1>2. QED
  BY <1>1 DEF Cache, TypeOK

LEMMA TypeInit == Init => TypeOK
<1> SUFFICES ASSUME Init PROVE TypeOK
  OBVIOUS
<1>1. Reads \in Read /\ NoEntry \in Entry
  BY NilType, StatusTypes DEF Reads, NoEntry, Read, Entry
<1>2. 0 \in 0 .. MaxMoves /\ BootLevel \in 0 .. FullLevel /\ -1 \in -1 .. FullLevel
  BY ScreenAssumption DEF FullLevel
<1>3. QED
  BY <1>1, <1>2, NilType, StatusTypes DEF Init, TypeOK, LoopStart

LEMMA TypeCalls ==
  ASSUME TypeOK, NEW c \in Caller, CallBegins(c) \/ ReadHotspot(c) \/ ReadConn(c)
  PROVE  TypeOK'
<1> USE DEF TypeOK, inputs, caches, shown, history
<1>1. asked[c].base \in Snapshot
  BY DEF Read
<1>2. CASE CallBegins(c)
  <2>1. [base |-> base, status |-> Quiet] \in Read
    BY StatusTypes DEF Read
  <2>2. QED
    BY <1>2, <2>1 DEF CallBegins
<1>3. CASE ReadHotspot(c)
  <2>1. [base |-> asked[c].base, status |-> [Quiet EXCEPT !.hotspot = status.hotspot]] \in Read
    BY <1>1, StatusTypes DEF Read
  <2>2. asked' \in [Caller -> Read]
    BY <1>3, <2>1 DEF ReadHotspot
  <2>3. QED
    BY <1>3, <2>2 DEF ReadHotspot
<1>4. CASE ReadConn(c)
  <2>1. [base |-> asked[c].base,
         status |-> [hotspot |-> None, stage |-> status.stage, radio |-> status.radio]] \in Read
    BY <1>1, StatusTypes DEF Read
  <2>2. asked' \in [Caller -> Read]
    BY <1>4, <2>1 DEF ReadConn
  <2>3. QED
    BY <1>4, <2>2 DEF ReadConn
<1>5. QED
  BY <1>2, <1>3, <1>4

LEMMA ReadsType == Reads \in Read
  BY NilType, StatusTypes DEF Reads, Read

LEMMA Levels == BrightnessAt \in 0 .. FullLevel /\ FullLevel \in 0 .. FullLevel
  BY ScreenAssumption DEF BrightnessAt, FullLevel

LEMMA TypeFrames == TypeOK /\ (WebView \/ RenderScene \/ SoakFrame) => TypeOK'
<1> SUFFICES ASSUME TypeOK, WebView \/ RenderScene \/ SoakFrame PROVE TypeOK'
  OBVIOUS
<1> USE DEF inputs, caches
<1>0. "web" \in Caller /\ "render" \in Caller
  BY DEF Caller
<1>1. CASE WebView
  <2>1. asked["web"] \in Read
    BY <1>0 DEF TypeOK
  <2>2. apCache' \in Entry /\ cxCache' \in Entry
    BY <1>1, <2>1, CacheType DEF WebView
  <2>3. asked' \in [Caller -> Read] /\ at' \in [Caller -> {"idle", "hotspot", "conn", "compose"}]
    BY <1>1, ReadsType DEF WebView, CallEnds, TypeOK
  <2>4. displaced' \in BOOLEAN
    BY <1>1 DEF WebView, TypeOK
  <2>5. QED
    BY <1>1, <2>2, <2>3, <2>4 DEF WebView, TypeOK
<1>2. CASE RenderScene
  <2>1. asked["render"] \in Read
    BY <1>0 DEF TypeOK
  <2>2. apCache' \in Entry /\ cxCache' \in Entry
    BY <1>2, <2>1, CacheType DEF RenderScene
  <2>3. asked' \in [Caller -> Read] /\ at' \in [Caller -> {"idle", "hotspot", "conn", "compose"}]
    BY <1>2, ReadsType DEF RenderScene, CallEnds, TypeOK
  <2>4. /\ loop'.last \in Snapshot /\ loop'.brightness \in -1 .. FullLevel
        /\ loop'.built \in BOOLEAN /\ loop'.flushed \in BOOLEAN /\ loop'.soaking \in BOOLEAN
    BY <1>2, <2>1, ComposedType, Levels DEF RenderScene, FullLevel
  <2>5. panel' \in 0 .. FullLevel /\ due' \in 0 .. FullLevel
    BY <1>2, Levels DEF RenderScene, Contrast, TypeOK
  <2>6. seen' \in Read \cup {None} /\ displaced' \in BOOLEAN /\ rebuilt' \in BOOLEAN
    BY <1>2, <2>1 DEF RenderScene
  <2>7. QED
    BY <1>2, <2>2, <2>3, <2>4, <2>5, <2>6 DEF RenderScene, TypeOK
<1>3. CASE SoakFrame
  <2>1. panel' \in 0 .. FullLevel /\ due' \in 0 .. FullLevel
    BY <1>3, Levels DEF SoakFrame, Contrast, TypeOK
  <2>2. QED
    BY <1>3, <2>1 DEF SoakFrame, TypeOK, FullLevel
<1>4. QED
  BY <1>1, <1>2, <1>3

LEMMA TypeSurroundings ==
  ASSUME TypeOK,
         \/ \E content \in Publishes : Publish(content)
         \/ \E st \in Status : ManagerMoves(st)
         \/ SoakStart \/ SoakEnds \/ ClockMoves
  PROVE  TypeOK'
<1> USE DEF Around, caches, shown, history, TypeOK
<1>0. Move => moves' \in 0 .. MaxMoves
  BY ScreenAssumption DEF Move
<1>1. ASSUME NEW content \in Publishes, Publish(content) PROVE TypeOK'
  <2>1. Same(Snap(0, content.state, content.fault, None, None), 0) \in Snapshot
    BY ScreenAssumption DEF Published, Same, Snap, Snapshot
  <2>2. base' \in Snapshot
    BY <1>1, <2>1, NewType DEF Publish
  <2>3. QED
    BY <1>0, <1>1, <2>2 DEF Publish
<1>2. ASSUME NEW st \in Status, ManagerMoves(st) PROVE TypeOK'
  BY <1>0, <1>2 DEF ManagerMoves
<1>3. CASE SoakStart \/ SoakEnds \/ ClockMoves
  BY <1>0, <1>3 DEF SoakStart, SoakEnds, ClockMoves
<1>4. QED
  BY <1>1, <1>2, <1>3

LEMMA TypeRestart == TypeOK /\ Restart => TypeOK'
<1> SUFFICES ASSUME TypeOK, Restart PROVE TypeOK'
  OBVIOUS
<1>1. Reads \in Read /\ NoEntry \in Entry
  BY NilType, StatusTypes DEF Reads, NoEntry, Read, Entry
<1>2. moves' \in 0 .. MaxMoves
  BY ScreenAssumption DEF Restart, Move, TypeOK
<1>3. BootLevel \in 0 .. FullLevel /\ -1 \in -1 .. FullLevel
  BY ScreenAssumption DEF FullLevel
<1>4. QED
  BY <1>1, <1>2, <1>3, NilType, StatusTypes DEF Restart, TypeOK, LoopStart

\* Every variable keeps its type; in particular a snapshot that the decorator
\* makes never lacks an identity of its own.
THEOREM TypeCorrect == Spec => []TypeOK
<1>1. TypeOK /\ [Next]_vars => TypeOK'
  <2> SUFFICES ASSUME TypeOK, [Next]_vars PROVE TypeOK'
    OBVIOUS
  <2>1. CASE UNCHANGED vars
    BY <2>1 DEF vars, inputs, caches, shown, history, TypeOK
  <2>2. CASE \E c \in Caller : CallBegins(c) \/ ReadHotspot(c) \/ ReadConn(c)
    BY <2>2, TypeCalls
  <2>3. CASE WebView \/ RenderScene \/ SoakFrame
    BY <2>3, TypeFrames
  <2>4. CASE Restart
    BY <2>4, TypeRestart
  <2>5. CASE \/ \E content \in Publishes : Publish(content)
             \/ \E st \in Status : ManagerMoves(st)
             \/ SoakStart \/ SoakEnds \/ ClockMoves
    BY <2>5, TypeSurroundings
  <2>6. QED
    BY <2>1, <2>2, <2>3, <2>4, <2>5 DEF Next, RenderStep, WebStep, Caller
<1>2. QED
  BY <1>1, TypeInit, PTL DEF Spec

-----------------------------------------------------------------------------
LEMMA InitInv == ScreenAssumption /\ Init => IInv
BY DEF Init, IInv, ApEntry, CxEntry, SceneKept, LastAlike, StillThere, Lit, PanelTrue, WebTrue,
       NoChurn, ContrastTrue, NoEntry, LoopStart, Nil, Snap

\* The loop, the caches and what the history says of them are as before.
LEMMA Undisturbed ==
  ASSUME IInv, UNCHANGED <<caches, loop, panel, seen, due, displaced, rebuilt>>,
         UNCHANGED <<view, told>> \/ view' = None
  PROVE  IInv'
<1>1. ApEntry' /\ CxEntry'
  BY DEF IInv, ApEntry, CxEntry, caches
<1>2. SceneKept' /\ LastAlike' /\ Lit' /\ PanelTrue' /\ NoChurn' /\ ContrastTrue'
  BY DEF IInv, SceneKept, LastAlike, Lit, PanelTrue, NoChurn, ContrastTrue
<1>3. StillThere'
  BY DEF IInv, StillThere, Recalled, ApHit, CxHit, caches
<1>4. WebTrue'
  BY DEF IInv, WebTrue
<1> QED
  BY <1>1, <1>2, <1>3, <1>4 DEF IInv

LEMMA WebViewKeeps == IInv /\ WebView => IInv'
<1> SUFFICES ASSUME IInv, WebView PROVE IInv'
  OBVIOUS
<1> DEFINE r == asked["web"]
<1>1. ApEntry' /\ CxEntry'
  BY CacheGood DEF IInv, WebView
<1>2. SceneKept' /\ LastAlike' /\ Lit' /\ PanelTrue' /\ NoChurn' /\ ContrastTrue'
  BY DEF IInv, WebView, SceneKept, LastAlike, Lit, PanelTrue, NoChurn, ContrastTrue
<1>3. StillThere'
  <2>1. CASE caches' = caches
    BY <2>1 DEF IInv, WebView, StillThere, Recalled, ApHit, CxHit, caches
  <2>2. CASE caches' # caches
    BY <2>2 DEF WebView, StillThere
  <2> QED
    BY <2>1, <2>2
<1>4. WebTrue'
  <2>1. Alike(Composed(r), Pure(r))
    BY ComposedAlike DEF IInv
  <2>2. ViewOf(Composed(r)) = ViewOf(Pure(r))
    BY <2>1, AlikeScenes
  <2>3. view' = ViewOf(Pure(r)) /\ told' = SceneOf(Pure(r))
    BY <2>2 DEF WebView
  <2> QED
    BY <2>3 DEF WebTrue, ViewOf, SceneOf
<1> QED
  BY <1>1, <1>2, <1>3, <1>4 DEF IInv

LEMMA RenderSceneKeeps == ScreenAssumption /\ IInv /\ RenderScene => IInv'
<1> SUFFICES ASSUME ScreenAssumption, IInv, RenderScene PROVE IInv'
  OBVIOUS
<1> DEFINE r == asked["render"]
           s == Composed(r)
<1>1. /\ loop'.last = s
      /\ loop'.scene = (IF MustBuild(s) THEN SceneOf(s) ELSE loop.scene)
      /\ loop'.built /\ loop'.brightness = BrightnessAt
      /\ seen' = r /\ displaced' = FALSE
  BY DEF RenderScene
<1>2. ApEntry' /\ CxEntry'
  BY CacheGood DEF IInv, RenderScene
<1>3. loop'.scene = SceneOf(s)
  BY <1>1 DEF MustBuild, IInv, SceneKept
<1>4. SceneKept' /\ LastAlike' /\ PanelTrue'
  <2>1. Alike(s, Pure(r))
    BY ComposedAlike DEF IInv
  <2>2. SceneOf(s) = SceneOf(Pure(r))
    BY <2>1, AlikeScenes
  <2>3. Pure(r)' = Pure(r') /\ SceneOf(Pure(r))' = SceneOf(Pure(r'))
    BY DEF Pure, SceneOf, WithHotspot, WithFault, FaultToInject, Snap
  <2> QED
    BY <1>1, <1>3, <2>1, <2>2 DEF SceneKept, LastAlike, PanelTrue
<1>5. StillThere'
  BY <1>1, CacheRecalls DEF StillThere, RenderScene, Recalled, ApHit, CxHit
<1>6. Lit' /\ ContrastTrue'
  <2>1. BrightnessAt # -1
    BY DEF BrightnessAt, FullLevel, ScreenAssumption
  <2>2. panel' = BrightnessAt
    BY <2>1 DEF RenderScene, Contrast, Applied, IInv, Lit
  <2> QED
    BY <1>1, <2>2 DEF Lit, ContrastTrue, RenderScene
<1>7. NoChurn'
  <2>1. SUFFICES ASSUME seen # None, r = seen, ~displaced, MustBuild(s) PROVE FALSE
    BY DEF NoChurn, RenderScene
  <2>2. s = loop.last
    BY <2>1, RecalledComposed DEF IInv, StillThere
  <2> QED
    BY <2>1, <2>2 DEF MustBuild, IInv, LastAlike
<1>8. WebTrue'
  BY DEF IInv, RenderScene, WebTrue
<1> QED
  BY <1>2, <1>4, <1>5, <1>6, <1>7, <1>8 DEF IInv

LEMMA SoakFrameKeeps == ScreenAssumption /\ IInv /\ SoakFrame => IInv'
<1> SUFFICES ASSUME ScreenAssumption, IInv, SoakFrame PROVE IInv'
  OBVIOUS
<1>1. ApEntry' /\ CxEntry'
  BY DEF IInv, SoakFrame, ApEntry, CxEntry, caches
<1>2. SceneKept' /\ LastAlike' /\ PanelTrue' /\ WebTrue' /\ NoChurn'
  BY DEF IInv, SoakFrame, SceneKept, LastAlike, PanelTrue, WebTrue, NoChurn
<1>3. StillThere'
  BY DEF IInv, SoakFrame, StillThere, Recalled, ApHit, CxHit, caches
<1>4. Lit' /\ ContrastTrue'
  <2>1. panel' = FullLevel
    BY DEF IInv, SoakFrame, Contrast, Lit, FullLevel
  <2> QED
    BY <2>1 DEF SoakFrame, Lit, ContrastTrue
<1> QED
  BY <1>1, <1>2, <1>3, <1>4 DEF IInv

LEMMA RestartKeeps == IInv /\ Restart => IInv'
BY DEF Restart, IInv, ApEntry, CxEntry, SceneKept, LastAlike, StillThere, Lit, PanelTrue, WebTrue,
       NoChurn, ContrastTrue, NoEntry, LoopStart, Nil, Snap

\* One step of anybody.
LEMMA StepKeeps == ScreenAssumption /\ IInv /\ [Next]_vars => IInv'
<1> SUFFICES ASSUME ScreenAssumption, IInv, [Next]_vars PROVE IInv'
  OBVIOUS
<1>1. ASSUME NEW c \in Caller, CallBegins(c) PROVE IInv'
  BY <1>1, Undisturbed DEF CallBegins
<1>2. ASSUME NEW c \in Caller, ReadHotspot(c) \/ ReadConn(c) PROVE IInv'
  BY <1>2, Undisturbed DEF ReadHotspot, ReadConn, shown, history
<1>3. ASSUME \/ \E content \in Publishes : Publish(content)
             \/ \E st \in Status : ManagerMoves(st)
             \/ SoakStart \/ SoakEnds \/ ClockMoves
      PROVE  IInv'
  BY <1>3, Undisturbed
  DEF Publish, ManagerMoves, SoakStart, SoakEnds, ClockMoves, Around, shown, history
<1>4. CASE UNCHANGED vars
  BY <1>4, Undisturbed DEF vars, shown, history
<1>5. CASE WebView
  BY <1>5, WebViewKeeps
<1>6. CASE RenderScene
  BY <1>6, RenderSceneKeeps
<1>7. CASE SoakFrame
  BY <1>7, SoakFrameKeeps
<1>8. CASE Restart
  BY <1>8, RestartKeeps
<1> QED
  BY <1>1, <1>2, <1>3, <1>4, <1>5, <1>6, <1>7, <1>8 DEF Next, RenderStep, WebStep, Caller

THEOREM Inductive == Spec => []IInv
<1>1. Init => IInv
  BY InitInv, ScreenAssumption
<1>2. IInv /\ [Next]_vars => IInv'
  BY StepKeeps, ScreenAssumption
<1> QED
  BY <1>1, <1>2, PTL DEF Spec

\* The panel shows what the loop's own last call has read: the caches that
\* it shares with the web are invisible to it.
THEOREM PanelIsTrue == Spec => []PanelTrue
<1>1. IInv => PanelTrue
  BY DEF IInv
<1> QED
  BY <1>1, Inductive, PTL

\* The web preview describes the scene the panel would make of the same
\* readings.
THEOREM WebIsTrue == Spec => []WebTrue
<1>1. IInv => WebTrue
  BY DEF IInv
<1> QED
  BY <1>1, Inductive, PTL

\* Both at once: nobody can tell that the caches are there, or shared.
THEOREM CachesAreUnseen == Spec => []CachesUnseen
  BY PanelIsTrue, WebIsTrue, PTL DEF CachesUnseen

\* A scene is built anew only for new readings, or when a web request has
\* replaced the entry.
THEOREM ScenesAreKept == Spec => []NoChurn
<1>1. IInv => NoChurn
  BY DEF IInv
<1> QED
  BY <1>1, Inductive, PTL

\* Every frame has its contrast.
THEOREM ContrastIsTrue == Spec => []ContrastTrue
<1>1. IInv => ContrastTrue
  BY DEF IInv
<1> QED
  BY <1>1, Inductive, PTL

-----------------------------------------------------------------------------
(***************************************************************************)
(* The refinement: forgetting the caches, the identities and all that the  *)
(* loop remembers, every step is one of the device that draws anew. What   *)
(* the poller publishes carries no overlay of its own.                     *)
(***************************************************************************)
Bare(b) ==
  b \in Snapshot /\ b.detail = None /\ b.hotspot = None
  /\ (b = Nil \/ Content(b) \in Published)

BareInv == Bare(base) /\ \A c \in Caller : Bare(asked[c].base)

LEMMA NilBare == Bare(Nil) /\ Content(Nil) = D!Nothing
  BY NilType DEF Bare, Nil, Snap, Content, D!Nothing

\* A published snapshot is as bare as it was meant to be.
LEMMA PublishedBare ==
  ASSUME TypeOK, ScreenAssumption, NEW content \in Publishes, Publish(content)
  PROVE  Content(base') = content /\ Bare(base')
<1> DEFINE s == Snap(0, content.state, content.fault, None, None)
<1>1. content \in Published
  BY DEF ScreenAssumption
<1>2. content = [state |-> content.state, fault |-> content.fault]
  BY <1>1 DEF Published
<1>3. base' \in Snapshot
  <2>1. TypeOK'
    BY TypeSurroundings
  <2>2. QED
    BY <2>1 DEF TypeOK
<1>4. /\ base'.state = content.state /\ base'.fault = content.fault
      /\ base'.detail = None /\ base'.hotspot = None
  BY NewAlike DEF Publish, Alike, Snap
<1>5. QED
  BY <1>1, <1>2, <1>3, <1>4 DEF Bare, Content

LEMMA BareInit == Init => BareInv
  BY NilBare DEF Init, BareInv, Reads

LEMMA BareNext == ScreenAssumption /\ TypeOK /\ BareInv /\ [Next]_vars => BareInv'
<1> SUFFICES ASSUME ScreenAssumption, TypeOK, BareInv, [Next]_vars PROVE BareInv'
  OBVIOUS
<1> USE DEF BareInv
<1>1. ASSUME NEW c \in Caller, CallBegins(c) \/ ReadHotspot(c) \/ ReadConn(c) PROVE BareInv'
  <2>1. \A d \in Caller : asked'[d].base \in {base, asked[d].base}
    BY <1>1 DEF CallBegins, ReadHotspot, ReadConn, TypeOK
  <2>2. base' = base
    BY <1>1 DEF CallBegins, ReadHotspot, ReadConn, inputs
  <2>3. QED
    BY <2>1, <2>2
<1>2. CASE WebView \/ RenderScene
  <2>1. \A d \in Caller : asked'[d].base \in {Nil, asked[d].base}
    BY <1>2 DEF WebView, RenderScene, CallEnds, Reads, TypeOK
  <2>2. base' = base
    BY <1>2 DEF WebView, RenderScene, inputs
  <2>3. QED
    BY <2>1, <2>2, NilBare
<1>3. CASE SoakFrame
  BY <1>3 DEF SoakFrame, inputs
<1>4. CASE Restart
  BY <1>4, NilBare DEF Restart, Reads
<1>5. ASSUME NEW content \in Publishes, Publish(content) PROVE BareInv'
  <2>1. asked' = asked
    BY <1>5 DEF Publish, Around
  <2>2. QED
    BY <1>5, <2>1, PublishedBare
<1>6. CASE (\E st \in Status : ManagerMoves(st)) \/ SoakStart \/ SoakEnds \/ ClockMoves
  BY <1>6 DEF ManagerMoves, SoakStart, SoakEnds, ClockMoves, Around
<1>7. CASE UNCHANGED vars
  BY <1>7 DEF vars, inputs
<1>8. QED
  BY <1>1, <1>2, <1>3, <1>4, <1>5, <1>6, <1>7 DEF Next, RenderStep, WebStep, Caller

\* What bare readings make is what the device that keeps nothing shows.
LEMMA PureShown ==
  ASSUME ScreenAssumption, NEW r \in Read, Bare(r.base)
  PROVE  SceneOf(Pure(r)) = D!Scene(Reading(r)) /\ ViewOf(Pure(r)) = D!View(Reading(r))
<1> DEFINE b == r.base
           t == r.status
<1>1. Reading(r).base.state = b.state /\ Reading(r).base.fault = b.fault /\ Reading(r).status = t
  BY DEF Reading, Content
<1>2. b.hotspot = None /\ b.detail = None
  BY DEF Bare
<1>3. b.fault = "E01" => b # Nil /\ b.state = "error"
  <2>1. Nil.fault # "E01"
    BY DEF Nil, Snap, ScreenAssumption
  <2>2. Content(b) \in Published /\ b.fault = "E01" => b.state = "error"
    BY DEF Content, Published, ScreenAssumption
  <2>3. QED
    BY <2>1, <2>2 DEF Bare
<1>4. b # Nil /\ b.state \in {"initialising", "error"} /\ b.fault \in {None, "E01"}
        => b.fault = "E01"
  <2>1. Content(b) \in Published /\ b.state \in {"initialising", "error"}
          => b.fault \in {"E01", "E02", "E04", "E07"}
    BY DEF Content, Published
  <2>2. QED
    BY <2>1 DEF Bare, ScreenAssumption
<1>5. FaultToInject(b, t) = IF b.fault # "E01" THEN None
                            ELSE IF t.radio THEN "E05"
                            ELSE IF t.stage # None THEN "E06" ELSE None
  BY <1>3, <1>4 DEF FaultToInject
<1>6. None \notin {"E05", "E06"}
  BY DEF ScreenAssumption
<1> HIDE DEF b, t
<1>7. CASE t.hotspot # None
  <2>1. Pure(r) = WithHotspot(b, t.hotspot)
    BY <1>7 DEF Pure, b, t
  <2>2. WithHotspot(b, t.hotspot).hotspot # None
    BY <1>7 DEF WithHotspot, Snap
  <2>3. QED
    BY <1>1, <1>7, <2>1, <2>2 DEF SceneOf, ViewOf, D!Scene, D!View
<1>8. CASE t.hotspot = None /\ b.fault = "E01" /\ (t.radio \/ t.stage # None)
  <2>1. Pure(r) = WithFault(b, t)
    BY <1>5, <1>6, <1>8 DEF Pure, b, t
  <2>2. /\ WithFault(b, t).state = "error" /\ WithFault(b, t).hotspot = None
        /\ WithFault(b, t).fault = IF t.radio THEN "E05" ELSE "E06"
        /\ WithFault(b, t).detail = IF t.radio THEN None ELSE t.stage
    BY <1>2, <1>5, <1>8 DEF WithFault, Snap
  <2>3. QED
    BY <1>1, <1>8, <2>1, <2>2 DEF SceneOf, ViewOf, D!Scene, D!View
<1>9. CASE t.hotspot = None /\ ~(b.fault = "E01" /\ (t.radio \/ t.stage # None))
  <2>1. Pure(r) = b
    BY <1>5, <1>9 DEF Pure, b, t
  <2>2. QED
    BY <1>1, <1>2, <1>9, <2>1 DEF SceneOf, ViewOf, D!Scene, D!View
<1>10. QED
  BY <1>7, <1>8, <1>9

\* What a call returns is shown as that.
LEMMA ComposedShown ==
  ASSUME ScreenAssumption, TypeOK, BareInv, IInv, NEW c \in Caller
  PROVE  /\ SceneOf(Composed(asked[c])) = D!Scene(Readings[c])
         /\ ViewOf(Composed(asked[c])) = D!View(Readings[c])
<1>1. asked[c] \in Read /\ Bare(asked[c].base)
  BY DEF TypeOK, BareInv
<1>2. Alike(Composed(asked[c]), Pure(asked[c]))
  BY ComposedAlike, ScreenAssumption DEF IInv
<1>3. Readings[c] = Reading(asked[c])
  BY DEF Readings
<1>4. QED
  BY <1>1, <1>2, <1>3, PureShown, AlikeScenes

\* The readings of one caller change as the abstract ones do.
LEMMA ReadingsMove ==
  ASSUME TypeOK, NEW c \in Caller, NEW r, asked' = [asked EXCEPT ![c] = r]
  PROVE  Readings' = [Readings EXCEPT ![c] = Reading(r)]
<1>1. \A d \in Caller : asked'[d] = IF d = c THEN r ELSE asked[d]
  BY DEF TypeOK
<1>2. Readings' = [d \in Caller |-> IF d = c THEN Reading(r) ELSE Reading(asked[d])]
  BY <1>1 DEF Readings
<1>3. QED
  BY <1>2 DEF Readings

LEMMA DrawnInit == Init => D!Init
  BY NilBare DEF Init, D!Init, D!Start, D!Resting, D!Blank, D!Quiet, Quiet, Readings, Reading,
                 Reads, LoopStart, Caller

LEMMA DrawnCalls ==
  ASSUME TypeOK, NEW c \in Caller, CallBegins(c) \/ ReadHotspot(c) \/ ReadConn(c)
  PROVE  D!Next
<1> c \in {"render", "web"}
  BY DEF Caller
<1>1. CASE CallBegins(c)
  <2>1. Readings' = [Readings EXCEPT ![c] = [base |-> Content(base), status |-> D!Quiet]]
    BY <1>1, ReadingsMove DEF CallBegins, Reading, Quiet, D!Quiet
  <2>2. view' = IF c = "web" THEN None ELSE view
    BY <1>1 DEF CallBegins
  <2>3. D!Begin(c)
    BY <1>1, <2>1, <2>2 DEF CallBegins, D!Begin, D!Reads, D!Goto, D!inputs, inputs
  <2>4. QED
    BY <2>3 DEF D!Next
<1>2. CASE ReadHotspot(c)
  <2>1. Readings' = [Readings EXCEPT ![c] =
          [base |-> Content(asked[c].base), status |-> [D!Quiet EXCEPT !.hotspot = status.hotspot]]]
    BY <1>2, ReadingsMove DEF ReadHotspot, Reading, Quiet, D!Quiet
  <2>2. Content(asked[c].base) = Readings[c].base
    BY DEF Readings, Reading
  <2>3. D!ReadHotspot(c)
    BY <1>2, <2>1, <2>2
    DEF ReadHotspot, D!ReadHotspot, D!Reads, D!Goto, D!inputs, D!shown, inputs, shown
  <2>4. QED
    BY <2>3 DEF D!Next
<1>3. CASE ReadConn(c)
  <2>1. [hotspot |-> None, stage |-> status.stage, radio |-> status.radio]
          = [status EXCEPT !.hotspot = None]
    <3>1. status \in [hotspot : Hotspot \cup {None}, stage : Stage \cup {None}, radio : BOOLEAN]
      BY DEF TypeOK, Status
    <3>2. QED
      BY <3>1
  <2>2. Readings' = [Readings EXCEPT ![c] =
          [base |-> Content(asked[c].base), status |-> [status EXCEPT !.hotspot = None]]]
    BY <1>3, <2>1, ReadingsMove DEF ReadConn, Reading
  <2>3. Content(asked[c].base) = Readings[c].base
    BY DEF Readings, Reading
  <2>4. D!ReadConn(c)
    BY <1>3, <2>2, <2>3
    DEF ReadConn, D!ReadConn, D!Reads, D!Goto, D!inputs, D!shown, inputs, shown
  <2>5. QED
    BY <2>4 DEF D!Next
<1>4. QED
  BY <1>1, <1>2, <1>3

\* A call that is over has let go of what it read, there and here.
LEMMA DrawnEnds ==
  ASSUME TypeOK, NEW c \in Caller, at[c] = "compose", CallEnds(c)
  PROVE  D!Ends(c)
<1>1. Readings' = [Readings EXCEPT ![c] = [base |-> D!Nothing, status |-> D!Quiet]]
  <2>1. Reading(Reads) = [base |-> D!Nothing, status |-> D!Quiet]
    BY NilBare DEF Reads, Reading, Quiet, D!Quiet
  <2>2. QED
    BY <2>1, ReadingsMove DEF CallEnds
<1>2. QED
  BY <1>1 DEF CallEnds, D!Ends, D!Goto, D!Reads

\* Whether the loop builds a scene or keeps the one it has, it is that of the
\* snapshot it was given.
LEMMA SceneDrawn ==
  ASSUME IInv, RenderScene
  PROVE  loop'.scene = SceneOf(Composed(asked["render"]))
<1>1. loop'.scene = IF MustBuild(Composed(asked["render"]))
                      THEN SceneOf(Composed(asked["render"])) ELSE loop.scene
  BY DEF RenderScene
<1>2. QED
  BY <1>1 DEF MustBuild, IInv, SceneKept

LEMMA DrawnShows ==
  ASSUME ScreenAssumption, TypeOK, BareInv, IInv, IInv',
         WebView \/ RenderScene \/ SoakFrame \/ Restart
  PROVE  D!Next
<1> "render" \in Caller /\ "web" \in Caller
  BY DEF Caller
<1>1. CASE WebView
  <2>1. D!Ends("web")
    BY <1>1, DrawnEnds DEF WebView
  <2>2. view' = D!View(Readings["web"])
    BY <1>1, ComposedShown DEF WebView
  <2>3. D!Preview
    BY <1>1, <2>1, <2>2 DEF WebView, D!Preview, D!inputs, inputs
  <2>4. QED
    BY <2>3 DEF D!Next
<1>2. CASE RenderScene
  <2>1. D!Ends("render")
    BY <1>2, DrawnEnds DEF RenderScene
  <2>2. loop'.scene = D!Scene(Readings["render"])
    BY <1>2, SceneDrawn, ComposedShown
  <2>3. panel' = D!Level
    BY <1>2 DEF IInv, ContrastTrue, RenderScene, BrightnessAt, D!Level
  <2>4. D!Frame
    BY <1>2, <2>1, <2>2, <2>3 DEF RenderScene, D!Frame, D!inputs, inputs
  <2>5. QED
    BY <2>4 DEF D!Next
<1>3. CASE SoakFrame
  <2>1. panel' = FullLevel
    BY <1>3 DEF IInv, ContrastTrue, SoakFrame
  <2>2. loop'.scene = loop.scene
    BY <1>3 DEF SoakFrame
  <2>3. Readings' = Readings
    BY <1>3 DEF SoakFrame, Readings
  <2>4. D!SoakFrame
    BY <1>3, <2>1, <2>2, <2>3 DEF SoakFrame, D!SoakFrame, D!inputs, D!calls, inputs
  <2>5. QED
    BY <2>4 DEF D!Next
<1>4. CASE Restart
  <2>1. Content(base') = D!Nothing /\ status' = D!Quiet /\ soak' = FALSE
    BY <1>4, NilBare DEF Restart, Quiet, D!Quiet
  <2>2. Readings' = [c \in {"render", "web"} |-> D!Blank]
    BY <1>4, NilBare DEF Restart, Readings, Reading, Reads, D!Blank, Quiet, D!Quiet, Caller
  <2>3. at' = D!Resting
    BY <1>4 DEF Restart, D!Resting, Caller
  <2>4. loop'.scene = None /\ panel' = BootLevel /\ view' = None /\ dark' = dark
    BY <1>4 DEF Restart, LoopStart
  <2>5. D!Restart
    BY <2>1, <2>2, <2>3, <2>4 DEF D!Restart, D!Start
  <2>6. QED
    BY <2>5 DEF D!Next
<1>5. QED
  BY <1>1, <1>2, <1>3, <1>4

\* Nothing of the calls and of what is shown changes.
LEMMA DrawnStill ==
  ASSUME UNCHANGED <<at, asked, shown>>
  PROVE  UNCHANGED <<D!calls, D!shown>>
BY DEF shown, D!calls, D!shown, Readings

LEMMA DrawnSurroundings ==
  ASSUME ScreenAssumption, TypeOK,
         \/ \E content \in Publishes : Publish(content)
         \/ \E st \in Status : ManagerMoves(st)
         \/ SoakStart \/ SoakEnds \/ ClockMoves
  PROVE  D!Next
<1>1. UNCHANGED <<D!calls, D!shown>>
  BY DrawnStill DEF Publish, ManagerMoves, SoakStart, SoakEnds, ClockMoves, Around
<1>2. ASSUME NEW content \in Publishes, Publish(content) PROVE D!Next
  <2>1. D!Publish
    BY <1>1, <1>2, PublishedBare DEF Publish, D!Publish
  <2>2. QED
    BY <2>1 DEF D!Next
<1>3. CASE (\E st \in Status : ManagerMoves(st)) \/ SoakStart \/ SoakEnds \/ ClockMoves
  <2>1. base' = base /\ status' \in Status
    BY <1>3 DEF ManagerMoves, SoakStart, SoakEnds, ClockMoves, TypeOK
  <2>2. soak' \in BOOLEAN
    BY <1>3 DEF ManagerMoves, SoakStart, SoakEnds, ClockMoves, TypeOK
  <2>3. dark' \in BOOLEAN
    BY <1>3 DEF ManagerMoves, SoakStart, SoakEnds, ClockMoves, TypeOK
  <2>4. D!Surroundings
    BY <1>1, <2>1, <2>2, <2>3 DEF D!Surroundings
  <2>5. QED
    BY <2>4 DEF D!Next
<1>4. QED
  BY <1>2, <1>3

\* For any inputs and any interleaving, what render loop, decorator and web
\* remember to save work (composite.go, loop.go) cannot be noticed: they
\* implement the device that draws and lights every frame anew.
THEOREM NothingRememberedShows == Spec => DrawnAnew
<1> DEFINE Inv == TypeOK /\ BareInv /\ IInv
<1>1. Spec => []Inv
  <2>1. TypeOK /\ BareInv /\ [Next]_vars => BareInv'
    BY BareNext, ScreenAssumption
  <2>2. QED
    BY <2>1, BareInit, TypeCorrect, Inductive, PTL DEF Spec
<1>2. Inv /\ Inv' /\ [Next]_vars => [D!Next]_<<D!inputs, D!calls, D!shown>>
  <2> SUFFICES ASSUME Inv, Inv', [Next]_vars
               PROVE  D!Next \/ UNCHANGED <<D!inputs, D!calls, D!shown>>
    OBVIOUS
  <2>1. CASE UNCHANGED vars
    <3>1. UNCHANGED <<D!calls, D!shown>>
      BY <2>1, DrawnStill DEF vars
    <3>2. UNCHANGED D!inputs
      BY <2>1 DEF vars, inputs, D!inputs
    <3>3. QED
      BY <3>1, <3>2
  <2>2. CASE Next
    BY <2>2, DrawnCalls, DrawnShows, DrawnSurroundings, ScreenAssumption
    DEF Next, RenderStep, WebStep, Caller
  <2>3. QED
    BY <2>1, <2>2
<1>3. QED
  BY <1>1, <1>2, DrawnInit, PTL DEF Spec, DrawnAnew, D!Spec
=============================================================================

------------------------ MODULE WindowManagerProofs ------------------------
(***************************************************************************)
(* Theorems about WindowManager, for any set of windows: win_z stays a     *)
(* permutation while it is edited under the walking loop, a window is      *)
(* minimised only while open, raising one window keeps the order of the    *)
(* others, and a frame paints every visible window once.                   *)
(***************************************************************************)
EXTENDS WindowManager, FiniteSetTheorems, NaturalsInduction, WellFoundedInduction, TLAPS

(* There is at least one place.                                            *)
LEMMA PlacesAreCounted == N \in Nat /\ N >= 1
<1>1. IsFiniteSet(0 .. 13)
  <2>1. \A a, b \in Int : IsFiniteSet(a .. b)
    BY FS_Interval
  <2>2. 0 \in Int /\ 13 \in Int
    OBVIOUS
  <2> QED BY <2>1, <2>2
<1>2. IsFiniteSet(Windows) /\ Cardinality(Windows) \in Nat
  BY <1>1, FS_Subset, FS_CardinalityType, WindowsAssumption
<1>3. Cardinality(Windows) # 0
  BY <1>2, FS_EmptySet, WindowsAssumption
<1> QED BY <1>2, <1>3 DEF N

(* focus_window gives every window its place again, and the raised one the *)
(* topmost.                                                                *)
LEMMA RaisedIsOrdered ==
  ASSUME NEW z \in [Places -> Windows], OnePlace(z), NEW w \in Windows
  PROVE  /\ Raised(z, w) \in [Places -> Windows]
         /\ OnePlace(Raised(z, w))
         /\ Raised(z, w)[N] = w
         /\ \A u, v \in Windows : Below(z, u, v) /\ Below(Raised(z, w), v, u) => u = w
<1> DEFINE f == FoundAt(z, w)
<1>0. N \in Nat /\ N >= 1 /\ Places = 1 .. N
  BY PlacesAreCounted DEF Places
<1>1. f \in Places /\ z[f] = w
  BY DEF FoundAt, OnePlace
<1>2. \A p \in Places : Raised(z, w)[p] = IF p < f THEN z[p] ELSE IF p < N THEN z[p + 1] ELSE w
  BY DEF Raised
<1>3. \A p, q \in Places : z[p] = z[q] => p = q
  BY DEF OnePlace
<1> HIDE DEF f
<1>4. \A p \in Places : p # N => p + 1 \in Places
  BY <1>0
<1>5. Raised(z, w) \in [Places -> Windows]
  <2>1. \A p \in Places : Raised(z, w)[p] \in Windows
    BY <1>2, <1>4, <1>0
  <2> QED BY <2>1 DEF Raised
<1>6. Raised(z, w)[N] = w
  BY <1>0, <1>1, <1>2
<1>7. \A p, q \in Places : Raised(z, w)[p] = Raised(z, w)[q] => p = q
  <2> SUFFICES ASSUME NEW p \in Places, NEW q \in Places, Raised(z, w)[p] = Raised(z, w)[q]
               PROVE  p = q
    OBVIOUS
  <2> DEFINE old(r) == IF r < f THEN r ELSE IF r < N THEN r + 1 ELSE f
  <2>1. \A r \in Places : old(r) \in Places /\ Raised(z, w)[r] = z[old(r)]
    BY <1>0, <1>1, <1>2, <1>4
  <2>2. old(p) = old(q)
    BY <2>1, <1>3
  <2> QED BY <2>2, <1>0, <1>1
<1>8. \A u \in Windows : \E p \in Places : Raised(z, w)[p] = u
  <2> SUFFICES ASSUME NEW u \in Windows PROVE \E p \in Places : Raised(z, w)[p] = u
    OBVIOUS
  <2>1. PICK o \in Places : z[o] = u
    BY DEF OnePlace
  <2>2. CASE o < f
    BY <2>1, <2>2, <1>2
  <2>3. CASE o = f
    BY <2>1, <2>3, <1>1, <1>6, <1>0
  <2>4. CASE o > f
    <3>1. o - 1 \in Places /\ ~(o - 1 < f) /\ o - 1 < N /\ (o - 1) + 1 = o
      BY <2>4, <1>0, <1>1
    <3> QED BY <3>1, <2>1, <1>2
  <2> QED BY <2>2, <2>3, <2>4, <1>0, <1>1
<1>9. OnePlace(Raised(z, w))
  BY <1>7, <1>8 DEF OnePlace
<1>10. \A u, v \in Windows : Below(z, u, v) /\ Below(Raised(z, w), v, u) => u = w
  <2> SUFFICES ASSUME NEW u \in Windows, NEW v \in Windows,
                      NEW p \in Places, NEW q \in Places, p < q, z[p] = u, z[q] = v,
                      NEW r \in Places, NEW s \in Places, r < s,
                      Raised(z, w)[r] = v, Raised(z, w)[s] = u, u # w
               PROVE  FALSE
    BY DEF Below
  <2> DEFINE old(t) == IF t < f THEN t ELSE IF t < N THEN t + 1 ELSE f
  <2>1. \A t \in Places : old(t) \in Places /\ Raised(z, w)[t] = z[old(t)]
    BY <1>0, <1>1, <1>2, <1>4
  <2>2. old(r) = q /\ old(s) = p
    BY <2>1, <1>3
  <2>3. s # N
    BY <1>6
  <2> QED BY <2>2, <2>3, <1>0, <1>1
<1> QED BY <1>5, <1>6, <1>9, <1>10

(* The hit test finds a window among those under the mouse.                *)
LEMMA HighestIsUnder ==
  ASSUME NEW under \in SUBSET Windows, under # {}, EveryWindowHasOnePlace
  PROVE  Highest(under) \in under
<1> DEFINE Hit(p) == win_z[p] \in under
           Depths == {d \in Nat : \E p \in Places : Hit(p) /\ d = N - p}
           Less == OpToRel(<, Nat)
<1>0. N \in Nat /\ Places = 1 .. N
  BY PlacesAreCounted DEF Places
<1>1. PICK a \in Places : Hit(a)
  BY DEF EveryWindowHasOnePlace, OnePlace
<1>2. N - a \in Depths
  BY <1>0, <1>1
<1>3. IsWellFoundedOn(Less, Nat)
  BY NatLessThanWellFounded
<1>4. PICK d \in Depths : \A e \in Depths : ~(<<e, d>> \in Less)
  <2> HIDE DEF Less, Depths
  <2>1. Depths \subseteq Nat
    BY DEF Depths
  <2> QED BY <1>2, <1>3, <2>1, WFMin
<1>5. PICK p \in Places : Hit(p) /\ d = N - p
  BY <1>4
<1>6. \A q \in Places : Hit(q) => q <= p
  <2> SUFFICES ASSUME NEW q \in Places, Hit(q), q > p PROVE FALSE
    BY <1>0
  <2>1. N - q \in Depths /\ N - q < d
    BY <1>0, <1>5
  <2>2. <<N - q, d>> \in Less
    BY <2>1 DEF OpToRel
  <2> QED BY <2>1, <2>2, <1>4
<1> QED BY <1>5, <1>6 DEF Highest
-----------------------------------------------------------------------------
(* What the theorems rest on.                                              *)
Inv == TypeOK /\ EveryWindowHasOnePlace /\ MinimizedIsOpen

(* The window whose turn it is, and the one a click hits, are windows.     *)
LEMMA TurnIsWindow ==
  ASSUME TypeOK, pc = "paint", place <= N
  PROVE  Turn \in Windows
BY PlacesAreCounted DEF TypeOK, Turn, Places

LEMMA HitIsVisible ==
  ASSUME Inv, NEW under \in SUBSET VisibleSet, under # {}
  PROVE  Highest(under) \in Windows /\ Visible(Highest(under))
BY HighestIsUnder DEF Inv, VisibleSet

LEMMA OpensWindows ==
  ASSUME NEW w \in Windows, NEW v \in Opens(w) \cap Windows
  PROVE  v \in Windows
OBVIOUS

(* What OpenOnTop does to the three parts of the z order.                  *)
LEMMA OpeningIsTyped ==
  ASSUME Inv, NEW w \in Windows, OpenOnTop(w)
  PROVE  /\ win_z' = Raised(win_z, w)
         /\ open' \in [Windows -> BOOLEAN] /\ minimized' \in [Windows -> BOOLEAN]
         /\ \A v \in Windows : minimized'[v] => open'[v]
BY DEF Inv, TypeOK, MinimizedIsOpen, OpenOnTop

(* Every step leaves win_z alone or raises one window, and leaves open and *)
(* minimized as they should be.                                            *)
ZStep ==
  /\ UNCHANGED win_z \/ \E w \in Windows : win_z' = Raised(win_z, w)
  /\ open' \in [Windows -> BOOLEAN] /\ minimized' \in [Windows -> BOOLEAN]
  /\ \A w \in Windows : minimized'[w] => open'[w]

LEMMA QuietZStep ==
  ASSUME Inv, UNCHANGED zvars
  PROVE  ZStep
BY DEF Inv, TypeOK, MinimizedIsOpen, ZStep, zvars

LEMMA OpeningZStep ==
  ASSUME Inv, NEW w \in Windows, OpenOnTop(w)
  PROVE  ZStep
BY OpeningIsTyped DEF ZStep

LEMMA NextRaises ==
  ASSUME Inv, [Next]_vars
  PROVE  ZStep
<1>1. CASE MousePacket
  BY <1>1, QuietZStep DEF MousePacket
<1>2. CASE KeyByte
  BY <1>2, QuietZStep DEF KeyByte
<1>3. CASE EndPoll
  BY <1>3, QuietZStep DEF EndPoll
<1>4. CASE Keyboard
  <2>1. CASE key \in Hotkeys
    <3>1. key \in Windows /\ ToggleApp(key)
      BY <1>4, <2>1 DEF Keyboard, Hotkeys
    <3>2. CASE Visible(key) /\ Top = key
      BY <3>1, <3>2 DEF ToggleApp, Visible, Inv, TypeOK, MinimizedIsOpen, ZStep
    <3>3. CASE ~(Visible(key) /\ Top = key)
      BY <3>1, <3>3, OpeningZStep DEF ToggleApp
    <3> QED BY <3>2, <3>3
  <2>2. CASE key \notin Hotkeys
    BY <1>4, <2>2, QuietZStep DEF Keyboard
  <2> QED BY <2>1, <2>2
<1>5. CASE Pointer
  <2>1. CASE Dragging \/ OverDesktop
    BY <2>1, QuietZStep DEF Dragging, OverDesktop
  <2>2. ASSUME NEW under \in SUBSET VisibleSet, Hovering(under)
        PROVE  ZStep
    BY <2>2, QuietZStep DEF Hovering
  <2>3. ASSUME NEW under \in SUBSET VisibleSet,
               \/ PressBody(under) \/ PressGrip(under) \/ PressMinimize(under)
               \/ PressFull(under) \/ PressClose(under)
        PROVE  ZStep
    <3>1. Pressing(under) /\ under # {}
      BY <2>3 DEF PressBody, PressGrip, PressMinimize, PressFull, PressClose, Pressing,
                  OverWindow
    <3>2. Highest(under) \in Windows /\ Visible(Highest(under))
      BY <3>1, HitIsVisible
    <3>3. win_z' = Raised(win_z, Highest(under))
      BY <3>1 DEF Pressing
    <3>4. CASE PressBody(under) \/ PressGrip(under) \/ PressFull(under)
      BY <3>2, <3>3, <3>4
         DEF PressBody, PressGrip, PressFull, Inv, TypeOK, MinimizedIsOpen, ZStep
    <3>5. CASE PressMinimize(under)
      BY <3>2, <3>3, <3>5 DEF PressMinimize, Visible, Inv, TypeOK, MinimizedIsOpen, ZStep
    <3>6. CASE PressClose(under)
      BY <3>2, <3>3, <3>6 DEF PressClose, Visible, Inv, TypeOK, MinimizedIsOpen, ZStep
    <3> QED BY <2>3, <3>4, <3>5, <3>6
  <2> QED BY <1>5, <2>1, <2>2, <2>3 DEF Pointer
<1>6. CASE Desktop
  <2>1. CASE DesktopIdle \/ PressSun
    BY <2>1, QuietZStep DEF DesktopIdle, PressSun
  <2>2. ASSUME NEW w \in MapIds, PressPlanet(w)
        PROVE  ZStep
    <3>1. w \in Windows
      BY DEF MapIds
    <3>2. CASE minimized[w]
      BY <2>2, <3>1, <3>2 DEF PressPlanet, Inv, TypeOK, MinimizedIsOpen, ZStep
    <3>3. CASE ~minimized[w]
      BY <2>2, <3>1, <3>3 DEF PressPlanet, Inv, TypeOK, MinimizedIsOpen, ZStep
    <3> QED BY <3>2, <3>3
  <2> QED BY <1>6, <2>1, <2>2 DEF Desktop
<1>7. CASE Paint
  <2>1. CASE SkipHidden \/ PaintOnly \/ PressButton \/ PlayArcade
    BY <2>1, QuietZStep DEF SkipHidden, PaintOnly, PressButton, PlayArcade
  <2>2. CASE OpenOther
    <3>1. PICK w \in Opens(Turn) \cap Windows :
            IF w = Debug /\ open[Debug] THEN UNCHANGED zvars ELSE OpenOnTop(w)
      BY <2>2 DEF OpenOther
    <3> QED BY <3>1, QuietZStep, OpeningZStep
  <2>3. CASE CloseDialog
    <3>1. Turn \in Windows /\ Visible(Turn) /\ Turn = SaveAs
      BY <2>3, TurnIsWindow DEF CloseDialog, Obeys, PaintTurn, NextPlace, Inv
    <3> QED BY <2>3, <3>1 DEF CloseDialog, Visible, Inv, TypeOK, MinimizedIsOpen, ZStep
  <2> QED BY <1>7, <2>1, <2>2, <2>3 DEF Paint
<1>8. CASE NextFrame
  BY <1>8, QuietZStep DEF NextFrame
<1>9. CASE UNCHANGED vars
  BY <1>9, QuietZStep DEF vars
<1> QED BY <1>1, <1>2, <1>3, <1>4, <1>5, <1>6, <1>7, <1>8, <1>9 DEF Next
-----------------------------------------------------------------------------
(* The other variables keep their types.                                   *)
LEMMA TypeStep ==
  ASSUME Inv, [Next]_vars
  PROVE  TypeOK'
<1> DEFINE ZTyped == win_z \in [Places -> Windows]
                     /\ open \in [Windows -> BOOLEAN] /\ minimized \in [Windows -> BOOLEAN]
           Rest == /\ usb_scanned \in BOOLEAN
                   /\ mouse_down \in BOOLEAN /\ mouse_just_pressed \in BOOLEAN
                   /\ key \in Hotkeys \cup {NoKey, OtherKey}
                   /\ grabbed \in BOOLEAN /\ recent \in BOOLEAN
                   /\ input_cooldown \in 0 .. Cooldown
                   /\ pc \in {"poll", "keyboard", "pointer", "desktop", "paint"}
                   /\ reads \in 0 .. MaxReads
                   /\ z_blocked \in BOOLEAN /\ click_consumed \in BOOLEAN
                   /\ place \in 1 .. N + 1
                   /\ is_modal_blocked \in BOOLEAN
                   /\ shown \subseteq Windows
                   /\ painted \in [Windows -> Nat]
                   /\ fired \subseteq Windows
                   /\ from_below \in BOOLEAN
<1>1. ZTyped'
  <2>1. ZStep
    BY NextRaises
  <2>2. \A w \in Windows : Raised(win_z, w) \in [Places -> Windows]
    BY RaisedIsOrdered DEF Inv, TypeOK, EveryWindowHasOnePlace
  <2> QED BY <2>1, <2>2 DEF ZStep, Inv, TypeOK
<1>2. Rest /\ Cooldown \in Nat /\ Cooldown >= 1 /\ MaxReads \in Nat /\ N \in Nat
  BY PlacesAreCounted, CooldownAssumption, MaxReadsAssumption DEF Inv, TypeOK
<1> SUFFICES Rest'
  BY <1>1 DEF TypeOK
<1>3. CASE MousePacket
  BY <1>2, <1>3 DEF MousePacket, zvars, hit, painting, history
<1>4. CASE KeyByte
  BY <1>2, <1>4 DEF KeyByte, zvars, hit, painting, history
<1>5. CASE EndPoll
  <2>1. \A c \in 0 .. Cooldown : CooledDown(c) \in 0 .. Cooldown
    BY <1>2 DEF CooledDown
  <2>2. input_cooldown' \in 0 .. Cooldown
    BY <1>2, <1>5, <2>1 DEF EndPoll
  <2>3. recent' \in BOOLEAN
    BY <1>2, <1>5 DEF EndPoll
  <2>4. /\ UNCHANGED <<usb_scanned, mouse_down, mouse_just_pressed, key, grabbed, place,
                        is_modal_blocked, shown, painted, fired, from_below>>
        /\ pc' = "keyboard" /\ reads' = 0 /\ z_blocked' = FALSE /\ click_consumed' = FALSE
    BY <1>5 DEF EndPoll, painting, history
  <2>5. reads' \in 0 .. MaxReads
    BY <1>2, <2>4
  <2> QED BY <1>2, <2>2, <2>3, <2>4, <2>5
<1>6. CASE Keyboard
  BY <1>2, <1>6 DEF Keyboard, hit, painting, history
<1>7. CASE Pointer
  <2>1. CASE Dragging \/ OverDesktop
    BY <1>2, <2>1 DEF Dragging, OverDesktop, input, painting, history
  <2>2. ASSUME NEW under \in SUBSET VisibleSet, OverWindow(under),
               grabbed' \in BOOLEAN, recent' \in BOOLEAN, click_consumed' \in BOOLEAN
        PROVE  Rest'
    BY <1>2, <2>2 DEF OverWindow, input, painting, history
  <2>3. ASSUME NEW under \in SUBSET VisibleSet,
               \/ Hovering(under) \/ PressBody(under) \/ PressGrip(under)
               \/ PressMinimize(under) \/ PressFull(under) \/ PressClose(under)
        PROVE  Rest'
    <3>1. /\ OverWindow(under)
          /\ grabbed' \in BOOLEAN /\ recent' \in BOOLEAN /\ click_consumed' \in BOOLEAN
      BY <1>2, <2>3 DEF Hovering, PressBody, PressGrip, PressMinimize, PressFull, PressClose,
                        Pressing
    <3> QED BY <3>1, <2>2
  <2> QED BY <1>7, <2>1, <2>3 DEF Pointer
<1>8. CASE Desktop
  <2>1. BeginPainting /\ click_consumed' \in BOOLEAN
    BY <1>2, <1>8 DEF Desktop, DesktopIdle, PressSun, PressPlanet
  <2>2. is_modal_blocked' \in BOOLEAN
    BY <2>1, <1>1 DEF BeginPainting
  <2> QED BY <1>2, <2>1, <2>2 DEF BeginPainting, input
<1>9. CASE Paint
  <2>1. NextPlace /\ Turn \in Windows
    BY <1>9, TurnIsWindow
       DEF Paint, SkipHidden, PaintOnly, PressButton, OpenOther, CloseDialog, PlayArcade, Obeys,
           PaintTurn, NextPlace, Inv
  <2>2. painted' \in [Windows -> Nat]
    BY <1>2, <1>9, <2>1
       DEF Paint, SkipHidden, PaintOnly, PressButton, OpenOther, CloseDialog, PlayArcade, Obeys,
           PaintTurn
  <2>3. input_cooldown' \in 0 .. Cooldown /\ fired' \subseteq Windows
    BY <1>2, <1>9, <2>1
       DEF Paint, SkipHidden, PaintOnly, PressButton, OpenOther, CloseDialog, PlayArcade, Obeys
  <2>4. usb_scanned' \in BOOLEAN /\ from_below' \in BOOLEAN
    BY <1>2, <1>9
       DEF Paint, SkipHidden, PaintOnly, PressButton, OpenOther, CloseDialog, PlayArcade
  <2>5. place' \in 1 .. N + 1
    BY <1>2, <2>1 DEF NextPlace
  <2> QED BY <1>2, <2>1, <2>2, <2>3, <2>4, <2>5 DEF NextPlace, input, hit
<1>10. CASE NextFrame
  <2>1. painted' \in [Windows -> Nat] /\ place' \in 1 .. N + 1
    BY <1>2, <1>10 DEF NextFrame
  <2> QED BY <1>2, <1>10, <2>1 DEF NextFrame, hit
<1>11. CASE UNCHANGED vars
  BY <1>2, <1>11 DEF vars, input, hit, painting, history
<1> QED BY <1>3, <1>4, <1>5, <1>6, <1>7, <1>8, <1>9, <1>10, <1>11 DEF Next

LEMMA InvInit == Init => Inv
<1> SUFFICES ASSUME Init PROVE Inv
  OBVIOUS
<1>0. N \in Nat /\ N >= 1 /\ Places = 1 .. N /\ Windows \subseteq Int
  BY PlacesAreCounted, WindowsAssumption DEF Places
<1>1. TypeOK
  <2>1. minimized \in [Windows -> BOOLEAN] /\ painted \in [Windows -> Nat]
    BY DEF Init
  <2>2. input_cooldown \in 0 .. Cooldown /\ reads \in 0 .. MaxReads /\ place \in 1 .. N + 1
    BY <1>0, CooldownAssumption, MaxReadsAssumption DEF Init
  <2> QED BY <2>1, <2>2 DEF Init, TypeOK
<1>2. \A p, q \in Places : win_z[p] = win_z[q] => p = q
  <2>1. \A p \in Places : win_z[p] \in Int
    BY <1>0 DEF Init
  <2> QED BY <1>0, <2>1 DEF Init
<1>3. EveryWindowHasOnePlace
  BY <1>2 DEF Init, EveryWindowHasOnePlace, OnePlace
<1>4. MinimizedIsOpen
  BY DEF Init, MinimizedIsOpen
<1> QED BY <1>1, <1>3, <1>4 DEF Inv

LEMMA InvStep == Inv /\ [Next]_vars => Inv'
<1> SUFFICES ASSUME Inv, [Next]_vars PROVE Inv'
  OBVIOUS
<1>1. ZStep
  BY NextRaises
<1>2. OnePlace(win_z)'
  <2>1. CASE UNCHANGED win_z
    BY <2>1 DEF Inv, EveryWindowHasOnePlace, OnePlace
  <2>2. ASSUME NEW w \in Windows, win_z' = Raised(win_z, w)
        PROVE  OnePlace(win_z)'
    <3>1. OnePlace(Raised(win_z, w))
      BY RaisedIsOrdered DEF Inv, TypeOK, EveryWindowHasOnePlace
    <3> QED BY <2>2, <3>1 DEF OnePlace
  <2> QED BY <1>1, <2>1, <2>2 DEF ZStep
<1>3. MinimizedIsOpen'
  BY <1>1 DEF ZStep, MinimizedIsOpen
<1> QED BY <1>2, <1>3, TypeStep DEF Inv, EveryWindowHasOnePlace

THEOREM Invariance == Spec => []Inv
BY InvInit, InvStep, PTL DEF Spec

(* The main loop's data keep their types.                                  *)
THEOREM TypeCorrect == Spec => []TypeOK
<1>1. Inv => TypeOK
  BY DEF Inv
<1> QED BY <1>1, Invariance, PTL

(* However windows are raised, minimised, closed and launched, also from   *)
(* within the painting loop, win_z lists each of them exactly once.        *)
THEOREM ZOrderIsPermutation == Spec => []EveryWindowHasOnePlace
<1>1. Inv => EveryWindowHasOnePlace
  BY DEF Inv
<1> QED BY <1>1, Invariance, PTL

(* A closed window is never marked minimised, so a planet's click shows it. *)
THEOREM PlanetsFindTheirWindow == Spec => []MinimizedIsOpen
<1>1. Inv => MinimizedIsOpen
  BY DEF Inv
<1> QED BY <1>1, Invariance, PTL

(* A step that changes the order of two windows puts one of them on top.   *)
THEOREM RaisingKeepsOrder == Spec => OrderIsKept
<1> DEFINE Kept == \A v, w \in Windows : Below(win_z, v, w) /\ Below(win_z', w, v) => Top' = v
<1>1. Inv /\ [Next]_vars => [Kept]_vars
  <2> SUFFICES ASSUME Inv, [Next]_vars PROVE Kept
    OBVIOUS
  <2>1. CASE UNCHANGED win_z
    <3> SUFFICES ASSUME NEW v \in Windows, NEW w \in Windows,
                        NEW p \in Places, NEW q \in Places, p < q, win_z[p] = v, win_z[q] = w,
                        NEW r \in Places, NEW s \in Places, r < s, win_z[r] = w, win_z[s] = v
                 PROVE  FALSE
      BY <2>1 DEF Below
    <3>1. p = s /\ q = r
      BY DEF Inv, EveryWindowHasOnePlace, OnePlace
    <3> QED BY <3>1, PlacesAreCounted DEF Places
  <2>2. ASSUME NEW u \in Windows, win_z' = Raised(win_z, u)
        PROVE  Kept
    <3>1. /\ Raised(win_z, u)[N] = u
          /\ \A v, w \in Windows :
               Below(win_z, v, w) /\ Below(Raised(win_z, u), w, v) => v = u
      BY RaisedIsOrdered DEF Inv, TypeOK, EveryWindowHasOnePlace
    <3> QED BY <2>2, <3>1 DEF Top
  <2> QED BY <2>1, <2>2, NextRaises DEF ZStep
<1> QED BY <1>1, Invariance, PTL DEF Spec, OrderIsKept
-----------------------------------------------------------------------------
(* Why a frame paints every visible window once.  Until the last place is  *)
(* reached only the launcher can raise a window, for every other window    *)
(* that opens or closes one asks to be the topmost, and then the walk ends. *)
PaintInv ==
  /\ pc # "paint" => ~from_below /\ place = 1 /\ \A w \in Windows : painted[w] = 0
  /\ pc = "paint" /\ ~from_below /\ place <= N =>
       /\ shown = VisibleSet
       /\ \A p \in Places : painted[win_z[p]] = IF p < place /\ win_z[p] \in shown THEN 1 ELSE 0
  /\ PaintedOnce

LEMMA PaintInit == Init => PaintInv
BY PlacesAreCounted DEF Init, PaintInv, PaintedOnce

(* One window painted, with the z order as it was.                         *)
LEMMA PaintOne ==
  ASSUME Inv, PaintInv, NextPlace, ~from_below, Visible(Turn),
         painted' = [painted EXCEPT ![Turn] = @ + 1]
  PROVE  \A p \in Places :
           painted'[win_z[p]] = IF p < place + 1 /\ win_z[p] \in shown THEN 1 ELSE 0
<1>0. N \in Nat /\ N >= 1 /\ Places = 1 .. N
  BY PlacesAreCounted DEF Places
<1>1. /\ pc = "paint" /\ place \in Places /\ Turn = win_z[place] /\ Turn \in Windows
      /\ shown = VisibleSet /\ painted \in [Windows -> Nat]
  BY <1>0, TurnIsWindow DEF NextPlace, Inv, TypeOK, PaintInv, Turn
<1>2. \A p \in Places : win_z[p] = Turn <=> p = place
  BY <1>1 DEF Inv, EveryWindowHasOnePlace, OnePlace
<1>3. \A p \in Places :
        /\ win_z[p] \in Windows
        /\ painted[win_z[p]] = IF p < place /\ win_z[p] \in shown THEN 1 ELSE 0
  BY <1>0, <1>1 DEF PaintInv, NextPlace, Inv, TypeOK
<1> SUFFICES ASSUME NEW p \in Places
             PROVE  painted'[win_z[p]] = IF p < place + 1 /\ win_z[p] \in shown THEN 1 ELSE 0
  OBVIOUS
<1>4. CASE p = place
  <2>1. Turn \in shown /\ painted[Turn] = 0
    BY <1>0, <1>1, <1>3, <1>4 DEF VisibleSet
  <2>2. painted'[Turn] = 1
    BY <1>1, <2>1
  <2> QED BY <1>0, <1>1, <1>4, <2>1, <2>2
<1>5. CASE p # place
  <2>1. painted'[win_z[p]] = painted[win_z[p]]
    BY <1>1, <1>2, <1>3, <1>5
  <2>2. p < place <=> p < place + 1
    BY <1>0, <1>1, <1>5
  <2> QED BY <1>3, <2>1, <2>2
<1> QED BY <1>4, <1>5

(* A hidden window passed over.                                            *)
LEMMA SkipOne ==
  ASSUME Inv, PaintInv, NextPlace, ~from_below, ~Visible(Turn)
  PROVE  \A p \in Places :
           painted[win_z[p]] = IF p < place + 1 /\ win_z[p] \in shown THEN 1 ELSE 0
<1>0. N \in Nat /\ N >= 1 /\ Places = 1 .. N
  BY PlacesAreCounted DEF Places
<1>1. /\ pc = "paint" /\ place \in Places /\ Turn = win_z[place] /\ Turn \notin shown
  BY <1>0, TurnIsWindow DEF NextPlace, Inv, TypeOK, PaintInv, Turn, VisibleSet
<1>2. \A p \in Places : painted[win_z[p]] = IF p < place /\ win_z[p] \in shown THEN 1 ELSE 0
  BY <1>1 DEF PaintInv, NextPlace
<1>3. \A p \in Places : p < place + 1 <=> p < place \/ p = place
  BY <1>0, <1>1
<1> QED BY <1>1, <1>2, <1>3

(* What is painted after one more turn, whichever kind of turn it was.     *)
PaintedSoFar ==
  \A p \in Places : painted'[win_z[p]] = IF p < place + 1 /\ win_z[p] \in shown THEN 1 ELSE 0

LEMMA OneTurn ==
  ASSUME Inv, PaintInv, NextPlace, ~from_below,
         \/ Visible(Turn) /\ painted' = [painted EXCEPT ![Turn] = @ + 1]
         \/ ~Visible(Turn) /\ UNCHANGED painted
  PROVE  PaintedSoFar
<1>1. CASE Visible(Turn) /\ painted' = [painted EXCEPT ![Turn] = @ + 1]
  BY <1>1, PaintOne DEF PaintedSoFar
<1>2. CASE ~Visible(Turn) /\ UNCHANGED painted
  BY <1>2, SkipOne DEF PaintedSoFar
<1> QED BY <1>1, <1>2

(* After the last turn the order no longer matters.                        *)
LEMMA LastTurn ==
  ASSUME Inv, NextPlace, place = N, PaintedSoFar
  PROVE  PaintInv'
<1>0. N \in Nat /\ N >= 1 /\ Places = 1 .. N
  BY PlacesAreCounted DEF Places
<1>1. pc' = "paint" /\ place' = N + 1 /\ shown' = shown
  BY DEF NextPlace
<1>2. \A w \in Windows : painted'[w] = IF w \in shown THEN 1 ELSE 0
  <2> SUFFICES ASSUME NEW w \in Windows
               PROVE  painted'[w] = IF w \in shown THEN 1 ELSE 0
    OBVIOUS
  <2>1. PICK p \in Places : win_z[p] = w
    BY DEF Inv, EveryWindowHasOnePlace, OnePlace
  <2>2. p < place + 1
    BY <1>0
  <2> QED BY <2>1, <2>2 DEF PaintedSoFar
<1>3. ~(N + 1 <= N)
  BY <1>0
<1> QED BY <1>1, <1>2, <1>3 DEF PaintInv, PaintedOnce

(* A turn that leaves the windows alone.                                   *)
LEMMA QuietTurn ==
  ASSUME Inv, PaintInv, NextPlace, UNCHANGED <<zvars, from_below>>,
         \/ Visible(Turn) /\ painted' = [painted EXCEPT ![Turn] = @ + 1]
         \/ ~Visible(Turn) /\ UNCHANGED painted
  PROVE  PaintInv'
<1>0. N \in Nat /\ N >= 1 /\ Places = 1 .. N /\ place \in Nat /\ place <= N
  BY PlacesAreCounted DEF Places, NextPlace, Inv, TypeOK
<1>1. pc = "paint" /\ pc' = "paint" /\ place' = place + 1 /\ shown' = shown
  BY DEF NextPlace
<1>2. CASE from_below
  BY <1>1, <1>2 DEF PaintInv, PaintedOnce
<1>3. CASE ~from_below /\ place = N
  BY <1>3, OneTurn, LastTurn
<1>4. CASE ~from_below /\ place # N
  <2>1. PaintedSoFar
    BY <1>4, OneTurn
  <2>2. shown' = VisibleSet'
    BY <1>0, <1>1, <1>4 DEF PaintInv, VisibleSet, Visible, zvars
  <2>3. \A p \in Places :
          painted'[win_z'[p]] = IF p < place' /\ win_z'[p] \in shown' THEN 1 ELSE 0
    BY <1>1, <2>1 DEF PaintedSoFar, zvars
  <2>4. place' # N + 1
    BY <1>0, <1>1, <1>4
  <2> QED BY <1>1, <2>2, <2>3, <2>4 DEF PaintInv, PaintedOnce
<1> QED BY <1>2, <1>3, <1>4

(* Away from the painting nothing is painted.                              *)
LEMMA Unpainted ==
  ASSUME PaintInv, pc # "paint", pc' # "paint", UNCHANGED <<place, painted, from_below>>
  PROVE  PaintInv'
BY DEF PaintInv, PaintedOnce

LEMMA PaintBegins ==
  ASSUME Inv, PaintInv, BeginPainting, Inv'
  PROVE  PaintInv'
<1>0. N \in Nat /\ N >= 1 /\ Places = 1 .. N
  BY PlacesAreCounted DEF Places
<1>1. /\ pc # "paint" /\ pc' = "paint" /\ place' = 1
      /\ shown' = VisibleSet' /\ painted' = painted /\ ~from_below'
  BY DEF BeginPainting, PaintInv, VisibleSet, Visible
<1>2. \A p \in Places : win_z'[p] \in Windows
  BY DEF Inv, TypeOK
<1>3. \A p \in Places : ~(p < 1)
  BY <1>0
<1>4. \A p \in Places : painted'[win_z'[p]] = 0
  BY <1>1, <1>2 DEF PaintInv
<1>5. 1 # N + 1
  BY <1>0
<1> QED BY <1>1, <1>3, <1>4, <1>5 DEF PaintInv, PaintedOnce

LEMMA PaintStep ==
  ASSUME Inv, PaintInv, [Next]_vars
  PROVE  PaintInv'
<1>0. Inv'
  BY InvStep
<1>1. CASE MousePacket \/ KeyByte \/ EndPoll \/ Keyboard
  BY <1>1, Unpainted DEF MousePacket, KeyByte, EndPoll, Keyboard, painting, history
<1>2. CASE Pointer
  BY <1>2, Unpainted
     DEF Pointer, Dragging, OverDesktop, Hovering, PressBody, PressGrip, PressMinimize, PressFull,
         PressClose, Pressing, OverWindow, painting, history
<1>3. CASE Desktop
  BY <1>0, <1>3, PaintBegins DEF Desktop, DesktopIdle, PressSun, PressPlanet
<1>4. CASE Paint
  <2>1. CASE SkipHidden \/ PaintOnly \/ PressButton \/ PlayArcade
    BY <2>1, QuietTurn DEF SkipHidden, PaintOnly, PressButton, PlayArcade, Obeys, PaintTurn
  <2>2. CASE OpenOther \/ CloseDialog
    <3>1. PaintTurn /\ NextPlace /\ Listens(Turn)
      BY <2>2 DEF OpenOther, CloseDialog, Obeys, PaintTurn
    <3>2. CASE from_below'
      BY <3>1, <3>2 DEF NextPlace, PaintInv, PaintedOnce
    <3>3. CASE ~from_below'
      <4>1. ~from_below
        BY <2>2, <3>3 DEF OpenOther, CloseDialog
      <4>2. Top = Turn \/ place = N
        <5>1. CASE OpenOther
          <6>1. Opens(Browser) = {}
            BY DEF Opens, Apps, Notepad, DiskMgr, Browser
          <6>2. Turn # Browser
            BY <5>1, <6>1 DEF OpenOther
          <6>3. Turn = Apps => place = N
            BY <3>3, <5>1 DEF OpenOther
          <6> QED BY <3>1, <6>2, <6>3 DEF Listens
        <5>2. CASE CloseDialog
          BY <3>1, <5>2 DEF CloseDialog, Listens, SaveAs, Apps, Browser
        <5> QED BY <2>2, <5>1, <5>2
      <4>3. place = N
        <5>1. place \in Places /\ N \in Places /\ Turn \in Windows
          BY <3>1, PlacesAreCounted, TurnIsWindow DEF NextPlace, Inv, TypeOK, Places
        <5> QED BY <4>2, <5>1 DEF Inv, EveryWindowHasOnePlace, OnePlace, Top, Turn
      <4>4. PaintedSoFar
        BY <3>1, <4>1, OneTurn DEF PaintTurn
      <4> QED BY <3>1, <4>3, <4>4, LastTurn
    <3> QED BY <3>2, <3>3
  <2> QED BY <1>4, <2>1, <2>2 DEF Paint
<1>5. CASE NextFrame
  BY <1>5 DEF NextFrame, PaintInv, PaintedOnce
<1>6. CASE UNCHANGED vars
  BY <1>6 DEF vars, zvars, painting, history, PaintInv, PaintedOnce, VisibleSet, Visible
<1> QED BY <1>1, <1>2, <1>3, <1>4, <1>5, <1>6 DEF Next

(* Whatever a frame's clicks open, close and raise while the windows are   *)
(* painted, each that was visible is painted once, unless the launcher was *)
(* clicked through others.                                                 *)
THEOREM FramePaintsOnce == Spec => []PaintedOnce
<1>1. PaintInv => PaintedOnce
  BY DEF PaintInv
<1> QED BY <1>1, PaintInit, PaintStep, Invariance, PTL DEF Spec
-----------------------------------------------------------------------------
(* Why one click presses one button outside the games: whoever obeys there *)
(* starts the cooldown, and nothing of the same frame ends it, not even a  *)
(* game that obeys as well.                                                *)
ClickInv ==
  /\ pc # "paint" => fired = {}
  /\ fired \ Arcade # {} => input_cooldown = Cooldown
  /\ OneButtonPerClick

LEMMA ClickInit == Init => ClickInv
BY DEF Init, ClickInv, OneButtonPerClick

LEMMA ClickStep ==
  ASSUME ClickInv, [Next]_vars
  PROVE  ClickInv'
<1>1. CASE MousePacket \/ KeyByte \/ EndPoll \/ Keyboard
  BY <1>1 DEF MousePacket, KeyByte, EndPoll, Keyboard, ClickInv, OneButtonPerClick, history
<1>2. CASE Pointer
  <2>1. fired' = fired /\ pc # "paint"
    BY <1>2 DEF Pointer, Dragging, OverDesktop, Hovering, PressBody, PressGrip, PressMinimize,
                PressFull, PressClose, Pressing, OverWindow, history
  <2> QED BY <2>1 DEF ClickInv, OneButtonPerClick
<1>3. CASE Desktop
  <2>1. fired' = fired /\ pc # "paint"
    BY <1>3 DEF Desktop, DesktopIdle, PressSun, PressPlanet, BeginPainting
  <2> QED BY <2>1 DEF ClickInv, OneButtonPerClick
<1>4. CASE Paint
  <2>1. pc' = "paint"
    BY <1>4 DEF Paint, SkipHidden, PaintOnly, PressButton, OpenOther, CloseDialog, PlayArcade,
                Obeys, PaintTurn, NextPlace, ClickInv
  <2>2. CASE SkipHidden \/ PaintOnly
    BY <2>1, <2>2 DEF SkipHidden, PaintOnly, ClickInv, OneButtonPerClick
  <2>3. CASE PressButton \/ OpenOther \/ CloseDialog
    <3>1. Obeys
      BY <2>3 DEF PressButton, OpenOther, CloseDialog
    <3>2. fired \ Arcade = {}
      BY <3>1, CooldownAssumption DEF Obeys, Listens, ClickInv
    <3>3. input_cooldown' = Cooldown /\ fired' \ Arcade = {Turn}
      BY <3>1, <3>2 DEF Obeys
    <3> QED BY <2>1, <3>3 DEF ClickInv, OneButtonPerClick
  <2>4. CASE PlayArcade
    <3>1. fired' \ Arcade = fired \ Arcade
      BY <2>4 DEF PlayArcade
    <3>2. input_cooldown' \in {input_cooldown, Cooldown}
      BY <2>4 DEF PlayArcade
    <3> QED BY <2>1, <3>1, <3>2 DEF ClickInv, OneButtonPerClick
  <2> QED BY <1>4, <2>2, <2>3, <2>4 DEF Paint
<1>5. CASE NextFrame
  BY <1>5 DEF NextFrame, ClickInv, OneButtonPerClick
<1>6. CASE UNCHANGED vars
  BY <1>6 DEF vars, history, ClickInv, OneButtonPerClick
<1> QED BY <1>1, <1>2, <1>3, <1>4, <1>5, <1>6 DEF Next

(* Of all the buttons under the mouse that are no game's one obeys a       *)
(* click, in whatever order the walk reaches them and whatever the first   *)
(* one raises.                                                             *)
THEOREM ClicksPressOneButton == Spec => []OneButtonPerClick
<1>1. ClickInv => OneButtonPerClick
  BY DEF ClickInv
<1> QED BY <1>1, ClickInit, ClickStep, PTL DEF Spec
=============================================================================

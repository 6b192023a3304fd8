--------------------------- MODULE WindowManager ---------------------------
(***************************************************************************)
(* The windows of OS2 and the main loop of kernel_main.cpp that serves     *)
(* them.  One frame of the loop polls the 8042 for mouse packets and keys, *)
(* serves the key, finds the window under the mouse, then the desktop, and *)
(* at last paints the windows from the lowest to the highest place of      *)
(* win_z.  Painting a window also serves its buttons, and a button may     *)
(* raise a window while the loop is still walking over win_z.              *)
(*                                                                         *)
(* Geometry is left out: what lies under the mouse, which part of it was   *)
(* hit and whether a button is there are choices.  (A button may even lie  *)
(* outside its window, which can be made narrower than its buttons.)       *)
(***************************************************************************)
EXTENDS Naturals, FiniteSets

CONSTANTS
  Windows,     (* the windows looked at; all of 0 .. 13 in the code        *)
  Cooldown,    (* frames a button stays dead after a click; 10 to 25       *)
  MaxReads     (* packets and keys read in one poll; 32 bytes in the code  *)

Notepad == 0
Apps    == 1
SaveAs  == 2
DiskMgr == 4
Browser == 8
Pong    == 11
Blobby  == 12
Debug   == 13
Hotkeys == Windows \cap {0, 1, 3, 4, 5, 13}
MapIds  == Windows \cap {0, 1, 3, 4, 5}
Arcade  == {Pong, Blobby}

ASSUME WindowsAssumption  == Windows \subseteq 0 .. 13 /\ Windows # {}
ASSUME CooldownAssumption == Cooldown \in Nat \ {0}
ASSUME MaxReadsAssumption == MaxReads \in Nat \ {0}

N == Cardinality(Windows)
Places == 1 .. N

NoKey    == 14
OtherKey == 15
ASSUME KeysAssumption == {NoKey, OtherKey} \cap Windows = {}

VARIABLES
  win_z,              (* the windows from bottom to top                    *)
  open,
  minimized,
  usb_scanned,
  mouse_down,
  mouse_just_pressed,
  key,                (* key_scancode while key_ready: the mailbox         *)
  grabbed,            (* drag_win or resize_win is set                     *)
  recent,             (* last_window_click is at most 250 ms ago           *)
  input_cooldown,
  pc,                 (* where in the frame the main loop is               *)
  reads,              (* what this poll has read                           *)
  z_blocked,
  click_consumed,
  place,              (* the place of win_z the painting has reached       *)
  is_modal_blocked,
  shown,              (* history: what was visible when painting began     *)
  painted,            (* history: how often this frame painted a window    *)
  fired,              (* history: the windows whose button obeyed          *)
  from_below          (* history: the launcher was clicked through others  *)

zvars     == <<win_z, open, minimized>>
input     == <<mouse_down, mouse_just_pressed, key, reads>>
hit       == <<grabbed, recent, z_blocked, click_consumed>>
history   == <<shown, painted, fired, from_below>>
painting  == <<place, is_modal_blocked>>
vars == <<zvars, usb_scanned, input, hit, input_cooldown, pc, painting, history>>

Top        == win_z[N]
Visible(w) == open[w] /\ ~minimized[w]
VisibleSet == {w \in Windows : Visible(w)}

\* Mutant of Raised: the old top is lost.
OverTop(z, w) == [z EXCEPT ![N] = w]

(* focus_window: everything above the window moves down one place and the  *)
(* window becomes the topmost.                                             *)
FoundAt(z, w) == CHOOSE p \in Places : z[p] = w
Raised(z, w) ==
  [p \in Places |-> IF p < FoundAt(z, w) THEN z[p]
                    ELSE IF p < N THEN z[p + 1] ELSE w]

Init ==
  /\ win_z \in [Places -> Windows]
  /\ \A w \in Windows : \E p \in Places : win_z[p] = w
  /\ \A p, q \in Places : p < q => win_z[p] < win_z[q]
  /\ open \in [Windows -> BOOLEAN]          \* the USB probe may report at boot
  /\ \A w \in Windows : open[w] => w = Debug
  /\ minimized = [w \in Windows |-> FALSE]
  /\ usb_scanned = FALSE
  /\ mouse_down = FALSE /\ mouse_just_pressed = FALSE
  /\ key = NoKey /\ reads = 0
  /\ grabbed = FALSE /\ recent \in BOOLEAN
  /\ input_cooldown = 0
  /\ pc = "poll"
  /\ z_blocked = FALSE /\ click_consumed = FALSE
  /\ place = 1 /\ is_modal_blocked = FALSE
  /\ shown = {} /\ painted = [w \in Windows |-> 0]
  /\ fired = {} /\ from_below = FALSE
(***************************************************************************)
(* handle_input and update_mouse_position.  A packet that repeats the held *)
(* button takes a press of the same poll back; a key replaces the one      *)
(* before it.                                                              *)
(***************************************************************************)

MousePacket ==
  /\ pc = "poll" /\ reads < MaxReads
  /\ \E left \in BOOLEAN :
       /\ mouse_just_pressed' = (left /\ ~mouse_down)
       /\ mouse_down' = left
  /\ reads' = reads + 1
  /\ UNCHANGED <<zvars, usb_scanned, key, hit, input_cooldown, pc, painting, history>>

KeyByte ==
  /\ pc = "poll" /\ reads < MaxReads
  /\ key' \in Hotkeys \cup {OtherKey}
  /\ reads' = reads + 1
  /\ UNCHANGED <<zvars, usb_scanned, mouse_down, mouse_just_pressed, hit, input_cooldown,
                 pc, painting, history>>

CooledDown(c) == IF c > 0 THEN c - 1 ELSE 0

EndPoll ==
  /\ pc = "poll"
  /\ pc' = "keyboard"
  /\ input_cooldown' = CooledDown(input_cooldown)
  /\ z_blocked' = FALSE /\ click_consumed' = FALSE
  /\ recent' \in {recent, FALSE}
  /\ reads' = 0
  /\ UNCHANGED <<zvars, usb_scanned, mouse_down, mouse_just_pressed, key, grabbed, painting,
                 history>>
OpenOnTop(w) ==
  /\ open' = [open EXCEPT ![w] = TRUE]
  /\ minimized' = [minimized EXCEPT ![w] = FALSE]
  /\ win_z' = Raised(win_z, w)

\* Mutant of ToggleApp: it asks for the place only.
ToggleTop(w) ==
  IF Top = w
  THEN minimized' = [minimized EXCEPT ![w] = TRUE] /\ UNCHANGED <<win_z, open>>
  ELSE OpenOnTop(w)

(* toggle_app: the hotkey of the topmost window hides it.  A key that is   *)
(* no hotkey changes the text of a window and nothing here.                *)
ToggleApp(w) ==
  IF Visible(w) /\ Top = w
  THEN minimized' = [minimized EXCEPT ![w] = TRUE] /\ UNCHANGED <<win_z, open>>
  ELSE OpenOnTop(w)

Keyboard ==
  /\ pc = "keyboard"
  /\ pc' = "pointer"
  /\ key' = NoKey
  /\ IF key \in Hotkeys THEN ToggleApp(key) ELSE UNCHANGED zvars
  /\ UNCHANGED <<usb_scanned, mouse_down, mouse_just_pressed, reads, hit, input_cooldown,
                 painting, history>>
(***************************************************************************)
(* The mouse on the windows.                                               *)
(***************************************************************************)

Highest(under) ==
  win_z[CHOOSE p \in Places : win_z[p] \in under /\ \A q \in Places : win_z[q] \in under => q <= p]

(* While a window is dragged or resized no other is looked at.             *)
Dragging ==
  /\ pc = "pointer" /\ mouse_down /\ grabbed
  /\ pc' = "desktop"
  /\ click_consumed' = TRUE
  /\ UNCHANGED <<zvars, usb_scanned, input, grabbed, recent, z_blocked, input_cooldown, painting,
                 history>>

OverDesktop ==
  /\ pc = "pointer" /\ ~(mouse_down /\ grabbed)
  /\ pc' = "desktop"
  /\ grabbed' = FALSE
  /\ UNCHANGED <<zvars, usb_scanned, input, recent, z_blocked, click_consumed, input_cooldown,
                 painting, history>>

OverWindow(under) ==
  /\ pc = "pointer" /\ ~(mouse_down /\ grabbed) /\ under # {}
  /\ pc' = "desktop"
  /\ z_blocked' = TRUE
  /\ UNCHANGED <<usb_scanned, input, input_cooldown, painting, history>>

Hovering(under) ==
  /\ OverWindow(under)
  /\ ~mouse_just_pressed
  /\ grabbed' = FALSE
  /\ UNCHANGED <<zvars, recent, click_consumed>>

Pressing(under) ==
  /\ OverWindow(under)
  /\ mouse_just_pressed
  /\ click_consumed' = TRUE
  /\ win_z' = Raised(win_z, Highest(under))

(* The body of the window, or one of its three buttons too soon.           *)
PressBody(under) ==
  /\ Pressing(under)
  /\ grabbed' = FALSE
  /\ UNCHANGED <<open, minimized, recent>>

(* The title or the lower right corner.                                    *)
PressGrip(under) ==
  /\ Pressing(under)
  /\ grabbed' = TRUE
  /\ UNCHANGED <<open, minimized, recent>>

PressMinimize(under) ==
  /\ Pressing(under)
  /\ ~recent /\ recent' = TRUE
  /\ minimized' = [minimized EXCEPT ![Highest(under)] = TRUE]
  /\ grabbed' = FALSE
  /\ UNCHANGED open

(* FULL changes the place and size of the window only.                     *)
PressFull(under) ==
  /\ Pressing(under)
  /\ ~recent /\ recent' = TRUE
  /\ grabbed' = FALSE
  /\ UNCHANGED <<open, minimized>>

PressClose(under) ==
  /\ Pressing(under)
  /\ ~recent /\ recent' = TRUE
  /\ open' = [open EXCEPT ![Highest(under)] = FALSE]
  /\ grabbed' = FALSE
  /\ UNCHANGED minimized

Pointer ==
  \/ Dragging
  \/ OverDesktop
  \/ \E under \in SUBSET VisibleSet :
       \/ Hovering(under)
       \/ PressBody(under)
       \/ PressGrip(under)
       \/ PressMinimize(under)
       \/ PressFull(under)
       \/ PressClose(under)
(***************************************************************************)
(* The sun and the planets: a planet restores its minimised window where   *)
(* it lies, or opens and raises it.  Then the painting begins.             *)
(***************************************************************************)

BeginPainting ==
  /\ pc = "desktop"
  /\ pc' = "paint"
  /\ place' = 1
  /\ is_modal_blocked' = (SaveAs \in Windows /\ open'[SaveAs] /\ ~minimized'[SaveAs])
  /\ shown' = {w \in Windows : open'[w] /\ ~minimized'[w]}
  /\ UNCHANGED <<usb_scanned, input, grabbed, recent, z_blocked, input_cooldown, painted, fired,
                 from_below>>

DesktopIdle ==
  /\ UNCHANGED <<zvars, click_consumed>>
  /\ BeginPainting

DesktopHears == ~z_blocked /\ mouse_just_pressed /\ ~click_consumed

PressSun ==
  /\ DesktopHears
  /\ click_consumed' = TRUE
  /\ UNCHANGED zvars
  /\ BeginPainting

PressPlanet(w) ==
  /\ DesktopHears
  /\ click_consumed' = TRUE
  /\ IF minimized[w]
     THEN minimized' = [minimized EXCEPT ![w] = FALSE] /\ UNCHANGED <<win_z, open>>
     ELSE /\ open' = [open EXCEPT ![w] = TRUE]
          /\ win_z' = Raised(win_z, w)
          /\ UNCHANGED minimized
  /\ BeginPainting

Desktop == DesktopIdle \/ PressSun \/ \E w \in MapIds : PressPlanet(w)
(***************************************************************************)
(* Painting win_z from the bottom up.  The window in turn is read from     *)
(* win_z as the buttons served before have left it.                        *)
(***************************************************************************)

Turn == win_z[place]

NextPlace ==
  /\ pc = "paint" /\ place <= N
  /\ place' = place + 1
  /\ UNCHANGED <<input, hit, pc, is_modal_blocked, shown>>

SkipHidden ==
  /\ NextPlace
  /\ ~Visible(Turn)
  /\ UNCHANGED <<zvars, input_cooldown, painted, fired, usb_scanned, from_below>>

PaintTurn ==
  /\ NextPlace
  /\ Visible(Turn)
  /\ painted' = [painted EXCEPT ![Turn] = @ + 1]

PaintOnly ==
  /\ PaintTurn
  /\ UNCHANGED <<zvars, input_cooldown, fired, usb_scanned, from_below>>

\* Mutants of Listens: the place is not asked for, or only the click is.
ListensBelow(w) == mouse_just_pressed /\ input_cooldown = 0
ListensAlways(w) == mouse_just_pressed
(* Who serves a click: the topmost window, but the launcher and the        *)
(* browser wherever they lie, unless the SAVE AS dialog is open.           *)
Listens(w) ==
  /\ mouse_just_pressed
  /\ input_cooldown = 0
  /\ IF w \in {Apps, Browser} THEN ~is_modal_blocked ELSE Top = w

Obeys ==
  /\ PaintTurn
  /\ Turn \notin Arcade \cup {Debug}
  /\ Listens(Turn)
  /\ input_cooldown' = Cooldown
  /\ fired' = fired \cup {Turn}

(* A button that leaves the windows as they are: NEXT, SAVE, FORMAT ... In *)
(* the disk manager REF allows another USB scan, and one may find nothing. *)
PressButton ==
  /\ Obeys
  /\ Turn # Apps
  /\ usb_scanned' \in (IF Turn = DiskMgr THEN BOOLEAN ELSE {usb_scanned})
  /\ UNCHANGED <<zvars, from_below>>

(* PLAY PONG, PLAY BLOBBY and WEB EXPLORER; SAVE AS; OPEN of a text, and   *)
(* SCAN USB, once until REF, whose probe reports to the debug window.      *)
Opens(w) ==
  CASE w = Apps    -> {Browser, Pong, Blobby}
    [] w = Notepad -> {SaveAs}
    [] w = DiskMgr -> {Notepad} \cup (IF usb_scanned THEN {} ELSE {Debug})
    [] OTHER       -> {}

(* debug_print opens its window, but leaves an open one where it is.       *)
OpenOther ==
  /\ Obeys
  /\ \E w \in Opens(Turn) \cap Windows :
       /\ IF w = Debug /\ open[Debug] THEN UNCHANGED zvars ELSE OpenOnTop(w)
       /\ usb_scanned' = (usb_scanned \/ w = Debug)
  /\ from_below' = (from_below \/ (Turn = Apps /\ place # N))

(* SAVE and CREATE of the dialog.                                          *)
CloseDialog ==
  /\ Obeys
  /\ Turn = SaveAs
  /\ open' = [open EXCEPT ![SaveAs] = FALSE]
  /\ UNCHANGED <<win_z, minimized, usb_scanned, from_below>>

(* A game asks nobody whether it is the topmost window.  START asks for    *)
(* the cooldown, the return to the menu for the dialog; the choice of a    *)
(* mode and a jump ask for nothing and leave the cooldown alone.           *)
PlayArcade ==
  /\ PaintTurn
  /\ Turn \in Arcade
  /\ mouse_just_pressed
  /\ \/ UNCHANGED input_cooldown
     \/ (input_cooldown = 0 \/ ~is_modal_blocked) /\ input_cooldown' = Cooldown
  /\ fired' = fired \cup {Turn}
  /\ UNCHANGED <<zvars, usb_scanned, from_below>>

Paint ==
  \/ SkipHidden \/ PaintOnly
  \/ PressButton \/ OpenOther \/ CloseDialog
  \/ PlayArcade

\* Mutant of Walked: the loop may end before the topmost window.
WalkedAlmost == place >= N
Walked == place > N

(* Swap, and the begin of the next handle_input.                           *)
NextFrame ==
  /\ pc = "paint" /\ Walked
  /\ pc' = "poll"
  /\ mouse_just_pressed' = FALSE
  /\ place' = 1
  /\ shown' = {} /\ painted' = [w \in Windows |-> 0]
  /\ fired' = {} /\ from_below' = FALSE
  /\ UNCHANGED <<zvars, usb_scanned, mouse_down, key, reads, hit, input_cooldown,
                 is_modal_blocked>>

Next ==
  \/ MousePacket \/ KeyByte \/ EndPoll
  \/ Keyboard
  \/ Pointer
  \/ Desktop
  \/ Paint
  \/ NextFrame

Spec == Init /\ [][Next]_vars

(* The loop never waits: task 0 gets the processor again and again.        *)
FairSpec == Spec /\ WF_vars(Next)
TypeOK ==
  /\ win_z \in [Places -> Windows]
  /\ open \in [Windows -> BOOLEAN] /\ minimized \in [Windows -> BOOLEAN]
  /\ usb_scanned \in BOOLEAN
  /\ mouse_down \in BOOLEAN /\ mouse_just_pressed \in BOOLEAN
  /\ key \in Hotkeys \cup {NoKey, OtherKey}
  /\ grabbed \in BOOLEAN /\ recent \in BOOLEAN
  /\ input_cooldown \in 0 .. Cooldown
  /\ pc \in {"poll", "keyboard", "pointer", "desktop", "paint"}
  /\ reads \in 0 .. MaxReads
  /\ z_blocked \in BOOLEAN /\ click_consumed \in BOOLEAN
  /\ place \in 1 .. N + 1
  /\ is_modal_blocked \in BOOLEAN
  /\ shown \subseteq Windows
  /\ painted \in [Windows -> Nat]
  /\ fired \subseteq Windows
  /\ from_below \in BOOLEAN

(* Raising, minimising, closing and launching edit win_z in place, even    *)
(* while it is being walked: it still lists every window exactly once.     *)
OnePlace(z) ==
  \A w \in Windows : \E p \in Places : z[p] = w /\ \A q \in Places : z[q] = w => q = p
EveryWindowHasOnePlace == OnePlace(win_z)

(* A window is minimised only while it is open.  The planets rely on it:   *)
(* they restore a minimised window and would show nothing of a closed one. *)
MinimizedIsOpen == \A w \in Windows : minimized[w] => open[w]

(* Buttons raise windows while win_z is walked.  Still every window that   *)
(* was visible when the painting began is painted once in the frame, and   *)
(* no other, unless the launcher was clicked through the windows above it. *)
PaintedOnce ==
  pc = "paint" /\ place = N + 1 /\ ~from_below =>
    \A w \in Windows : painted[w] = IF w \in shown THEN 1 ELSE 0

(* Several windows may have a button under the mouse and all of them see   *)
(* mouse_just_pressed: the launcher, the browser and the games wherever    *)
(* they lie.  The games obey whoever obeyed before and may leave the press *)
(* to others; of the other windows input_cooldown lets one obey.           *)
OneButtonPerClick == \A v, w \in fired \ Arcade : v = w

(* Two windows change their order only when one of them becomes the top.   *)
Below(z, v, w) == \E p, q \in Places : p < q /\ z[p] = v /\ z[q] = w
OrderIsKept ==
  [][\A v, w \in Windows : Below(win_z, v, w) /\ Below(win_z', w, v) => Top' = v]_vars

(* The launcher can make the walk miss a window for a frame, but not for   *)
(* ever: a window that stays visible is painted again and again.           *)
KeepsBeingPainted ==
  \A w \in Windows : []<>(painted[w] > 0 \/ ~Visible(w))
=============================================================================

---------------------------- MODULE Presentation ----------------------------
(***************************************************************************)
(* A frame on its way to the screen: the guest leaves a scene in OAM, the    *)
(* host shapes a frame for the window and the room (Display), tells the      *)
(* renderer which sprites to move to the edges of the wide view              *)
(* (X2ConfigureWsHud in src/x2_rtl.c), and shows the frame in the window it  *)
(* has by then.                                                              *)
(*                                                                           *)
(* The game has no flag that says whether the slots hold bars: cutscenes put *)
(* actors there, and the player's own sprites use the slots of the boss bar  *)
(* outside boss fights.  The code recognises the bars by their fingerprint   *)
(* in OAM, anew for every frame, and configures the renderer, which keeps a  *)
(* configuration until it is told another.                                   *)
(***************************************************************************)
EXTENDS Display, FiniteSets

CONSTANTS
  Scenes,       \* what the game may write to OAM: slots 0..23
  Rooms         \* values of $1FAD and $D1

ASSUME ScenesAssumption ==
  Scenes \subseteq [0..23 -> [x : 0..511, y : 0..255, tile : 0..255, attr : 0..255, is : STRING]]

VARIABLES
  oam,          \* slot -> [x, y, tile, attr, is], x with its ninth bit
  room,
  range, range2,    \* the renderer's two ranges of slots to move
  band,         \* PpuSetWsHudOamBand
  prepared      \* the renderer has been configured for this frame

hudVars == <<oam, room, range, range2, band, prepared>>

-----------------------------------------------------------------------------
HudBandHeight == 96
HudLeftEnd == 64
HudRightStart == 192
HudOff == [height |-> 0, left |-> 0, right |-> 0]

Slots(first, count) == first..(first + count - 1)

\* A piece of a bar at column x: palette $34, ninth bit clear, inside the band.
BarPiece(s, x) == s.x = x /\ s.attr = \h34 /\ s.y < HudBandHeight

\* Mutant: the first version, which wanted slot 5 as well.
HudPresentExact(sprites) ==
  /\ BarPiece(sprites[0], 8) /\ sprites[0].tile = \h86
  /\ \A s \in 0..5 : BarPiece(sprites[s], 8)

\* x2_ws_hud_present(): the icon, and four pieces of slots 0 to 4.
HudPresent(sprites) ==
  /\ BarPiece(sprites[0], 8) /\ sprites[0].tile = \h86
  /\ Cardinality({s \in 0..4 : BarPiece(sprites[s], 8)}) >= 4

\* x2_ws_boss_hud_present()
BossHudPresent(sprites) == Cardinality({s \in 16..22 : BarPiece(sprites[s], 232)}) >= 4

-----------------------------------------------------------------------------
(***************************************************************************)
(* The frame loop.                                                           *)
(***************************************************************************)
\* X2UseNativeFrame(): the room is shown without gutters.
UseNativeFrame(r) == r = <<12, 4>>

extra == (frame_width - 256) \div 2

PresentationInit ==
  /\ Init
  /\ oam \in Scenes /\ room \in Rooms
  /\ wide => ~UseNativeFrame(room)
  /\ range = {} /\ range2 = {} /\ band = HudOff
  /\ prepared = FALSE

\* The guest writes OAM and perhaps enters a room; the next frame is shaped.
GuestFrame ==
  /\ BeginFrame \/ ReplayFrame
  /\ oam' \in Scenes /\ room' \in Rooms
  /\ wide' => ~UseNativeFrame(room')
  /\ prepared' = FALSE
  /\ UNCHANGED <<range, range2, band>>

\* Mutant: without a HUD the second range keeps its old value.
ConfigureKeepsRange2 ==
  /\ pc = "rendering" /\ ~prepared /\ prepared' = TRUE
  /\ IF extra = 0 \/ ~HudPresent(oam)
     THEN range' = {} /\ UNCHANGED <<range2, band>>
     ELSE /\ band' = [height |-> HudBandHeight, left |-> HudLeftEnd, right |-> HudRightStart]
          /\ range' = Slots(0, 16)
          /\ range2' = Slots(16, IF BossHudPresent(oam) THEN 7 ELSE 0)
  /\ UNCHANGED <<vars, oam, room>>

\* X2ConfigureWsHud(): off first, then the bars that are recognised.
ConfigureWsHud ==
  /\ pc = "rendering" /\ ~prepared /\ prepared' = TRUE
  /\ IF extra = 0 \/ ~HudPresent(oam)
     THEN range' = {} /\ range2' = {} /\ UNCHANGED band
     ELSE /\ band' = [height |-> HudBandHeight, left |-> HudLeftEnd, right |-> HudRightStart]
          /\ range' = Slots(0, 16)
          /\ range2' = Slots(16, IF BossHudPresent(oam) THEN 7 ELSE 0)
  /\ UNCHANGED <<vars, oam, room>>

ShowFrame == prepared /\ Present /\ UNCHANGED hudVars

ResizeWindow == Resize /\ UNCHANGED hudVars

PresentationNext == GuestFrame \/ ConfigureWsHud \/ ShowFrame \/ ResizeWindow

PresentationSpec == PresentationInit /\ [][PresentationNext]_<<vars, hudVars>>

-----------------------------------------------------------------------------
\* PpuAdjustWidescreenHudOamX, as the comment in x2_rtl.c:199-202 gives it.
DrawnX(slot) ==
  LET s == oam[slot]
  IN IF slot \notin range \cup range2 \/ s.y >= band.height THEN s.x
     ELSE IF s.x < band.left THEN s.x - extra
     ELSE IF s.x >= band.right /\ s.x < 256 THEN s.x + extra
     ELSE s.x

\* A drawn sprite that is not at its native place is a piece of a bar: actors
\* and the player never move with the HUD, whatever was on screen in the frame
\* before (x2_rtl.c:215-222, OAM_SURVEY.md).
OnlyBarsMove ==
  prepared => \A slot \in 0..23 : DrawnX(slot) # oam[slot].x =>
                    oam[slot].is \in {"hp", "weapon", "boss"}

\* In gameplay every visible piece of a bar is as far from its edge of the wide
\* view as from its edge of the native one, however full the bar is
\* (x2_rtl.c:204-206 and 237-241).
BarsReachTheEdges ==
  prepared => \A slot \in 0..23 : oam[slot].y < HudBandHeight =>
    /\ oam[slot].is \in {"hp", "weapon"} => DrawnX(slot) + extra = oam[slot].x
    /\ oam[slot].is = "boss" => DrawnX(slot) - extra = oam[slot].x
=============================================================================

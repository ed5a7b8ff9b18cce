------------------------------ MODULE Display ------------------------------
(***************************************************************************)
(* src/x2_display.c: how wide a frame the machine renders, where it is put   *)
(* in the window, and which stage column a scrolled tilemap shows.           *)
(*                                                                           *)
(* The width is chosen when a frame begins and the viewport when it is       *)
(* presented; the window may change at any time between.  Widths are even    *)
(* integers, so almost no window has exactly the shape of a frame.  The code *)
(* computes viewports with doubles; here they are exact fractions, and where *)
(* the fraction to round ends in one half either neighbour is allowed.       *)
(***************************************************************************)
EXTENDS Integers

CONSTANTS
  Drawables,        \* sizes of the window: [width, height]
  ResizedTo,        \* bound: those among them a running game is resized to
  ExtraMax,         \* kWsExtraMax of the framework
  Cameras,          \* positions of the camera, 16 bits
  Offsets           \* what shake and HDMA add to a line's scroll

ASSUME DisplayAssumption ==
  /\ Drawables \subseteq [width : Nat, height : Nat]
  /\ ResizedTo \subseteq Drawables
  /\ ExtraMax \in Nat
  /\ Cameras \subseteq Nat
  /\ Offsets \subseteq Int
  /\ \A o \in Offsets : -128 < o /\ o < 128

VARIABLES
  drawable,         \* the window now
  wide,             \* widescreen is on and the room is not native
  ignore_aspect, integer_scale,     \* the options it was presented with
  frame_width,      \* of the frame being shown
  shaped_for,       \* auxiliary: the window frame_width was computed for
  viewport,
  pc                \* "rendering" or "shown"

vars == <<drawable, wide, ignore_aspect, integer_scale, frame_width, shaped_for, viewport, pc>>

SourceHeight == 224

Smaller(a, b) == IF a <= b THEN a ELSE b
Larger(a, b) == IF a >= b THEN a ELSE b

-----------------------------------------------------------------------------
(***************************************************************************)
(* Frame width.                                                              *)
(***************************************************************************)
\* Mutant: no upper bound.
ClampLow(value) == Larger(value - (value % 2), 256)

\* ClampEven()
ClampEven(value) == Smaller(Larger(value - (value % 2), 256), 256 + 2 * ExtraMax)

\* The quotient to the nearest integer, a half to the even one.
NearestWidth(d) ==
  LET quotient  == (d.width * 192) \div d.height
      remainder == (d.width * 192) % d.height
  IN IF \/ remainder * 2 > d.height
        \/ remainder * 2 = d.height /\ quotient % 2 # 0
     THEN quotient + 1 ELSE quotient

\* X2Display_ComputeFrameWidth(): odd widths go up.
ComputeFrameWidth(d, w) ==
  IF ~w \/ d.width = 0 \/ d.height = 0 THEN 256
  ELSE ClampEven(NearestWidth(d) + (NearestWidth(d) % 2))

-----------------------------------------------------------------------------
(***************************************************************************)
(* Viewport.  A scale is a fraction [num, den].                              *)
(***************************************************************************)
\* (int)(n / d + 0.5) as a double may compute it.
Rounded(n, d) ==
  {(2 * n + d) \div (2 * d)} \cup
    IF (2 * n + d) % (2 * d) = 0 THEN {(2 * n + d) \div (2 * d) - 1} ELSE {}

\* Window pixels per source pixel: a source pixel is 7/6 wide.
ScaleX(source, d) == [num |-> 6 * d.width, den |-> 7 * source]
ScaleY(d) == [num |-> d.height, den |-> SourceHeight]
Below(s, t) == s.num * t.den < t.num * s.den

\* Mutant: the larger scale, which fills the window and overflows it.
CoverScale(source, d, integer) ==
  IF Below(ScaleX(source, d), ScaleY(d)) THEN ScaleY(d) ELSE ScaleX(source, d)

\* The largest scale that fits, a whole number if the option says so and the
\* window is large enough.
FitScale(source, d, integer) ==
  LET fit == IF Below(ScaleX(source, d), ScaleY(d)) THEN ScaleX(source, d) ELSE ScaleY(d)
  IN IF integer /\ fit.num >= fit.den THEN [num |-> fit.num \div fit.den, den |-> 1]
     ELSE fit

\* Mutant: no gap is closed.
KeepGap(size, window, pixel) == size

\* Gaps of at most a source pixel are closed.
Snap(size, window, pixel) == IF window - size <= pixel THEN Larger(size, window) ELSE size

Centred(w, h, d) ==
  [x |-> (d.width - w) \div 2, y |-> (d.height - h) \div 2, width |-> w, height |-> h]

\* X2Display_ComputeViewport(): the viewports the build may compute.
Viewports(source, d, ignore, integer) ==
  IF ignore \/ d.width = 0 \/ d.height = 0
  THEN {[x |-> 0, y |-> 0, width |-> Larger(d.width, 1), height |-> Larger(d.height, 1)]}
  ELSE LET scale == FitScale(source, d, integer)
       IN {Centred(IF integer THEN w ELSE Snap(w, d.width, (d.width + 255) \div 256),
                   IF integer THEN h ELSE Snap(h, d.height, (d.height + 223) \div 224), d) :
             w \in Rounded(7 * source * scale.num, 6 * scale.den),
             h \in Rounded(SourceHeight * scale.num, scale.den)}

-----------------------------------------------------------------------------
(***************************************************************************)
(* Stage columns.  The game streams the stage into a tilemap page of 256     *)
(* pixels, so a line's scroll register keeps only the phase within a page.   *)
(* The camera knows the page, but the line may be shaken or bent by HDMA     *)
(* across a page edge, on either side of it.                                 *)
(***************************************************************************)
\* Mutant: a page edge between camera and line is not noticed.
SamePage(camera, scroll) == camera - (camera % 256) + (scroll % 256)

\* X2Display_ExpandStageScroll(): of the copies of the phase, the one nearest
\* the camera.
ExpandStageScroll(camera, scroll) ==
  LET copy  == camera - (camera % 256) + (scroll % 256)
      delta == copy - camera
  IN IF delta > 128 THEN copy - 256
     ELSE IF delta < -128 THEN copy + 256
     ELSE copy

-----------------------------------------------------------------------------
Whole(d) == [x |-> 0, y |-> 0, width |-> d.width, height |-> d.height]

Init ==
  /\ drawable \in Drawables /\ shaped_for = drawable /\ wide \in BOOLEAN
  /\ ignore_aspect = FALSE /\ integer_scale = FALSE
  /\ frame_width = ComputeFrameWidth(drawable, wide)
  /\ viewport = Whole(drawable) /\ pc = "rendering"

\* The player resizes the window or goes to full screen, while a frame renders.
Resize ==
  /\ pc = "rendering"
  /\ \E d \in ResizedTo \ {drawable} : drawable' = d
  /\ UNCHANGED <<wide, ignore_aspect, integer_scale, frame_width, shaped_for, viewport, pc>>

\* The host shows the frame it has in the window it has.
Present ==
  /\ pc = "rendering" /\ pc' = "shown"
  /\ ignore_aspect' \in BOOLEAN /\ integer_scale' \in BOOLEAN
  /\ viewport' \in Viewports(frame_width, drawable, ignore_aspect', integer_scale')
  /\ UNCHANGED <<drawable, wide, frame_width, shaped_for>>

\* The next frame is shaped for the window and the room of now: the mod, or
\* X2UseNativeFrame, turns widescreen on or off.
BeginFrame ==
  /\ pc = "shown" /\ pc' = "rendering"
  /\ wide' \in BOOLEAN
  /\ frame_width' = ComputeFrameWidth(drawable, wide') /\ shaped_for' = drawable
  /\ ignore_aspect' = FALSE /\ integer_scale' = FALSE /\ viewport' = Whole(drawable)
  /\ UNCHANGED drawable

\* A frame of a tape has the width recorded for it, whatever the window it was
\* shaped for is (MmxReplayViewport).
ReplayFrame ==
  /\ pc = "shown" /\ pc' = "rendering"
  /\ wide' \in BOOLEAN
  /\ \E d \in ResizedTo : frame_width' = ComputeFrameWidth(d, wide') /\ shaped_for' = d
  /\ ignore_aspect' = FALSE /\ integer_scale' = FALSE /\ viewport' = Whole(drawable)
  /\ UNCHANGED drawable

Next == Resize \/ Present \/ BeginFrame \/ ReplayFrame

Spec == Init /\ [][Next]_vars

-----------------------------------------------------------------------------
\* Both gutters of a frame are the same whole number of pixels, at most what the
\* renderer can hold (X2Display_ComputeFrameWidth, x2_display.c:7-30): every
\* frame that is recorded has a width that playback accepts (mmx_replay.c:297).
FrameWidthUsable ==
  \E gutter \in 0..ExtraMax : frame_width = 256 + 2 * gutter

\* The picture never leaves the window and never vanishes, though the frame may
\* have been shaped for another window (X2Display_ComputeViewport).
ViewportFits ==
  pc = "shown" =>
    /\ viewport.width > 0 /\ viewport.x >= 0
    /\ viewport.x + viewport.width <= drawable.width
    /\ viewport.height > 0 /\ viewport.y >= 0
    /\ viewport.y + viewport.height <= drawable.height

\* The width that would fill d exactly is 192 * width / height.
Representable(d) ==
  /\ 192 * d.width >= 256 * d.height
  /\ 192 * d.width <= (256 + 2 * ExtraMax) * d.height

\* The frame is wider than the window's shape by more than one pixel.
OverOnePixel(d) == frame_width * d.height - 192 * d.width > d.height

\* A window whose shape the renderer can follow is filled to its edges, with no
\* seam, unless rounding to an even width costs more than a source pixel
\* (x2_display.c:64-69).
NoSeam ==
  /\ pc = "shown" /\ drawable = shaped_for /\ wide
  /\ ~ignore_aspect /\ ~integer_scale /\ Representable(drawable)
  => viewport = Whole(drawable) \/ OverOnePixel(drawable)

\* Into the gutters of a wide frame a line brings the stage columns it was
\* scrolled to, across page edges and at both ends of the stage, though the PPU
\* keeps 10 bits of its scroll and the code only 8 of these
\* (X2Display_ExpandStageScroll, x2_display.c:91-103).
ScrollRecovered ==
  pc = "rendering" /\ frame_width > 256 =>
    \A c \in Cameras, o \in Offsets :
      ExpandStageScroll(c, (c + o) % 1024) = c + o
=============================================================================

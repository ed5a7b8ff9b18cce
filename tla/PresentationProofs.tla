------------------------- MODULE PresentationProofs -------------------------
(***************************************************************************)
(* The frame from the window it is shaped for to the window it is shown in,  *)
(* for every set of windows, scenes and cameras.                             *)
(*                                                                           *)
(* Sizes are products of a source size, a window size and the fractions of   *)
(* x2_display.c.  The lemmas on division (Quotient, Grows, Cancel, Rounded   *)
(* and so on) reduce them to comparisons of one product with another.        *)
(***************************************************************************)
EXTENDS Presentation, TLAPS

\* ClampEven() (x2_display.c:7-13) returns an even number between the native
\* width and the widest the renderer holds.
LEMMA ClampEvenUsable ==
  ASSUME NEW value \in Int
  PROVE  \E gutter \in 0..ExtraMax : ClampEven(value) = 256 + 2 * gutter
<1> DEFINE even == value - (value % 2)
<1> DEFINE half == value \div 2
<1>1. half \in Int /\ even = 2 * half
  OBVIOUS
<1> HIDE DEF half
<1>2. ClampEven(value) = Smaller(Larger(2 * half, 256), 256 + 2 * ExtraMax)
  BY <1>1 DEF ClampEven
<1>3. CASE half <= 128
  <2>1. ClampEven(value) = 256 + 2 * 0
    BY <1>1, <1>2, <1>3, DisplayAssumption DEF Smaller, Larger
  <2> QED BY <2>1, DisplayAssumption
<1>4. CASE half > 128 /\ half <= 128 + ExtraMax
  <2>1. ClampEven(value) = 256 + 2 * (half - 128)
    BY <1>1, <1>2, <1>4, DisplayAssumption DEF Smaller, Larger
  <2>2. half - 128 \in 0..ExtraMax
    BY <1>1, <1>4, DisplayAssumption
  <2> QED BY <2>1, <2>2
<1>5. CASE half > 128 + ExtraMax
  <2>1. ClampEven(value) = 256 + 2 * ExtraMax
    BY <1>1, <1>2, <1>5, DisplayAssumption DEF Smaller, Larger
  <2> QED BY <2>1, DisplayAssumption
<1> QED BY <1>1, <1>3, <1>4, <1>5, DisplayAssumption

\* The quotient is an integer for every window that is not empty
\* (x2_display.c:22-27).
LEMMA NearestWidthInt ==
  ASSUME NEW d \in Drawables, d.height # 0
  PROVE  NearestWidth(d) \in Int
<1>1. d.width \in Nat /\ d.height \in Nat
  BY DisplayAssumption
<1>2. (d.width * 192) \div d.height \in Int
  BY <1>1
<1> QED BY <1>2 DEF NearestWidth

\* X2Display_ComputeFrameWidth() for any window (x2_display.c:15-30).
LEMMA ComputeFrameWidthUsable ==
  ASSUME NEW d \in Drawables, NEW w
  PROVE  \E gutter \in 0..ExtraMax : ComputeFrameWidth(d, w) = 256 + 2 * gutter
<1>1. CASE ~w \/ d.width = 0 \/ d.height = 0
  <2>1. ComputeFrameWidth(d, w) = 256 + 2 * 0
    BY <1>1 DEF ComputeFrameWidth
  <2> QED BY <2>1, DisplayAssumption
<1>2. CASE ~(~w \/ d.width = 0 \/ d.height = 0)
  <2> DEFINE n == NearestWidth(d)
  <2>1. n \in Int
    BY <1>2, NearestWidthInt
  <2> HIDE DEF n
  <2>2. n + (n % 2) \in Int
    BY <2>1
  <2>3. ComputeFrameWidth(d, w) = ClampEven(n + (n % 2))
    BY <1>2 DEF ComputeFrameWidth, n
  <2> QED BY <2>2, <2>3, ClampEvenUsable
<1> QED BY <1>1, <1>2

\* Every frame of every session, however the window is resized and widescreen
\* is switched, has two equal gutters of at most kWsExtraMax pixels
\* (X2Display_ComputeFrameWidth).
THEOREM DisplayFrameWidth == Spec => []FrameWidthUsable
<1> DEFINE Inv == drawable \in Drawables /\ FrameWidthUsable
<1>1. Init => Inv
  BY ComputeFrameWidthUsable DEF Init, FrameWidthUsable
<1>2. Inv /\ [Next]_vars => Inv'
  <2> SUFFICES ASSUME Inv, [Next]_vars PROVE Inv'
    OBVIOUS
  <2>1. CASE Resize
    BY <2>1, DisplayAssumption DEF Resize, FrameWidthUsable
  <2>2. CASE Present
    BY <2>2 DEF Present, FrameWidthUsable
  <2>3. CASE BeginFrame
    BY <2>3, ComputeFrameWidthUsable DEF BeginFrame, FrameWidthUsable
  <2>4. CASE ReplayFrame
    <3>1. drawable' = drawable
      BY <2>4 DEF ReplayFrame
    <3>2. PICK d \in ResizedTo : frame_width' = ComputeFrameWidth(d, wide')
      BY <2>4 DEF ReplayFrame
    <3>3. d \in Drawables
      BY <3>2, DisplayAssumption
    <3> QED BY <3>1, <3>2, <3>3, ComputeFrameWidthUsable DEF FrameWidthUsable
  <2>5. CASE UNCHANGED vars
    BY <2>5 DEF vars, FrameWidthUsable
  <2> QED BY <2>1, <2>2, <2>3, <2>4, <2>5 DEF Next
<1> QED BY <1>1, <1>2, PTL DEF Spec

\* Of the copies of a line's phase the one nearest the camera is its column
\* (x2_display.c:91-103).
LEMMA LineRecovered ==
  ASSUME NEW c \in Cameras, NEW o \in Offsets
  PROVE  ExpandStageScroll(c, (c + o) % 1024) = c + o
<1> DEFINE phase == (c + o) % 256
<1>1. c \in Nat /\ o \in Int /\ -128 < o /\ o < 128
  BY DisplayAssumption
<1>2. ((c + o) % 1024) % 256 = phase
  BY <1>1
<1>3. c - (c % 256) + phase \in {c + o - 256, c + o, c + o + 256}
  BY <1>1
<1> HIDE DEF phase
<1> QED BY <1>1, <1>2, <1>3 DEF ExpandStageScroll

\* Every line of every stage is attached to the right page, in every state of
\* every session (X2Display_ExpandStageScroll).
THEOREM StageScrollRecovered == Spec => []ScrollRecovered
<1>1. ScrollRecovered
  BY LineRecovered DEF ScrollRecovered
<1> QED BY <1>1, PTL

-----------------------------------------------------------------------------
(***************************************************************************)
(* The viewport.  All sizes are products of two unknowns, the size of the    *)
(* frame and that of the window, so each comparison of products is made once,*)
(* in a lemma.                                                               *)
(***************************************************************************)

\* Division with remainder.
LEMMA Division ==
  ASSUME NEW a \in Int, NEW b \in Nat \ {0}, NEW q, q = a \div b, NEW m, m = a % b
  PROVE  q \in Int /\ m \in Int /\ a = b * q + m /\ 0 <= m /\ m < b
BY SMT

\* The quotient of a whole number, without its remainder.
LEMMA Quotient ==
  ASSUME NEW a \in Int, NEW b \in Nat \ {0}
  PROVE  a \div b \in Int /\ b * (a \div b) <= a /\ a < b * (a \div b) + b
<1>1. a \div b \in Int
  OBVIOUS
<1>2. b * (a \div b) <= a
  BY SMT
<1>3. a < b * (a \div b) + b
  BY SMT
<1> QED BY <1>1, <1>2, <1>3

\* Products keep the order of their factors.
LEMMA Grows ==
  ASSUME NEW a \in Int, NEW b \in Int, NEW k \in Nat, a <= b
  PROVE  k * a <= k * b
OBVIOUS

\* A product of a positive factor and one that is not negative, bounded by the
\* same multiple: the factor may be cancelled.
LEMMA Cancel ==
  ASSUME NEW a \in Int, NEW b \in Int, NEW k \in Nat \ {0}, k * a <= k * b
  PROVE  a <= b
<1> SUFFICES ASSUME b + 1 <= a PROVE FALSE
  OBVIOUS
<1>1. k * (b + 1) <= k * a
  BY Grows
<1> QED BY <1>1

\* (int)(x + 0.5) is within one half of x, on either side (x2_display.c:61-62).
LEMMA RoundedNear ==
  ASSUME NEW n \in Nat, NEW d \in Nat \ {0}, NEW r \in Rounded(n, d)
  PROVE  r \in Int /\ 2 * (d * r) <= 2 * n + d /\ 2 * n <= 2 * (d * r) + d
<1> DEFINE q == (2 * n + d) \div (2 * d)
<1> DEFINE m == (2 * n + d) % (2 * d)
<1>1. q \in Int /\ m \in Int /\ 2 * n + d = (2 * d) * q + m /\ 0 <= m /\ m < 2 * d
  <2>1. 2 * n + d \in Int /\ 2 * d \in Nat \ {0}
    OBVIOUS
  <2> QED BY <2>1, Division
<1>2. r = q \/ (m = 0 /\ r = q - 1)
  BY DEF Rounded
<1> HIDE DEF q, m
<1>3. (2 * d) * q = 2 * (d * q) /\ d * (q - 1) = d * q - d /\ d * q \in Int
  BY <1>1
<1>4. CASE r = q
  BY <1>1, <1>3, <1>4
<1>5. CASE m = 0 /\ r = q - 1
  BY <1>1, <1>3, <1>5
<1> QED BY <1>2, <1>4, <1>5

\* What is at most a whole number is not rounded above it.
LEMMA RoundedFits ==
  ASSUME NEW n \in Nat, NEW d \in Nat \ {0}, NEW r \in Rounded(n, d),
         NEW w \in Nat, n <= d * w
  PROVE  r <= w
<1>1. r \in Int /\ 2 * (d * r) <= 2 * n + d
  BY RoundedNear
<1> SUFFICES ASSUME w + 1 <= r PROVE FALSE
  BY <1>1
<1>2. d * (w + 1) <= d * r
  BY <1>1, Grows
<1>3. d * (w + 1) = d * w + d /\ d * w \in Int /\ d * r \in Int
  BY <1>1
<1> QED BY <1>1, <1>2, <1>3

\* What is more than one half is not rounded to nothing.
LEMMA RoundedPositive ==
  ASSUME NEW n \in Nat, NEW d \in Nat \ {0}, NEW r \in Rounded(n, d), d < 2 * n
  PROVE  r > 0
<1>1. r \in Int /\ 2 * n <= 2 * (d * r) + d
  BY RoundedNear
<1> SUFFICES ASSUME r <= 0 PROVE FALSE
  BY <1>1
<1>2. d * r <= d * 0
  BY <1>1, Grows
<1>3. d * r \in Int
  BY <1>1
<1>4. d * r <= 0
  BY <1>2
<1> QED BY <1>1, <1>3, <1>4

\* A whole number is not rounded.
LEMMA RoundedExact ==
  ASSUME NEW d \in Nat \ {0}, NEW w \in Nat, NEW n \in Nat, n = d * w, NEW r \in Rounded(n, d)
  PROVE  r = w
<1>1. r \in Int /\ 2 * (d * r) <= 2 * n + d /\ 2 * n <= 2 * (d * r) + d
  BY RoundedNear
<1>2. r <= w
  BY RoundedFits
<1> SUFFICES ASSUME r <= w - 1 PROVE FALSE
  BY <1>1, <1>2
<1>3. d * r <= d * (w - 1)
  BY <1>1, Grows
<1>4. d * (w - 1) = d * w - d /\ d * w \in Int /\ d * r \in Int
  BY <1>1
<1> QED BY <1>1, <1>3, <1>4

\* The windows the picture is shown in: a window one pixel wide cannot show a
\* picture as wide as its frame is high, and an empty one shows nothing.
Roomy == \A d \in Drawables :
           d.height > 0 /\ 7 * (256 + 2 * ExtraMax) < 2688 * d.width

\* The scale brings the frame into the window in both directions, and neither
\* side of it to nothing (x2_display.c:53-62).
LEMMA ScaleFits ==
  ASSUME NEW source \in Nat, 256 <= source, NEW W \in Nat, NEW H \in Nat,
         0 < H, 7 * source < 2688 * W, NEW d, d.width = W, d.height = H,
         NEW integer \in BOOLEAN, NEW scale, scale = FitScale(source, d, integer),
         NEW across, across = 7 * source * scale.num, NEW over, over = 6 * scale.den,
         NEW down, down = SourceHeight * scale.num, NEW den, den = scale.den,
         NEW w \in Rounded(across, over), NEW h \in Rounded(down, den)
  PROVE  /\ w \in Int /\ 0 < w /\ w <= W
         /\ h \in Int /\ 0 < h /\ h <= H
<1> DEFINE num == scale.num
<1> SUFFICES /\ num \in Nat /\ den \in Nat \ {0} /\ across \in Nat
             /\ across <= over * W /\ over < 2 * across
             /\ down <= den * H /\ den < 2 * down
  <2> HIDE DEF num
  <2>1. over \in Nat \ {0} /\ down \in Nat
    BY DEF num, SourceHeight
  <2>2. w \in Int /\ 0 < w /\ w <= W
    <3>1. w \in Int
      BY <2>1, RoundedNear
    <3>2. w <= W
      BY <2>1, RoundedFits
    <3>3. w > 0
      BY <2>1, RoundedPositive
    <3> QED BY <3>1, <3>2, <3>3
  <2>3. h \in Int /\ 0 < h /\ h <= H
    <3>1. h \in Int
      BY <2>1, RoundedNear
    <3>2. h <= H
      BY <2>1, RoundedFits
    <3>3. h > 0
      BY <2>1, RoundedPositive
    <3> QED BY <3>1, <3>2, <3>3
  <2> QED BY <2>2, <2>3
<1> DEFINE sideways == ScaleX(source, d)
<1> DEFINE upright == ScaleY(d)
<1> DEFINE fit == IF Below(sideways, upright) THEN sideways ELSE upright
<1>1. /\ W \in Nat \ {0} /\ source \in Nat \ {0}
      /\ sideways = [num |-> 6 * W, den |-> 7 * source] /\ upright = [num |-> H, den |-> 224]
  BY DEF ScaleX, ScaleY, SourceHeight
<1>2. source * W \in Nat \ {0} /\ source * H \in Nat \ {0} /\ 256 * H <= source * H
  <2>1. W * 1 <= W * source /\ H * 256 <= H * source
    BY <1>1, Grows
  <2> QED BY <2>1, <1>1
<1>3. /\ fit.num \in Nat \ {0} /\ fit.den \in Nat \ {0}
      /\ 7 * source * fit.num <= (6 * fit.den) * W
      /\ 6 * fit.den < 2 * (7 * source * fit.num)
      /\ 224 * fit.num <= fit.den * H /\ fit.den < 2 * (224 * fit.num)
  <2>1. CASE Below(sideways, upright)
    <3>1. fit = [num |-> 6 * W, den |-> 7 * source]
      BY <1>1, <2>1
    <3>2. (6 * W) * 224 < H * (7 * source)
      BY <1>1, <2>1 DEF Below
    <3>3. 7 * source * (6 * W) = 42 * (source * W) /\ (6 * (7 * source)) * W = 42 * (source * W)
          /\ (7 * source) * H = 7 * (source * H) /\ H * (7 * source) = 7 * (source * H)
      BY <1>1
    <3>4. source * 1 <= source * W
      BY <1>1, Grows
    <3> QED BY <1>1, <1>2, <3>1, <3>2, <3>3, <3>4
  <2>2. CASE ~Below(sideways, upright)
    <3>1. fit = [num |-> H, den |-> 224]
      BY <1>1, <2>2
    <3>2. H * (7 * source) <= (6 * W) * 224
      <4>1. ~((6 * W) * 224 < H * (7 * source))
        BY <1>1, <2>2 DEF Below
      <4> QED BY <4>1, <1>1
    <3>3. 7 * source * H = 7 * (source * H) /\ H * (7 * source) = 7 * (source * H)
      BY <1>1
    <3> QED BY <1>1, <1>2, <3>1, <3>2, <3>3
  <2> QED BY <2>1, <2>2
<1>4. scale =
        IF integer /\ fit.num >= fit.den THEN [num |-> fit.num \div fit.den, den |-> 1] ELSE fit
  BY DEF FitScale
<1> HIDE DEF sideways, upright, fit
<1>5. CASE ~(integer /\ fit.num >= fit.den)
  <2>1. num = fit.num /\ den = fit.den
    BY <1>4, <1>5
  <2>2. 7 * source * fit.num \in Nat
    BY <1>1, <1>3
  <2> QED BY <2>1, <2>2, <1>3 DEF SourceHeight
<1>6. CASE integer /\ fit.num >= fit.den
  <2> DEFINE k == fit.num \div fit.den
  <2>1. num = k /\ den = 1
    BY <1>4, <1>6
  <2>2. k \in Int /\ fit.den * k <= fit.num /\ fit.num < fit.den * k + fit.den
    <3>1. PICK n \in Int, e \in Nat \ {0} : n = fit.num /\ e = fit.den
      BY <1>3
    <3>2. n \div e \in Int /\ e * (n \div e) <= n /\ n < e * (n \div e) + e
      BY Quotient
    <3> QED BY <3>1, <3>2
  <2> HIDE DEF k
  <2>3. 0 < k
    <3> SUFFICES ASSUME k <= 0 PROVE FALSE
      BY <2>2
    <3>1. fit.den * k <= fit.den * 0
      BY <1>3, <2>2, Grows
    <3> QED BY <3>1, <2>2, <1>3, <1>6
  <2>4. 7 * source * k <= 6 * W
    <3>1. (7 * source) * (fit.den * k) <= (7 * source) * fit.num
      BY <1>1, <1>3, <2>2, Grows
    <3>2. (7 * source) * (fit.den * k) = fit.den * (7 * source * k)
      BY <1>1, <1>3, <2>2
    <3>3. (6 * fit.den) * W = fit.den * (6 * W)
      BY <1>1, <1>3
    <3>4. fit.den * (7 * source * k) <= fit.den * (6 * W)
      BY <1>1, <1>3, <2>2, <3>1, <3>2, <3>3
    <3>5. 7 * source * k \in Int /\ 6 * W \in Int
      BY <1>1, <2>2
    <3> HIDE DEF num
    <3> QED BY <3>4, <3>5, <1>3, Cancel
  <2>5. 224 * k <= H
    <3>1. 224 * (fit.den * k) = fit.den * (224 * k)
      BY <1>3, <2>2
    <3>2. fit.den * (224 * k) <= fit.den * H
      BY <1>3, <2>2, <3>1
    <3> QED BY <3>2, <1>3, <2>2, Cancel
  <2>6. source * 1 <= source * k
    BY <1>1, <2>2, <2>3, Grows
  <2>7. 7 * source * k = 7 * (source * k) /\ source * k \in Int
    BY <1>1, <2>2
  <2> QED BY <2>1, <2>2, <2>3, <2>4, <2>5, <2>6, <2>7, <1>1 DEF SourceHeight
<1> QED BY <1>5, <1>6

\* X2Display_ComputeViewport() for a frame of any width and a window of any
\* shape, with or without the options (x2_display.c:41-82).
LEMMA ViewportsFit ==
  ASSUME NEW source \in Nat, 256 <= source, NEW W \in Nat, NEW H \in Nat,
         0 < H, 7 * source < 2688 * W, NEW d, d = [width |-> W, height |-> H],
         NEW ignore \in BOOLEAN, NEW integer \in BOOLEAN,
         NEW v \in Viewports(source, d, ignore, integer)
  PROVE  /\ v.width > 0 /\ v.x >= 0 /\ v.x + v.width <= W
         /\ v.height > 0 /\ v.y >= 0 /\ v.y + v.height <= H
<1>1. W > 0 /\ d.width = W /\ d.height = H
  OBVIOUS
<1>2. CASE ignore
  <2>1. v = [x |-> 0, y |-> 0, width |-> Larger(W, 1), height |-> Larger(H, 1)]
    BY <1>1, <1>2 DEF Viewports
  <2> QED BY <2>1, <1>1 DEF Larger
<1>3. CASE ~ignore
  <2> DEFINE scale == FitScale(source, d, integer)
  <2>1. PICK w \in Rounded(7 * source * scale.num, 6 * scale.den),
             h \in Rounded(SourceHeight * scale.num, scale.den) :
          v = Centred(IF integer THEN w ELSE Snap(w, W, (W + 255) \div 256),
                      IF integer THEN h ELSE Snap(h, H, (H + 223) \div 224), d)
    BY <1>1, <1>3 DEF Viewports
  <2>2. w \in Int /\ 0 < w /\ w <= W /\ h \in Int /\ 0 < h /\ h <= H
    <3> DEFINE across == 7 * source * scale.num
    <3> DEFINE over == 6 * scale.den
    <3> DEFINE down == SourceHeight * scale.num
    <3> DEFINE den == scale.den
    <3>1. scale = FitScale(source, d, integer)
      OBVIOUS
    <3> HIDE DEF scale
    <3>2. across = 7 * source * scale.num /\ over = 6 * scale.den
          /\ down = SourceHeight * scale.num /\ den = scale.den
      OBVIOUS
    <3>3. w \in Rounded(across, over) /\ h \in Rounded(down, den)
      BY <2>1
    <3> HIDE DEF across, over, down, den
    <3> QED BY <1>1, <3>1, <3>2, <3>3, ScaleFits, SMTT(60)
  <2> HIDE DEF scale
  <2>3. PICK w2 \in Int, h2 \in Int :
          v = Centred(w2, h2, d) /\ 0 < w2 /\ w2 <= W /\ 0 < h2 /\ h2 <= H
    <3>1. CASE integer
      BY <2>1, <2>2, <3>1
    <3>2. CASE ~integer
      BY <2>1, <2>2, <3>2 DEF Snap, Larger
    <3> QED BY <3>1, <3>2
  <2>4. v = [x |-> (W - w2) \div 2, y |-> (H - h2) \div 2, width |-> w2, height |-> h2]
    BY <1>1, <2>3 DEF Centred
  <2> QED BY <2>3, <2>4
<1> QED BY <1>2, <1>3

\* The inductive invariant: the frame was shaped for some window, perhaps
\* another than it is shown in, and the viewport was computed for this one.
DisplayInv ==
  /\ drawable \in Drawables /\ shaped_for \in Drawables
  /\ wide \in BOOLEAN /\ ignore_aspect \in BOOLEAN /\ integer_scale \in BOOLEAN
  /\ frame_width = ComputeFrameWidth(shaped_for, wide)
  /\ pc = "shown" => viewport \in Viewports(frame_width, drawable, ignore_aspect, integer_scale)

\* The invariant holds however the window is resized between the frame and its
\* presentation, and whichever tape the frame is of.
LEMMA DisplayInvariant == Spec => []DisplayInv
<1>1. Init => DisplayInv
  BY DEF Init, DisplayInv
<1>2. DisplayInv /\ [Next]_vars => DisplayInv'
  <2> SUFFICES ASSUME DisplayInv, [Next]_vars PROVE DisplayInv'
    OBVIOUS
  <2>1. CASE Resize
    BY <2>1, DisplayAssumption DEF Resize, DisplayInv
  <2>2. CASE Present
    BY <2>2 DEF Present, DisplayInv
  <2>3. CASE BeginFrame
    BY <2>3 DEF BeginFrame, DisplayInv
  <2>4. CASE ReplayFrame
    BY <2>4, DisplayAssumption DEF ReplayFrame, DisplayInv
  <2>5. CASE UNCHANGED vars
    BY <2>5 DEF vars, DisplayInv
  <2> QED BY <2>1, <2>2, <2>3, <2>4, <2>5 DEF Next
<1> QED BY <1>1, <1>2, PTL DEF Spec

\* Whatever shape the window has when the frame is shown in it, and with either
\* option, the picture is inside it (X2Display_ComputeViewport).
THEOREM DisplayViewportFits ==
  ASSUME Roomy
  PROVE  Spec => []ViewportFits
<1>1. DisplayInv => ViewportFits
  <2> SUFFICES ASSUME DisplayInv, pc = "shown"
               PROVE  /\ viewport.width > 0 /\ viewport.x >= 0
                      /\ viewport.x + viewport.width <= drawable.width
                      /\ viewport.height > 0 /\ viewport.y >= 0
                      /\ viewport.y + viewport.height <= drawable.height
    BY DEF ViewportFits
  <2>1. PICK W \in Nat, H \in Nat : drawable = [width |-> W, height |-> H]
    BY DisplayAssumption DEF DisplayInv
  <2>2. PICK gutter \in 0..ExtraMax : frame_width = 256 + 2 * gutter
    BY ComputeFrameWidthUsable DEF DisplayInv
  <2>3. frame_width \in Nat /\ 256 <= frame_width /\ frame_width <= 256 + 2 * ExtraMax
    BY <2>2, DisplayAssumption
  <2>4. 0 < H /\ 7 * (256 + 2 * ExtraMax) < 2688 * W
    BY <2>1 DEF DisplayInv, Roomy
  <2>5. 7 * frame_width < 2688 * W
    BY <2>3, <2>4, DisplayAssumption
  <2>6. viewport \in Viewports(frame_width, drawable, ignore_aspect, integer_scale)
        /\ ignore_aspect \in BOOLEAN /\ integer_scale \in BOOLEAN
    BY DEF DisplayInv
  <2> QED BY <2>1, <2>3, <2>4, <2>5, <2>6, ViewportsFit
<1> QED BY <1>1, DisplayInvariant, PTL

\* The width is rounded to the nearest integer, a half to the even one
\* (x2_display.c:22-27).
LEMMA NearestWidthNear ==
  ASSUME NEW W \in Nat, NEW H \in Nat \ {0}, NEW d, d.width = W, d.height = H,
         NEW n, n = NearestWidth(d)
  PROVE  n \in Int /\ 2 * (H * n) <= 384 * W + H /\ 384 * W <= 2 * (H * n) + H
<1>0. PICK a \in Int : a = W * 192
  OBVIOUS
<1> DEFINE q == a \div H
<1> DEFINE m == a % H
<1>1. q \in Int /\ m \in Int /\ a = H * q + m /\ 0 <= m /\ m < H
  <2>1. q \in Int /\ m \in Int /\ 0 <= m /\ m < H
    OBVIOUS
  <2>2. a = H * q + m
    BY <2>1, SMT
  <2> HIDE DEF q, m
  <2> QED BY <2>1, <2>2
<1>2. n = IF m * 2 > H \/ (m * 2 = H /\ q % 2 # 0) THEN q + 1 ELSE q
  BY <1>0 DEF NearestWidth
<1> HIDE DEF q, m
<1>3. H * (q + 1) = H * q + H /\ H * q \in Int
  BY <1>1
<1>4. CASE n = q + 1 /\ m * 2 >= H
  BY <1>0, <1>1, <1>3, <1>4
<1>5. CASE n = q /\ m * 2 <= H
  BY <1>0, <1>1, <1>3, <1>5
<1> QED BY <1>1, <1>2, <1>4, <1>5

\* Odd widths go up (x2_display.c:28), so the frame is no narrower than before.
LEMMA EvenUp ==
  ASSUME NEW n \in Int, 256 <= n, NEW W \in Nat, NEW H \in Nat, 384 * W <= 2 * (H * n) + H
  PROVE  LET e == n + (n % 2) IN e \in Nat /\ 256 <= e /\ 384 * W <= 2 * (H * e) + H
<1>1. PICK r \in 0..1 : r = n % 2
  OBVIOUS
<1>2. PICK e \in Nat : e = n + r /\ n <= e
  BY <1>1
<1>3. H * n <= H * e /\ H * n \in Int /\ H * e \in Int
  BY <1>2, Grows
<1> QED BY <1>1, <1>2, <1>3

\* In a window whose shape the renderer can follow, the frame is narrower than
\* the window's shape by half a pixel at most (x2_display.c:7-30).
LEMMA FollowedClosely ==
  ASSUME NEW W \in Nat, NEW H \in Nat \ {0}, NEW d, d.width = W, d.height = H,
         Representable(d), NEW f, f = ComputeFrameWidth(d, TRUE)
  PROVE  f \in Nat /\ 256 <= f /\ 384 * W <= 2 * (H * f) + H
<1>1. 256 * H <= 192 * W /\ 192 * W <= (256 + 2 * ExtraMax) * H /\ ExtraMax \in Nat
  BY DisplayAssumption DEF Representable
<1>2. W # 0
  BY <1>1
<1>3. PICK n : n = NearestWidth(d)
  OBVIOUS
<1>4. f = ClampEven(n + (n % 2))
  BY <1>2, <1>3 DEF ComputeFrameWidth
<1>5. n \in Int /\ 2 * (H * n) <= 384 * W + H /\ 384 * W <= 2 * (H * n) + H
  BY <1>3, NearestWidthNear
<1>0. n \in Int
  BY <1>5
<1>6. 256 <= n
  <2> SUFFICES ASSUME n <= 255 PROVE FALSE
    BY <1>5
  <2>1. H * n <= H * 255 /\ H * n \in Int
    BY <1>5, Grows
  <2> QED BY <2>1, <1>1, <1>5
<1>7. n <= 256 + 2 * ExtraMax
  <2> SUFFICES ASSUME 257 + 2 * ExtraMax <= n PROVE FALSE
    BY <1>1, <1>5
  <2>1. H * (257 + 2 * ExtraMax) <= H * n /\ H * n \in Int
    BY <1>1, <1>5, Grows
  <2>2. H * (257 + 2 * ExtraMax) = H * (256 + 2 * ExtraMax) + H
        /\ (256 + 2 * ExtraMax) * H = H * (256 + 2 * ExtraMax)
        /\ H * (256 + 2 * ExtraMax) \in Int
    BY <1>1
  <2> QED BY <2>1, <2>2, <1>1, <1>5
<1>8. f = n + (n % 2)
  <2> DEFINE e == n + (n % 2)
  <2>1. e \in Int /\ e % 2 = 0 /\ n <= e /\ e <= 256 + 2 * ExtraMax
    BY <1>1, <1>5, <1>7
  <2>2. f = ClampEven(e)
    BY <1>4
  <2> HIDE DEF e
  <2>3. f = e
    <3>1. e - (e % 2) = e /\ 256 <= e
      BY <1>6, <2>1, <1>0
    <3>2. ClampEven(e) = Smaller(Larger(e, 256), 256 + 2 * ExtraMax)
      BY <3>1 DEF ClampEven
    <3>3. Larger(e, 256) = e /\ Smaller(e, 256 + 2 * ExtraMax) = e
      BY <1>1, <2>1, <3>1 DEF Larger, Smaller
    <3> QED BY <2>2, <3>2, <3>3
  <2> QED BY <2>3 DEF e
<1> DEFINE e == n + (n % 2)
<1>9. e \in Nat /\ 256 <= e /\ 384 * W <= 2 * (H * e) + H
  BY <1>0, <1>5, <1>6, EvenUp
<1>10. f = e
  BY <1>8
<1> HIDE DEF e
<1> QED BY <1>9, <1>10, ZenonT(60)

\* The gap that is left below a frame as wide as the window is at most a source
\* line.
LEMMA GapBelow ==
  ASSUME NEW W \in Nat, NEW H \in Nat \ {0}, NEW f \in Nat, 256 <= f, NEW h \in Int,
         2 * (224 * (6 * W)) <= 2 * ((7 * f) * h) + 7 * f,
         H * f <= 192 * W + H
  PROVE  H - h <= (H + 223) \div 224
<1> DEFINE c == (H + 223) \div 224
<1> DEFINE gap == H - h
<1>1. c \in Nat /\ H <= 224 * c /\ gap \in Int
  OBVIOUS
<1> HIDE DEF c
<1>2. (7 * f) * h = 7 * (f * h) /\ f * h \in Int /\ H * f \in Int /\ f * gap = H * f - f * h
  OBVIOUS
<1>3. 2 * (f * gap) <= 2 * H + f
  BY <1>2
<1> HIDE DEF gap
<1> SUFFICES ASSUME c + 1 <= gap PROVE FALSE
  BY <1>1 DEF gap
<1>4. f * (c + 1) <= f * gap /\ f * gap \in Int
  BY <1>1, Grows
<1>5. c * 256 <= c * f
  BY <1>1, Grows
<1>6. f * (c + 1) = c * f + f /\ c * f \in Int
  BY <1>1
<1> QED BY <1>1, <1>3, <1>4, <1>5, <1>6

\* The gap that is left beside a frame as high as the window is at most a source
\* pixel.
LEMMA GapBeside ==
  ASSUME NEW W \in Nat, NEW H \in Nat \ {0}, NEW f \in Nat, NEW w \in Int,
         256 * H <= 192 * W,
         2 * (7 * f * H) <= 2 * (1344 * w) + 1344,
         384 * W <= 2 * (H * f) + H
  PROVE  W - w <= (W + 255) \div 256
<1>1. 7 * f * H = 7 * (H * f) /\ H * f \in Int
  OBVIOUS
<1>2. 384 * W <= 384 * w + 192 + H
  BY <1>1
<1> QED BY <1>2

\* A frame shaped for the window fills it, or is a pixel too wide
\* (x2_display.c:61-82).
LEMMA Filled ==
  ASSUME NEW W \in Nat, NEW H \in Nat \ {0}, NEW d, d = [width |-> W, height |-> H],
         256 * H <= 192 * W, NEW f \in Nat, 256 <= f,
         384 * W <= 2 * (H * f) + H, H * f <= 192 * W + H,
         NEW v \in Viewports(f, d, FALSE, FALSE)
  PROVE  v = Whole(d)
<1>1. W \in Nat \ {0} /\ d.width = W /\ d.height = H
  OBVIOUS
<1> DEFINE sideways == ScaleX(f, d)
<1> DEFINE upright == ScaleY(d)
<1>2. sideways = [num |-> 6 * W, den |-> 7 * f] /\ upright = [num |-> H, den |-> 224]
  BY <1>1 DEF ScaleX, ScaleY, SourceHeight
<1> DEFINE scale == IF Below(sideways, upright) THEN sideways ELSE upright
<1>3. PICK w \in Rounded(7 * f * scale.num, 6 * scale.den),
           h \in Rounded(224 * scale.num, scale.den) :
        v = Centred(Snap(w, W, (W + 255) \div 256), Snap(h, H, (H + 223) \div 224), d)
  BY <1>1 DEF Viewports, FitScale, SourceHeight
<1> SUFFICES /\ w \in Int /\ w <= W /\ W - w <= (W + 255) \div 256
             /\ h \in Int /\ h <= H /\ H - h <= (H + 223) \div 224
  <2>1. Snap(w, W, (W + 255) \div 256) = W /\ Snap(h, H, (H + 223) \div 224) = H
    BY DEF Snap, Larger
  <2>2. (W - W) \div 2 = 0 /\ (H - H) \div 2 = 0
    OBVIOUS
  <2> QED BY <1>1, <1>3, <2>1, <2>2 DEF Centred, Whole
<1>4. H * f \in Nat /\ W * f \in Nat /\ 7 * f * H = 7 * (H * f)
  OBVIOUS
<1>5. CASE Below(sideways, upright)
  <2>1. scale.num = 6 * W /\ scale.den = 7 * f
    BY <1>2, <1>5
  <2>2. w \in Rounded(7 * f * (6 * W), 6 * (7 * f)) /\ h \in Rounded(224 * (6 * W), 7 * f)
    BY <1>3, <2>1
  <2> HIDE DEF scale
  <2>3. 6 * W * 224 < H * (7 * f)
    BY <1>2, <1>5 DEF Below
  <2>4. w = W
    <3> DEFINE across == 7 * f * (6 * W)
    <3> DEFINE over == 6 * (7 * f)
    <3>1. across \in Nat /\ over \in Nat \ {0} /\ across = over * W
      OBVIOUS
    <3>2. w \in Rounded(across, over)
      BY <2>2
    <3> HIDE DEF across, over
    <3> QED BY <3>1, <3>2, RoundedExact
  <2>5. h \in Int /\ h <= H /\ 2 * (224 * (6 * W)) <= 2 * ((7 * f) * h) + 7 * f
    <3> DEFINE down == 224 * (6 * W)
    <3> DEFINE den == 7 * f
    <3>1. down \in Nat /\ den \in Nat \ {0} /\ down <= den * H
      BY <2>3, <1>4
    <3>2. h \in Rounded(down, den)
      BY <2>2
    <3> HIDE DEF down, den
    <3>3. h \in Int /\ h <= H /\ 2 * down <= 2 * (den * h) + den
      BY <3>1, <3>2, RoundedNear, RoundedFits
    <3> QED BY <3>3 DEF down, den
  <2>6. H - h <= (H + 223) \div 224
    BY <2>5, GapBelow
  <2> QED BY <2>4, <2>5, <2>6
<1>6. CASE ~Below(sideways, upright)
  <2>1. scale.num = H /\ scale.den = 224
    BY <1>2, <1>6
  <2>2. w \in Rounded(7 * f * H, 6 * 224) /\ h \in Rounded(224 * H, 224)
    BY <1>3, <2>1
  <2> HIDE DEF scale
  <2>3. H * (7 * f) <= 6 * W * 224
    <3>1. ~(6 * W * 224 < H * (7 * f))
      BY <1>2, <1>6 DEF Below
    <3> QED BY <3>1, <1>4
  <2>4. h = H
    BY <2>2, RoundedExact
  <2>5. w \in Int /\ w <= W /\ 2 * (7 * f * H) <= 2 * (1344 * w) + 1344
    <3> DEFINE across == 7 * f * H
    <3>1. across \in Nat /\ across <= 1344 * W
      BY <2>3, <1>4
    <3>2. w \in Rounded(across, 1344)
      BY <2>2
    <3> HIDE DEF across
    <3>3. w \in Int /\ w <= W /\ 2 * across <= 2 * (1344 * w) + 1344
      BY <3>1, <3>2, RoundedNear, RoundedFits
    <3> QED BY <3>3 DEF across
  <2>6. W - w <= (W + 255) \div 256
    BY <2>5, GapBeside
  <2> QED BY <2>4, <2>5, <2>6
<1> QED BY <1>5, <1>6

\* Whatever size the window has (one without height is never drawn in), a frame
\* that was shaped for it fills it to its
\* edges, unless rounding to an even width costs more than a source pixel
\* (X2Display_ComputeFrameWidth, X2Display_ComputeViewport).
THEOREM DisplayNoSeam ==
  ASSUME \A d \in Drawables : d.height > 0
  PROVE  Spec => []NoSeam
<1>1. DisplayInv => NoSeam
  <2> SUFFICES ASSUME DisplayInv, pc = "shown", drawable = shaped_for, wide,
                      ~ignore_aspect, ~integer_scale, Representable(drawable),
                      ~OverOnePixel(drawable)
               PROVE  viewport = Whole(drawable)
    BY DEF NoSeam
  <2>1. PICK W \in Nat, H \in Nat : drawable = [width |-> W, height |-> H]
    BY DisplayAssumption DEF DisplayInv
  <2>2. H # 0
    BY <2>1 DEF DisplayInv
  <2>3. frame_width = ComputeFrameWidth(drawable, TRUE)
    BY DEF DisplayInv
  <2>4. frame_width \in Nat /\ 256 <= frame_width /\ 384 * W <= 2 * (H * frame_width) + H
    <3>1. PICK d, f : d = drawable /\ f = frame_width
      OBVIOUS
    <3>2. d.width = W /\ d.height = H
      BY <2>1, <3>1
    <3>3. Representable(d) /\ f = ComputeFrameWidth(d, TRUE)
      BY <2>3, <3>1
    <3>4. H \in Nat \ {0}
      BY <2>2
    <3>5. f \in Nat /\ 256 <= f /\ 384 * W <= 2 * (H * f) + H
      BY <3>2, <3>3, <3>4, FollowedClosely, ZenonT(60)
    <3> QED BY <3>1, <3>5
  <2>5. 256 * H <= 192 * W
    BY <2>1 DEF Representable
  <2>6. H * frame_width <= 192 * W + H
    <3>1. ~(frame_width * H - 192 * W > H)
      BY <2>1 DEF OverOnePixel
    <3> QED BY <3>1, <2>4
  <2>7. viewport \in Viewports(frame_width, drawable, FALSE, FALSE)
    BY DEF DisplayInv
  <2> QED BY <2>1, <2>2, <2>4, <2>5, <2>6, <2>7, Filled
<1> QED BY <1>1, DisplayInvariant, PTL

-----------------------------------------------------------------------------
(***************************************************************************)
(* The whole way of a frame to the screen, and the bars on it.               *)
(***************************************************************************)

\* Between the guest's frames and in any scene the display does what Display
\* says: so the theorems above hold of the whole presentation.
THEOREM PresentationIsDisplay == PresentationSpec => Spec
<1>1. PresentationInit => Init
  BY DEF PresentationInit
<1>2. [PresentationNext]_<<vars, hudVars>> => [Next]_vars
  BY DEF PresentationNext, GuestFrame, ConfigureWsHud, ShowFrame, ResizeWindow, Next, vars
<1> QED BY <1>1, <1>2, PTL DEF PresentationSpec, Spec

\* What is drawn depends on this frame only: the ranges are those of the scene
\* in OAM, and whoever moves sprites does so with this frame's band.
ConfiguredInv ==
  /\ oam \in Scenes
  /\ prepared =>
       IF extra = 0 \/ ~HudPresent(oam) THEN range = {} /\ range2 = {}
       ELSE /\ band = [height |-> HudBandHeight, left |-> HudLeftEnd, right |-> HudRightStart]
            /\ range = 0..15
            /\ range2 = IF BossHudPresent(oam) THEN 16..22 ELSE {}

\* The invariant holds whatever was on the screen in the frames before and
\* however the window is resized (X2ConfigureWsHud, x2_rtl.c:268-284).
LEMMA Configured == PresentationSpec => []ConfiguredInv
<1>1. PresentationInit => ConfiguredInv
  BY DEF PresentationInit, ConfiguredInv
<1>2. ConfiguredInv /\ [PresentationNext]_<<vars, hudVars>> => ConfiguredInv'
  <2> SUFFICES ASSUME ConfiguredInv, [PresentationNext]_<<vars, hudVars>> PROVE ConfiguredInv'
    OBVIOUS
  <2>1. CASE GuestFrame
    BY <2>1 DEF GuestFrame, ConfiguredInv
  <2>2. CASE ConfigureWsHud
    <3>1. Slots(0, 16) = 0..15 /\ Slots(16, 7) = 16..22 /\ Slots(16, 0) = {}
      BY DEF Slots
    <3>2. oam' = oam /\ frame_width' = frame_width
      BY <2>2 DEF ConfigureWsHud, vars
    <3>3. CASE extra = 0 \/ ~HudPresent(oam)
      BY <2>2, <3>2, <3>3 DEF ConfigureWsHud, ConfiguredInv, extra
    <3>4. CASE ~(extra = 0 \/ ~HudPresent(oam))
      BY <2>2, <3>1, <3>2, <3>4 DEF ConfigureWsHud, ConfiguredInv, extra
    <3> QED BY <3>3, <3>4
  <2>3. CASE UNCHANGED hudVars /\ UNCHANGED frame_width
    BY <2>3 DEF hudVars, ConfiguredInv, extra
  <2>4. CASE ShowFrame \/ ResizeWindow \/ UNCHANGED <<vars, hudVars>>
    BY <2>3, <2>4 DEF ShowFrame, ResizeWindow, Present, Resize, vars
  <2> QED BY <2>1, <2>2, <2>4 DEF PresentationNext
<1> QED BY <1>1, <1>2, PTL DEF PresentationSpec

\* What the game writes to OAM, as the comment at x2_rtl.c:191-197 and
\* docs/OAM_SURVEY.md measured it: the fingerprints are of bars, and only bars
\* are in their slots then.
Fingerprints ==
  \A sprites \in Scenes : HudPresent(sprites) =>
    /\ \A s \in 0..15 : sprites[s].y < HudBandHeight => sprites[s].is \in {"hp", "weapon"}
    /\ BossHudPresent(sprites) =>
         \A s \in 16..22 : sprites[s].y < HudBandHeight => sprites[s].is = "boss"

\* The bars are in their slots and columns, and those that are shown have the
\* fingerprint, whatever their length.
BarsInPlace ==
  \A sprites \in Scenes : \A s \in 0..23 : sprites[s].y < HudBandHeight =>
    /\ sprites[s].is \in {"hp", "weapon"} =>
         HudPresent(sprites) /\ s \in 0..15 /\ sprites[s].x \in 0..HudLeftEnd - 1
    /\ sprites[s].is = "boss" =>
         /\ HudPresent(sprites) /\ BossHudPresent(sprites)
         /\ s \in 16..22 /\ sprites[s].x \in HudRightStart..255

\* The Y of a sprite is a byte.
LEMMA SpriteY ==
  ASSUME NEW sprites \in Scenes, NEW slot \in 0..23
  PROVE  sprites[slot].y \in 0..255
<1> DEFINE S == [x : 0..511, y : 0..255, tile : 0..255, attr : 0..255, is : STRING]
<1>1. Scenes \subseteq [0..23 -> S]
  BY ScenesAssumption
<1>2. \A s \in S : s.y \in 0..255
  OBVIOUS
<1> HIDE DEF S
<1>3. sprites[slot] \in S
  BY <1>1
<1> QED BY <1>2, <1>3

\* Actors and the player are never moved with the bars, whatever the frame
\* before showed and whatever the renderer was told for it.
THEOREM PresentationOnlyBarsMove ==
  ASSUME Fingerprints
  PROVE  PresentationSpec => []OnlyBarsMove
<1>1. ConfiguredInv => OnlyBarsMove
  <2> SUFFICES ASSUME ConfiguredInv, prepared, NEW slot \in 0..23, DrawnX(slot) # oam[slot].x
               PROVE  oam[slot].is \in {"hp", "weapon", "boss"}
    BY DEF OnlyBarsMove
  <2>1. slot \in range \cup range2 /\ ~(oam[slot].y >= band.height)
    BY DEF DrawnX
  <2>2. /\ HudPresent(oam) /\ range = 0..15 /\ band.height = HudBandHeight
        /\ range2 = IF BossHudPresent(oam) THEN 16..22 ELSE {}
    BY <2>1 DEF ConfiguredInv
  <2>3. oam \in Scenes /\ oam[slot].y \in 0..255
    <3>1. oam \in Scenes
      BY DEF ConfiguredInv
    <3> QED BY <3>1, SpriteY
  <2>4. oam[slot].y < HudBandHeight
    BY <2>1, <2>2, <2>3 DEF HudBandHeight
  <2> QED BY <2>1, <2>2, <2>3, <2>4 DEF Fingerprints
<1> QED BY <1>1, Configured, PTL

\* Each bar of gameplay is as far from the edge of the wide view as it was from
\* the edge of the native one.
THEOREM PresentationBarsReachTheEdges ==
  ASSUME BarsInPlace
  PROVE  PresentationSpec => []BarsReachTheEdges
<1>1. FrameWidthUsable /\ ConfiguredInv => BarsReachTheEdges
  <2> SUFFICES ASSUME FrameWidthUsable, ConfiguredInv, prepared,
                      NEW slot \in 0..23, oam[slot].y < HudBandHeight
               PROVE  /\ oam[slot].is \in {"hp", "weapon"} => DrawnX(slot) + extra = oam[slot].x
                      /\ oam[slot].is = "boss" => DrawnX(slot) - extra = oam[slot].x
    BY DEF BarsReachTheEdges
  <2>1. extra \in Nat
    BY DisplayAssumption DEF FrameWidthUsable, extra
  <2>2. oam \in Scenes /\ oam[slot].y \in 0..255 /\ oam[slot].y < 96
    <3>1. oam \in Scenes
      BY DEF ConfiguredInv
    <3>2. oam[slot].y < 96
      BY DEF HudBandHeight
    <3> QED BY <3>1, <3>2, SpriteY
  <2>3. ASSUME oam[slot].is \in {"hp", "weapon"} PROVE DrawnX(slot) + extra = oam[slot].x
    <3>0. HudLeftEnd - 1 = 63
      BY DEF HudLeftEnd
    <3>01. oam[slot].y < HudBandHeight
      BY <2>2 DEF HudBandHeight
    <3>02. HudPresent(oam) /\ slot \in 0..15 /\ oam[slot].x \in 0..HudLeftEnd - 1
      BY <2>2, <2>3, <3>01 DEF BarsInPlace
    <3>1. HudPresent(oam) /\ slot \in 0..15 /\ oam[slot].x \in 0..63
      BY <3>0, <3>02
    <3>2. CASE extra = 0
      <4>1. range = {} /\ range2 = {}
        BY <3>2 DEF ConfiguredInv
      <4>2. DrawnX(slot) = oam[slot].x
        BY <4>1 DEF DrawnX
      <4> QED BY <3>1, <3>2, <4>2
    <3>3. CASE extra # 0
      <4>1. /\ range = 0..15
            /\ band = [height |-> HudBandHeight, left |-> HudLeftEnd, right |-> HudRightStart]
        BY <3>1, <3>3 DEF ConfiguredInv
      <4>2. band.height = 96 /\ band.left = 64
        BY <4>1 DEF HudBandHeight, HudLeftEnd
      <4>3. DrawnX(slot) = oam[slot].x - extra
        BY <2>2, <3>1, <4>1, <4>2 DEF DrawnX
      <4> QED BY <2>1, <3>1, <4>3
    <3> QED BY <3>2, <3>3
  <2>4. ASSUME oam[slot].is = "boss" PROVE DrawnX(slot) - extra = oam[slot].x
    <3>0. HudRightStart = 192
      BY DEF HudRightStart
    <3>01. oam[slot].y < HudBandHeight
      BY <2>2 DEF HudBandHeight
    <3>02. /\ HudPresent(oam) /\ BossHudPresent(oam)
           /\ slot \in 16..22 /\ oam[slot].x \in HudRightStart..255
      BY <2>2, <2>4, <3>01 DEF BarsInPlace
    <3>1. HudPresent(oam) /\ BossHudPresent(oam) /\ slot \in 16..22 /\ oam[slot].x \in 192..255
      BY <3>0, <3>02
    <3>2. CASE extra = 0
      <4>1. range = {} /\ range2 = {}
        BY <3>2 DEF ConfiguredInv
      <4>2. DrawnX(slot) = oam[slot].x
        BY <4>1 DEF DrawnX
      <4> QED BY <3>1, <3>2, <4>2
    <3>3. CASE extra # 0
      <4>1. /\ range2 = 16..22
            /\ band = [height |-> HudBandHeight, left |-> HudLeftEnd, right |-> HudRightStart]
        BY <3>1, <3>3 DEF ConfiguredInv
      <4>2. band.height = 96 /\ band.left = 64 /\ band.right = 192
        BY <4>1 DEF HudBandHeight, HudLeftEnd, HudRightStart
      <4>3. DrawnX(slot) = oam[slot].x + extra
        BY <2>2, <3>1, <4>1, <4>2 DEF DrawnX
      <4> QED BY <2>1, <3>1, <4>3
    <3> QED BY <3>2, <3>3
  <2> QED BY <2>3, <2>4
<1>2. PresentationSpec => []FrameWidthUsable
  BY PresentationIsDisplay, DisplayFrameWidth, PTL
<1> QED BY <1>1, <1>2, Configured, PTL
=============================================================================

---------------------------- MODULE SpawnProofs ----------------------------
(***************************************************************************)
(* The dynamic record frontier, for every margin the host can ask for, every *)
(* camera and every placement of the level's records.                        *)
(*                                                                           *)
(* All columns are computed modulo 2^16, in two tiers that round at          *)
(* different places.  The lemmas bring both to one form: the column of the   *)
(* camera, plus or minus a multiple of 32, wrapped once.                     *)
(***************************************************************************)
EXTENDS SpawnStream, TLAPS

\* AND #$FFE0 rounds down to a multiple of 32.
LEMMA ColumnBelow ==
  ASSUME NEW n \in Int
  PROVE  Column(n) \in Int /\ Column(n) % 32 = 0 /\ Column(n) <= n /\ n < Column(n) + 32
BY DEF Column

\* Column n \div 32 of the level.
LEMMA ColumnNumber ==
  ASSUME NEW n \in Int
  PROVE  n \div 32 \in Int /\ Column(n) = 32 * (n \div 32)
BY DEF Column

\* Rounding and wrapping at 16 bits may be done in either order.
LEMMA ColumnWraps ==
  ASSUME NEW n \in Int
  PROVE  Column(Wrap(n)) = Wrap(Column(n))
BY DEF Column, Wrap

\* A multiple of 32 passes through the rounding.
LEMMA ColumnShift ==
  ASSUME NEW n \in Int, NEW d \in Int, d % 32 = 0
  PROVE  Column(n + d) = Column(n) + d
BY DEF Column


\* Wrapping in the middle of a sum is wrapping once.
LEMMA WrapOnce ==
  ASSUME NEW n \in Int, NEW d \in Int
  PROVE  Wrap(Wrap(n) + d) = Wrap(n + d)
BY DEF Wrap

\* A 16-bit operand reads back as it was written (x2_rtl.c:551-556).
LEMMA OperandRead ==
  ASSUME NEW n \in Nat, n < 65536
  PROVE  Value(Operand(n)) = n
BY DEF Value, Operand, Lo, Hi

\* So does the one of the SBC, whose first byte tells it from the native arm.
LEMMA ArmRead ==
  ASSUME NEW n \in Nat, n < 65536
  PROVE  Value(SubSeq(SbcArm(n), 2, 3)) = n /\ SbcArm(n) # LeftArm
<1>1. SbcArm(n)[1] = 233 /\ LeftArm[1] = 173
  BY DEF SbcArm, LeftArm
<1>2. /\ SbcArm(n) \in Seq(Int) /\ Len(SbcArm(n)) = 7
      /\ SbcArm(n)[2] = Lo(n) /\ SbcArm(n)[3] = Hi(n)
  BY DEF SbcArm, Lo, Hi
<1> DEFINE s == SbcArm(n)
<1> HIDE DEF s
<1>3. /\ Len(SubSeq(s, 2, 3)) = 2
      /\ SubSeq(s, 2, 3)[1] = s[2] /\ SubSeq(s, 2, 3)[2] = s[3]
  BY <1>2 DEF s
<1>4. Value(SubSeq(s, 2, 3)) = Value(Operand(n))
  BY <1>2, <1>3 DEF Value, Operand, s
<1>5. SbcArm(n) # LeftArm
  BY <1>1
<1> QED BY <1>4, <1>5, OperandRead DEF s

\* The frontier is a multiple of 32 that covers the margin, or none at all.
LEMMA Frontier ==
  ASSUME extra \in Extras, NEW c
  PROVE  /\ Margin \in Nat /\ Margin < 4128
         /\ StreamExtra(c) \in Nat /\ StreamExtra(c) < 4160 /\ StreamExtra(c) % 32 = 0
         /\ StreamExtra(c) = 0 \/ StreamExtra(c) = RoundOut(Margin)
         /\ Margin <= RoundOut(Margin) /\ RoundOut(Margin) <= Margin + 31
<1>1. Margin \in Nat /\ Margin < 4128
  <2>1. extra \in Nat /\ extra < 4096
    BY SpawnAssumption
  <2>2. Margin = 0 \/ Margin = extra + 32
    BY DEF Margin
  <2> QED BY <2>1, <2>2
<1>2. /\ RoundOut(Margin) \in Nat /\ RoundOut(Margin) < 4160 /\ RoundOut(Margin) % 32 = 0
      /\ Margin <= RoundOut(Margin) /\ RoundOut(Margin) <= Margin + 31
  BY <1>1 DEF RoundOut
<1> QED BY <1>1, <1>2 DEF StreamExtra

\* What a tier walks with frontier e at camera c.
LeftOf(c, e) == Wrap(Column(c) - e)
RightOf(c, e) == Wrap(Column(c) + 256 + e)
SweepOf(c, e) == {Wrap(Column(c) - GridPad(e) + 32 * i) : i \in 0..GridColumns(e)-1}

\* A sweep starts at the column of the camera less the pad, whichever is
\* rounded first.
LEMMA SweepForm ==
  ASSUME NEW e \in Nat, e < 4160, e % 32 = 0, NEW c \in Int
  PROVE  {Wrap(Column(Wrap(c - GridPad(e))) + 32 * i) : i \in 0..GridColumns(e)-1} = SweepOf(c, e)
<1>1. GridPad(e) \in Int /\ GridPad(e) % 32 = 0
  BY DEF GridPad
<1>2. ASSUME NEW i \in Int
      PROVE  Wrap(Column(Wrap(c - GridPad(e))) + 32 * i) = Wrap(Column(c) - GridPad(e) + 32 * i)
  <2>1. Column(Wrap(c - GridPad(e))) = Wrap(Column(c - GridPad(e)))
    BY <1>1, ColumnWraps
  <2>2. Column(c - GridPad(e)) = Column(c) - GridPad(e)
    <3> DEFINE p == GridPad(e)
    <3>1. p \in Int /\ p % 32 = 0
      BY <1>1
    <3> HIDE DEF p
    <3>2. Column(c - p) = Column(c) - p
      BY <3>1 DEF Column
    <3> QED BY <3>2 DEF p
  <2> DEFINE n == Column(c) - GridPad(e)
             d == 32 * i
  <2>3. n \in Int /\ d \in Int
    BY <1>1, ColumnBelow
  <2>4. Column(Wrap(c - GridPad(e))) = Wrap(n)
    BY <2>1, <2>2
  <2> HIDE DEF n, d
  <2>5. Wrap(Wrap(n) + d) = Wrap(n + d)
    BY <2>3, WrapOnce
  <2> QED BY <2>4, <2>5 DEF n, d
<1>3. GridColumns(e) \in Int
  BY DEF GridColumns
<1> QED BY <1>2, <1>3 DEF SweepOf

\* The generated hooks walk the frontier of the camera they read.
LEMMA HooksWalk ==
  ASSUME extra \in Extras, NEW c \in Int
  PROVE  /\ ProbeLeft("generated", c) = LeftOf(c, StreamExtra(c))
         /\ ProbeRight("generated", c) = RightOf(c, StreamExtra(c))
         /\ SweepColumns("generated", c) = SweepOf(c, StreamExtra(c))
<1> DEFINE e == StreamExtra(c)
<1>1. e \in Nat /\ e < 4160 /\ e % 32 = 0
  BY Frontier
<1>2. ProbeLeft("generated", c) = Column(Wrap(c - e))
  BY DEF ProbeLeft, StreamLeft
<1>3. ProbeRight("generated", c) = Column(Wrap(c + (256 + e)))
  BY DEF ProbeRight, StreamRightAdd
<1>4. /\ StreamGridPad(c) = GridPad(e) /\ StreamColumns(c) = GridColumns(e)
      /\ SweepColumns("generated", c)
           = {Wrap(Column(Wrap(c - GridPad(e))) + 32 * i) : i \in 0..GridColumns(e)-1}
  BY DEF SweepColumns, StreamGridPad, StreamColumns, GridPad, GridColumns
<1> HIDE DEF e
<1>5. Column(Wrap(c - e)) = LeftOf(c, e)
  BY <1>1 DEF LeftOf, Column, Wrap
<1>6. Column(Wrap(c + (256 + e))) = RightOf(c, e)
  BY <1>1 DEF RightOf, Column, Wrap
<1>7. {Wrap(Column(Wrap(c - GridPad(e))) + 32 * i) : i \in 0..GridColumns(e)-1} = SweepOf(c, e)
  BY <1>1, SweepForm
<1> QED BY <1>2, <1>3, <1>4, <1>5, <1>6, <1>7 DEF e

\* The interpreter walks the frontier its operands were written for.
LEMMA OperandsWalk ==
  ASSUME NEW e \in Nat, e < 4160, e % 32 = 0, rom = StreamPatch(e),
         NEW c \in Nat, c < 65536
  PROVE  /\ ProbeLeft("interpreter", c) = LeftOf(c, e)
         /\ ProbeRight("interpreter", c) = RightOf(c, e)
         /\ SweepColumns("interpreter", c) = SweepOf(c, e)
<1>1. Value(rom.right) = 256 + e /\ Value(rom.grid) = GridPad(e) /\ Value(rom.columns) = GridColumns(e)
  <2>1. /\ 256 + e \in Nat /\ 256 + e < 65536
        /\ GridPad(e) \in Nat /\ GridPad(e) < 65536
    BY DEF GridPad
  <2>2. GridColumns(e) \in Nat /\ GridColumns(e) < 65536
    BY DEF GridColumns
  <2>3. rom.right = Operand(256 + e) /\ rom.grid = Operand(GridPad(e)) /\ rom.columns = Operand(GridColumns(e))
    BY DEF StreamPatch
  <2> QED BY <2>1, <2>2, <2>3, OperandRead
<1>2. RomLeft(c) = IF e = 0 THEN c ELSE Wrap(Column(c) - e)
  <2>1. CASE e = 0
    BY <2>1 DEF StreamPatch, RomLeft
  <2>2. CASE e # 0
    <3> DEFINE k == e - 1
    <3>1. k \in Nat /\ k < 65536 /\ rom.left_arm = SbcArm(k) /\ Column(c) - k - 1 = Column(c) - e
      BY <2>2, ColumnBelow DEF StreamPatch
    <3> HIDE DEF k
    <3>2. rom.left_arm # LeftArm /\ Value(SubSeq(rom.left_arm, 2, 3)) = k
      BY <3>1, ArmRead
    <3> QED BY <2>2, <3>1, <3>2 DEF RomLeft
  <2> QED BY <2>1, <2>2
<1>3. ProbeLeft("interpreter", c) = LeftOf(c, e)
  <2>1. ProbeLeft("interpreter", c) = Column(RomLeft(c))
    BY DEF ProbeLeft
  <2>2. Column(c) = Wrap(Column(c)) /\ Column(Wrap(Column(c) - e)) = Wrap(Column(c) - e)
    BY DEF Column, Wrap
  <2> QED BY <1>2, <2>1, <2>2, ColumnBelow DEF LeftOf
<1>4. ProbeRight("interpreter", c) = Column(Wrap(c + (256 + e)))
  BY <1>1 DEF ProbeRight, RomRight
<1>5. SweepColumns("interpreter", c) = {Wrap(Column(Wrap(c - GridPad(e))) + 32 * i) : i \in 0..GridColumns(e)-1}
  BY <1>1 DEF SweepColumns
<1>6. Column(Wrap(c + (256 + e))) = RightOf(c, e)
  BY DEF RightOf, Column, Wrap
<1> QED BY <1>3, <1>4, <1>5, <1>6, SweepForm

-----------------------------------------------------------------------------
\* The camera for which the record frontier was walked, and the ROM patched.
Walked == IF pc = "stream" THEN previous ELSE camera

\* The bounds of the walked columns around camera c.
Within(x, c, e) == Column(c) - e <= Column(x) /\ Column(x) <= Column(c) + 256 + e

\* The operands in ROM are those of the frame's camera, and every record within
\* the frontier has been consumed.
SpawnInv ==
  /\ pc \in {"enter", "idle", "guest", "stream"}
  /\ stage \in Stages
  /\ extra \in Extras /\ camera \in Cameras /\ previous \in Cameras
  /\ grown \in BOOLEAN
  /\ allocated \subseteq RecordXs
  /\ pc = "stream" => \E d \in Moves : camera = previous + d
  /\ pc = "enter" => allocated = {}
  /\ Valid /\ pc # "idle" => rom = StreamPatch(StreamExtra(Walked))
  /\ Valid /\ pc # "enter" /\ DoorActorX = 0 /\ ~grown =>
       \A x \in RecordXs : Within(x, Walked, StreamExtra(Walked)) => x \in allocated

\* x2_patch_ws_interp_spawn_stream() writes the frontier of the camera it reads.
LEMMA PatchIs ==
  ASSUME Valid, extra \in Extras
  PROVE  Patch = StreamPatch(StreamExtra(camera))
BY DEF Patch

\* What either tier walks in a step of the guest: with e the frontier of the
\* camera (hooks) or the one in ROM, which differ only near a door.
LEMMA TierWalks ==
  ASSUME SpawnInv, Valid, NEW tier \in Tiers \cup {"generated"}, pc # "idle"
  PROVE  \E e \in {StreamExtra(camera), StreamExtra(Walked)} :
           /\ ProbeLeft(tier, camera) = LeftOf(camera, e)
           /\ ProbeRight(tier, camera) = RightOf(camera, e)
           /\ SweepColumns(tier, camera) = SweepOf(camera, e)
<1>1. camera \in Nat /\ camera < 65536 /\ extra \in Extras
  BY SpawnAssumption DEF SpawnInv
<1>2. CASE tier = "generated"
  BY <1>1, <1>2, HooksWalk
<1>3. CASE tier = "interpreter"
  <2> DEFINE e == StreamExtra(Walked)
  <2>1. e \in Nat /\ e < 4160 /\ e % 32 = 0
    BY <1>1, Frontier
  <2>2. rom = StreamPatch(e)
    BY DEF SpawnInv
  <2> HIDE DEF e
  <2>3. /\ ProbeLeft("interpreter", camera) = LeftOf(camera, e)
        /\ ProbeRight("interpreter", camera) = RightOf(camera, e)
        /\ SweepColumns("interpreter", camera) = SweepOf(camera, e)
    BY <1>1, <2>1, <2>2, OperandsWalk
  <2> QED BY <1>3, <2>3 DEF e
<1> QED BY <1>2, <1>3, SpawnAssumption

\* The columns of a sweep are those within the frontier, on both sides.
LEMMA SweepCovers ==
  ASSUME NEW e \in Nat, e < 4160, e % 32 = 0, NEW c \in Nat, c < 65536,
         NEW x \in Nat, x < 65536, Within(x, c, e)
  PROVE  Column(x) \in SweepOf(c, e)
<1> DEFINE i == (Column(x) - Column(c) + GridPad(e)) \div 32
<1>1. i \in 0..GridColumns(e)-1 /\ Column(x) = Column(c) - GridPad(e) + 32 * i
  <2>1. /\ Column(x) \in Int /\ Column(c) \in Int /\ GridPad(e) \in Int
        /\ Column(x) % 32 = 0 /\ Column(c) % 32 = 0 /\ GridPad(e) % 32 = 0
    BY ColumnBelow DEF GridPad
  <2>2. i \in Int /\ 32 * i = Column(x) - Column(c) + GridPad(e)
    <3> DEFINE n == Column(x) - Column(c) + GridPad(e)
    <3>1. n \in Int /\ n % 32 = 0
      BY <2>1
    <3> HIDE DEF n
    <3>2. n \div 32 \in Int /\ 32 * (n \div 32) = n
      BY <3>1
    <3> QED BY <3>2 DEF n
  <2>3. /\ 0 <= 32 * i /\ 32 * i <= 256 + e + GridPad(e)
    BY <2>1, <2>2 DEF Within, GridPad
  <2>4. 256 + e + GridPad(e) = 32 * (GridColumns(e) - 1) /\ GridColumns(e) \in Int
    BY DEF GridPad, GridColumns
  <2> HIDE DEF i
  <2> QED BY <2>1, <2>2, <2>3, <2>4
<1>2. Wrap(Column(x)) = Column(x)
  BY DEF Wrap, Column
<1> HIDE DEF i
<1> QED BY <1>1, <1>2 DEF SweepOf

\* No column that is walked is farther from the camera than the pad on the left
\* and the frontier on the right.
LEMMA WalkedNear ==
  ASSUME NEW e \in Nat, e < 4160, e % 32 = 0, NEW c \in Nat,
         NEW y \in SweepOf(c, e) \cup {LeftOf(c, e), RightOf(c, e)}
  PROVE  \E k \in Int : /\ y = Wrap(Column(c) + k)
                        /\ 0 - GridPad(e) <= k /\ k <= 256 + e
<1>4. Column(c) \in Int /\ GridPad(e) \in Nat /\ e <= GridPad(e)
  BY ColumnBelow DEF GridPad
<1>1. CASE y = LeftOf(c, e)
  <2> DEFINE k == 0 - e
  <2>1. k \in Int /\ 0 - GridPad(e) <= k /\ k <= 256 + e
    BY <1>4
  <2>2. Column(c) - e = Column(c) + k
    BY <1>4
  <2> HIDE DEF k
  <2> QED BY <1>1, <2>1, <2>2 DEF LeftOf
<1>2. CASE y = RightOf(c, e)
  <2> DEFINE k == 256 + e
  <2>1. k \in Int /\ 0 - GridPad(e) <= k /\ k <= 256 + e
    BY <1>4
  <2>2. Column(c) + 256 + e = Column(c) + k
    BY <1>4
  <2> HIDE DEF k
  <2> QED BY <1>2, <2>1, <2>2 DEF RightOf
<1>3. CASE y \in SweepOf(c, e)
  <2>1. PICK i \in 0..GridColumns(e)-1 : y = Wrap(Column(c) - GridPad(e) + 32 * i)
    BY <1>3 DEF SweepOf
  <2>2. 32 * (GridColumns(e) - 1) = 256 + e + GridPad(e) /\ GridColumns(e) \in Int /\ GridPad(e) \in Int
    BY DEF GridPad, GridColumns
  <2> DEFINE k == 32 * i - GridPad(e)
  <2>3. k \in Int /\ 0 - GridPad(e) <= k /\ k <= 256 + e /\ Column(c) - GridPad(e) + 32 * i = Column(c) + k
    BY <2>2, ColumnBelow
  <2> HIDE DEF k
  <2> QED BY <2>1, <2>3
<1> QED BY <1>1, <1>2, <1>3

\* What is that near to the camera is within the activation window (the hooks of
\* $00:D813 and the patched immediates, x2_rtl.c:343-380).
LEMMA NearIsActive ==
  ASSUME extra \in Extras, NEW e \in {0, RoundOut(Margin)}, NEW k \in Int,
         0 - GridPad(e) <= k, k <= 256 + e,
         NEW c \in Nat, c < 65536, NEW x \in Nat, x < 65536,
         Column(x) = Wrap(Column(c) + k)
  PROVE  Activated(x, c)
<1>1. /\ Margin \in Nat /\ Margin < 4128 /\ e \in Nat /\ e <= Margin + 31
      /\ GridPad(e) \in Nat /\ GridPad(e) <= Margin + 32
  BY Frontier DEF GridPad
<1>2. Wrap(x - c + Wrap(64 + Margin)) = Wrap(x - c + 64 + Margin)
  BY <1>1 DEF Wrap
<1>3. PICK j \in Int : Column(x) = Column(c) + k - 65536 * j
  <2> DEFINE n == Column(c) + k
             q == n \div 65536
  <2>1. n \in Int
    BY ColumnBelow
  <2> HIDE DEF n
  <2>2. q \in Int /\ Wrap(n) = n - 65536 * q
    BY <2>1 DEF Wrap
  <2> HIDE DEF q
  <2>3. Column(x) = n - 65536 * q
    BY <2>2 DEF n
  <2>4. q \in Int /\ Column(x) = Column(c) + k - 65536 * q
    BY <2>2, <2>3, ColumnBelow DEF n
  <2> QED BY <2>4
<1>4. /\ 0 <= x - c + 64 + Margin + 65536 * j
      /\ x - c + 64 + Margin + 65536 * j < 384 + 2 * Margin
  <2>1. /\ Column(x) \in Int /\ Column(x) <= x /\ x < Column(x) + 32
        /\ Column(c) \in Int /\ Column(c) <= c /\ c < Column(c) + 32
    BY ColumnBelow
  <2> QED BY <1>1, <1>3, <2>1
<1>5. Wrap(x - c + 64 + Margin) < 384 + 2 * Margin
  BY <1>1, <1>4 DEF Wrap
<1>6. Wrap(384 + 2 * Margin) = 384 + 2 * Margin
  BY <1>1 DEF Wrap
<1> QED BY <1>2, <1>5, <1>6 DEF Activated, ObjWinAdd, ObjWinLimit

\* The records that a step of the guest consumes lie in columns it walked.
LEMMA NewlyAllocated ==
  ASSUME SpawnInv, NEW tier \in Tiers \cup {"generated"}, Valid \/ tier = "generated",
         Enter(tier) \/ Stream(tier) \/ Sweep(tier)
  PROVE  \E e \in {StreamExtra(camera), IF tier = "generated" THEN StreamExtra(camera)
                                        ELSE StreamExtra(Walked)} :
           \A x \in allocated' \ allocated :
             /\ x \in RecordXs
             /\ Column(x) \in SweepOf(camera, e) \cup {LeftOf(camera, e), RightOf(camera, e)}
<1>1. camera \in Nat /\ camera < 65536 /\ extra \in Extras
  BY SpawnAssumption DEF SpawnInv
<1>2. PICK e \in {StreamExtra(camera), IF tier = "generated" THEN StreamExtra(camera)
                                        ELSE StreamExtra(Walked)} :
           /\ ProbeLeft(tier, camera) = LeftOf(camera, e)
           /\ ProbeRight(tier, camera) = RightOf(camera, e)
           /\ SweepColumns(tier, camera) = SweepOf(camera, e)
  <2>1. CASE tier = "generated"
    BY <1>1, <2>1, HooksWalk
  <2>2. CASE tier # "generated"
    <3>1. pc # "idle" /\ Valid
      BY <2>2 DEF Enter, Stream, Sweep
    <3> QED BY <2>2, <3>1, TierWalks
  <2> QED BY <2>1, <2>2
<1>3. CASE Enter(tier)
  BY <1>2, <1>3 DEF Enter, Walk
<1>4. CASE Stream(tier)
  BY <1>2, <1>4 DEF Stream, Walk
<1>5. CASE Sweep(tier)
  BY <1>2, <1>5 DEF Sweep, Walk
<1> QED BY <1>3, <1>4, <1>5

-----------------------------------------------------------------------------
\* Where no door is near, the frontier is the same wherever the camera is.
LEMMA SameFrontier ==
  ASSUME DoorActorX = 0, NEW c, NEW d
  PROVE  StreamExtra(c) = StreamExtra(d)
BY DEF StreamExtra, DoorGuard

\* The frontier is a column further when the camera is: what was covered before
\* the move, with the column probed after it, covers the records again.
LEMMA ProbeCovers ==
  ASSUME NEW e \in Nat, e < 4160, e % 32 = 0,
         NEW p \in Nat, NEW d \in Int, -31 <= d, d <= 31,
         p + d \in Nat, p + d < 65536,
         NEW x \in Nat, x < 65536, Within(x, p + d, e), ~Within(x, p, e)
  PROVE  \/ Column(p + d) > Column(p) /\ Column(x) = RightOf(p + d, e)
         \/ Column(p + d) < Column(p) /\ Column(x) = LeftOf(p + d, e)
<1>1. /\ Column(x) \in Int /\ Column(x) % 32 = 0 /\ Column(x) <= x /\ x < Column(x) + 32
      /\ Column(p) \in Int /\ Column(p) % 32 = 0 /\ Column(p) <= p /\ p < Column(p) + 32
  BY ColumnBelow
<1> DEFINE c == p + d
<1>2. c \in Nat /\ c < 65536 /\ c = p + d
  OBVIOUS
<1> HIDE DEF c
<1>3. Column(c) \in Int /\ Column(c) % 32 = 0 /\ Column(c) <= c /\ c < Column(c) + 32
  BY <1>2, ColumnBelow
<1>4. Column(c) = Column(p) \/ Column(c) = Column(p) + 32 \/ Column(c) = Column(p) - 32
  <2>1. /\ c \div 32 \in Int /\ Column(c) = 32 * (c \div 32)
        /\ p \div 32 \in Int /\ Column(p) = 32 * (p \div 32)
    BY <1>2, ColumnNumber
  <2>2. Column(c) - Column(p) < 64 /\ Column(p) - Column(c) < 64
    BY <1>1, <1>2, <1>3
  <2> QED BY <2>1, <2>2
<1>5. Within(x, c, e) /\ ~Within(x, p, e)
  BY DEF c
<1>6. Wrap(Column(x)) = Column(x)
  BY DEF Wrap, Column
<1>10. /\ x \div 32 \in Int /\ Column(x) = 32 * (x \div 32)
       /\ c \div 32 \in Int /\ Column(c) = 32 * (c \div 32)
       /\ e \div 32 \in Int /\ e = 32 * (e \div 32)
  BY <1>2, ColumnNumber
<1>7. CASE Column(c) = Column(p) + 32
  <2>1. Column(x) = Column(c) + 256 + e
    <3>1. /\ Column(x) <= Column(c) + 256 + e
          /\ Column(x) > Column(c) + 256 + e - 32
      BY <1>1, <1>3, <1>5, <1>7 DEF Within
    <3> DEFINE a == x \div 32
               b == c \div 32
               f == e \div 32
    <3>2. /\ a \in Int /\ b \in Int /\ f \in Int
          /\ Column(x) = 32 * a /\ Column(c) = 32 * b /\ e = 32 * f
      BY <1>10
    <3> HIDE DEF a, b, f
    <3> QED BY <3>1, <3>2
  <2> QED BY <1>1, <1>3, <1>6, <1>7, <2>1 DEF RightOf, c
<1>8. CASE Column(c) = Column(p) - 32
  <2>1. Column(x) = Column(c) - e
    <3>1. /\ Column(x) >= Column(c) - e
          /\ Column(x) < Column(c) - e + 32
      BY <1>1, <1>3, <1>5, <1>8 DEF Within
    <3> DEFINE a == x \div 32
               b == c \div 32
               f == e \div 32
    <3>2. /\ a \in Int /\ b \in Int /\ f \in Int
          /\ Column(x) = 32 * a /\ Column(c) = 32 * b /\ e = 32 * f
      BY <1>10
    <3> HIDE DEF a, b, f
    <3> QED BY <3>1, <3>2
  <2> QED BY <1>1, <1>3, <1>6, <1>8, <2>1 DEF LeftOf, c
<1>9. Column(c) # Column(p)
  BY <1>5 DEF Within
<1> QED BY <1>4, <1>7, <1>8, <1>9

\* A gutter that does not grow does not move the frontier outward.
LEMMA NarrowerFrontier ==
  ASSUME NEW c, extra \in Extras, extra' \in Extras, extra' <= extra, stage' = stage,
         DoorActorX = 0
  PROVE  StreamExtra(c)' <= StreamExtra(c)
<1>1. extra \in Nat /\ extra' \in Nat
  BY SpawnAssumption
<1>2. Margin \in Nat /\ Margin' \in Nat /\ Margin' <= Margin
  <2>1. /\ Margin = (IF ~EnvSpawn \/ extra = 0 THEN 0 ELSE extra + 32)
        /\ Margin' = (IF ~EnvSpawn \/ extra' = 0 THEN 0 ELSE extra' + 32)
    BY DEF Margin
  <2>2. CASE ~EnvSpawn
    BY <2>1, <2>2
  <2>3. CASE EnvSpawn
    <3>1. /\ extra = 0 => Margin = 0
          /\ extra # 0 => Margin = extra + 32
          /\ extra' = 0 => Margin' = 0
          /\ extra' # 0 => Margin' = extra' + 32
      BY <2>1, <2>3, Zenon
    <3> QED BY <1>1, <3>1
  <2> QED BY <2>2, <2>3
<1>3. RoundOut(Margin) \in Nat /\ RoundOut(Margin') \in Nat /\ RoundOut(Margin') <= RoundOut(Margin)
  BY <1>2 DEF RoundOut
<1>4. StreamExtra(c) = IF stage[1] = 12 THEN 0 ELSE RoundOut(Margin)
  BY DEF StreamExtra, DoorGuard
<1>5. StreamExtra(c)' = IF stage[1] = 12 THEN 0 ELSE RoundOut(Margin')
  BY DEF StreamExtra, DoorGuard, DoorActorX
<1> QED BY <1>3, <1>4, <1>5

\* A stage begins with the frontier of its first camera.
LEMMA InitSpawn == Init => SpawnInv
<1> SUFFICES ASSUME Init PROVE SpawnInv
  OBVIOUS
<1>1. Walked = camera
  BY DEF Init, Walked
<1>2. Valid => rom = StreamPatch(StreamExtra(camera))
  BY PatchIs DEF Init
<1> QED BY <1>1, <1>2 DEF Init, SpawnInv

\* The last conjunct of the invariant, in the state after a step that leaves the
\* stage and the gutters alone.
LEMMA CoveredAfter ==
  ASSUME SpawnInv, Valid, DoorActorX = 0, ~grown, NEW tier \in Tiers,
         Enter(tier) \/ Stream(tier) \/ Sweep(tier),
         NEW x \in RecordXs, Within(x, camera, StreamExtra(camera))
  PROVE  x \in allocated'
<1> DEFINE e == StreamExtra(camera)
<1>1. e \in Nat /\ e < 4160 /\ e % 32 = 0 /\ StreamExtra(Walked) = e
  BY Frontier, SameFrontier DEF SpawnInv
<1>2. /\ camera \in Nat /\ camera < 65536 /\ x \in Nat /\ x < 65536
      /\ previous \in Nat
  BY SpawnAssumption DEF SpawnInv
<1>3. pc # "idle"
  BY DEF Enter, Stream, Sweep
<1>4. /\ ProbeLeft(tier, camera) = LeftOf(camera, e)
      /\ ProbeRight(tier, camera) = RightOf(camera, e)
      /\ SweepColumns(tier, camera) = SweepOf(camera, e)
  BY <1>1, <1>3, TierWalks
<1>5. Within(x, camera, e)
  OBVIOUS
<1> HIDE DEF e
<1>6. Column(x) \in SweepOf(camera, e)
  BY <1>1, <1>2, <1>5, SweepCovers
<1>7. CASE Enter(tier)
  BY <1>4, <1>6, <1>7 DEF Enter, Walk
<1>8. CASE Sweep(tier)
  BY <1>4, <1>6, <1>8 DEF Sweep, Walk
<1>9. CASE Stream(tier)
  <2>1. pc = "stream" /\ Walked = previous
    BY <1>9 DEF Stream, Walked
  <2>2. PICK d \in Moves : camera = previous + d
    BY <2>1 DEF SpawnInv
  <2>3. d \in Int /\ -31 <= d /\ d <= 31
    BY SpawnAssumption
  <2>4. allocated \subseteq allocated'
    BY <1>9 DEF Stream, Walk
  <2>5. CASE Within(x, previous, e)
    <3>1. x \in allocated
      BY <1>1, <1>3, <2>1, <2>5 DEF SpawnInv
    <3> QED BY <2>4, <3>1
  <2>6. CASE ~Within(x, previous, e)
    <3>1. \/ Column(camera) > Column(previous) /\ Column(x) = RightOf(camera, e)
          \/ Column(camera) < Column(previous) /\ Column(x) = LeftOf(camera, e)
      BY <1>1, <1>2, <1>5, <2>2, <2>3, <2>6, ProbeCovers
    <3>2. Column(camera) \in Int /\ Column(previous) \in Int
      BY <1>2, ColumnBelow
    <3>3. CASE Column(camera) > Column(previous) /\ Column(x) = RightOf(camera, e)
      BY <1>4, <1>9, <3>2, <3>3 DEF Stream, Walk
    <3>4. CASE Column(camera) < Column(previous) /\ Column(x) = LeftOf(camera, e)
      BY <1>4, <1>9, <3>2, <3>4 DEF Stream, Walk
    <3> QED BY <3>1, <3>3, <3>4
  <2> QED BY <2>5, <2>6
<1> QED BY <1>7, <1>8, <1>9

\* Every step keeps the invariant.
LEMMA NextSpawn == SpawnInv /\ [Next]_vars => SpawnInv'
<1> SUFFICES ASSUME SpawnInv, [Next]_vars PROVE SpawnInv'
  OBVIOUS
<1>1. CASE FrameStart
  <2>1. Walked = camera /\ Walked' = camera' /\ camera' = camera
    BY <1>1 DEF FrameStart, Walked
  <2>2. \A c : StreamExtra(c)' = StreamExtra(c)
    BY <1>1 DEF FrameStart, StreamExtra, DoorGuard, DoorActorX, Margin
  <2>3. Valid => rom' = StreamPatch(StreamExtra(camera))
    BY <1>1, PatchIs DEF FrameStart, SpawnInv
  <2>4. DoorActorX' = DoorActorX
    BY <1>1 DEF FrameStart, DoorActorX
  <2> QED BY <1>1, <2>1, <2>2, <2>3, <2>4 DEF FrameStart, SpawnInv
<1>2. ASSUME NEW e \in Extras, Resize(e) PROVE SpawnInv'
  <2>1. Walked = camera /\ Walked' = camera
    BY <1>2 DEF Resize, Walked
  <2>2. DoorActorX' = DoorActorX
    BY <1>2 DEF Resize, DoorActorX
  <2>3. ASSUME Valid, DoorActorX = 0, ~grown', NEW x \in RecordXs,
               Within(x, camera, StreamExtra(camera)')
        PROVE  x \in allocated
    <3>1. extra' <= extra /\ ~grown
      <4>1. grown' = (grown \/ e > extra) /\ extra' = e
        BY <1>2 DEF Resize
      <4>2. ~(grown \/ e > extra)
        BY <2>3, <4>1, Zenon
      <4> QED BY <4>1, <4>2, SpawnAssumption DEF SpawnInv
    <3>2. StreamExtra(camera)' <= StreamExtra(camera)
      BY <1>2, <2>3, <3>1, NarrowerFrontier DEF Resize, SpawnInv
    <3>3. /\ StreamExtra(camera) \in Int /\ StreamExtra(camera)' \in Int
          /\ Column(camera) \in Int /\ Column(x) \in Int
      <4>1. camera \in Int /\ x \in Int
        BY SpawnAssumption DEF SpawnInv
      <4>2. StreamExtra(camera)' \in Int
        BY <1>2, <2>3, SpawnAssumption DEF Resize, StreamExtra, RoundOut, Column, Margin, DoorGuard
      <4> QED BY <4>1, <4>2, ColumnBelow, Frontier DEF SpawnInv
    <3>4. Within(x, camera, StreamExtra(camera))
      BY <2>3, <3>2, <3>3 DEF Within
    <3> QED BY <1>2, <2>1, <2>3, <3>1, <3>4 DEF SpawnInv, Resize
  <2> QED BY <1>2, <2>1, <2>2, <2>3 DEF Resize, SpawnInv
<1>3. ASSUME NEW d \in Moves, MoveCamera(d) PROVE SpawnInv'
  <2>1. Walked = camera /\ Walked' = camera
    BY <1>3 DEF MoveCamera, Walked
  <2>2. \A c : StreamExtra(c)' = StreamExtra(c)
    BY <1>3 DEF MoveCamera, StreamExtra, DoorGuard, DoorActorX, Margin
  <2>3. DoorActorX' = DoorActorX
    BY <1>3 DEF MoveCamera, DoorActorX
  <2> QED BY <1>3, <2>1, <2>2, <2>3 DEF MoveCamera, SpawnInv
<1>4. ASSUME NEW tier \in Tiers, Enter(tier) \/ Stream(tier) \/ Sweep(tier)
      PROVE  SpawnInv'
  <2>1. /\ UNCHANGED <<stage, extra, grown, camera, previous, rom>> /\ pc' = "idle"
        /\ \E columns : Walk(columns) \/ UNCHANGED allocated
    BY <1>4 DEF Enter, Stream, Sweep
  <2>2. allocated' \subseteq RecordXs
    BY <2>1 DEF Walk, SpawnInv
  <2>3. Walked' = camera
    BY <2>1 DEF Walked
  <2>4. \A c : StreamExtra(c)' = StreamExtra(c)
    BY <2>1 DEF StreamExtra, DoorGuard, DoorActorX, Margin
  <2>5. DoorActorX' = DoorActorX
    BY <2>1 DEF DoorActorX
  <2>6. Valid /\ DoorActorX = 0 /\ ~grown =>
          \A x \in RecordXs : Within(x, camera, StreamExtra(camera)) => x \in allocated'
    BY <1>4, CoveredAfter
  <2> QED BY <2>1, <2>2, <2>3, <2>4, <2>5, <2>6 DEF SpawnInv
<1>5. CASE UNCHANGED vars
  <2>1. \A c : StreamExtra(c)' = StreamExtra(c)
    BY <1>5 DEF vars, StreamExtra, DoorGuard, DoorActorX, Margin
  <2>2. DoorActorX' = DoorActorX /\ Walked' = Walked
    BY <1>5 DEF vars, DoorActorX, Walked
  <2> QED BY <1>5, <2>1, <2>2 DEF vars, SpawnInv
<1> QED BY <1>1, <1>2, <1>3, <1>4, <1>5 DEF Next

\* SpawnInv holds in every state.
LEMMA SpawnInvariant == Spec => []SpawnInv
BY InitSpawn, NextSpawn, PTL DEF Spec

-----------------------------------------------------------------------------
\* The generated hooks and the patched operands walk the same columns, so that a
\* routine may run in either tier from one frame to the next (x2_rtl.c:430-452 and 525-557):
\* for every gutter and every camera, on a cartridge with the routine.
THEOREM SpawnTiersAgree ==
  ASSUME Valid
  PROVE  Spec => []TiersAgree
<1>1. SpawnInv => TiersAgree
  <2> SUFFICES ASSUME SpawnInv, pc = "guest"
               PROVE  /\ ProbeLeft("generated", camera) = ProbeLeft("interpreter", camera)
                      /\ ProbeRight("generated", camera) = ProbeRight("interpreter", camera)
                      /\ SweepColumns("generated", camera) = SweepColumns("interpreter", camera)
    BY DEF TiersAgree
  <2> DEFINE e == StreamExtra(camera)
  <2>1. /\ camera \in Nat /\ camera < 65536 /\ extra \in Extras
        /\ e \in Nat /\ e < 4160 /\ e % 32 = 0
    BY SpawnAssumption, Frontier DEF SpawnInv
  <2>2. rom = StreamPatch(e)
    BY DEF SpawnInv, Walked
  <2>3. /\ ProbeLeft("generated", camera) = LeftOf(camera, e)
        /\ ProbeRight("generated", camera) = RightOf(camera, e)
        /\ SweepColumns("generated", camera) = SweepOf(camera, e)
    BY <2>1, HooksWalk
  <2> HIDE DEF e
  <2> QED BY <2>1, <2>2, <2>3, OperandsWalk
<1> QED BY <1>1, SpawnInvariant, PTL

\* Nothing pops in (x2_rtl.c:382-386 and 424-427): between frames every record within the
\* gutters and the wake slack beyond them has been consumed, wherever the records
\* are, however the camera moved there and whichever tier ran.
THEOREM SpawnNoPopIn ==
  ASSUME Valid
  PROVE  Spec => []NoPopIn
<1>1. SpawnInv => NoPopIn
  <2> SUFFICES ASSUME SpawnInv, pc = "idle", DoorActorX = 0, ~grown,
                      NEW x \in RecordXs, camera - Reach <= x, x < camera + 256 + Reach
               PROVE  x \in allocated
    BY DEF NoPopIn
  <2> DEFINE e == StreamExtra(camera)
  <2>1. /\ camera \in Nat /\ x \in Nat /\ e \in Nat /\ e % 32 = 0 /\ Margin \in Nat
        /\ Reach \in Nat /\ Reach <= e
    BY SpawnAssumption, Frontier DEF SpawnInv, Reach
  <2> HIDE DEF e
  <2>2. Within(x, camera, e)
    <3> DEFINE a == x \div 32
               b == camera \div 32
               f == e \div 32
    <3>1. /\ a \in Int /\ Column(x) = 32 * a /\ x < Column(x) + 32 /\ Column(x) <= x
          /\ b \in Int /\ Column(camera) = 32 * b
          /\ Column(camera) <= camera /\ camera < Column(camera) + 32
          /\ f \in Int /\ e = 32 * f
      <4>1. x \in Int /\ camera \in Int
        BY <2>1
      <4>2. /\ Column(x) <= x /\ x < Column(x) + 32
            /\ Column(camera) <= camera /\ camera < Column(camera) + 32
        BY <4>1, ColumnBelow
      <4>3. /\ a \in Int /\ Column(x) = 32 * a
            /\ b \in Int /\ Column(camera) = 32 * b
        BY <4>1, ColumnNumber
      <4>4. f \in Int /\ e = 32 * f
        BY <2>1
      <4> HIDE DEF a, b, f
      <4> QED BY <4>2, <4>3, <4>4
    <3> HIDE DEF a, b, f
    <3>2. 32 * b - 32 * f < 32 * a + 32
      BY <2>1, <3>1
    <3>3. 32 * a < 32 * b + 32 * f + 256 + 32
      BY <2>1, <3>1
    <3> QED BY <3>1, <3>2, <3>3 DEF Within
  <2> QED BY <2>2 DEF SpawnInv, Walked, e
<1> QED BY <1>1, SpawnInvariant, PTL

\* An object is active from the frame in which the frontier allocates it: the
\* slack of the windows (x2_rtl.c:366-380) suits the rounding of the frontier,
\* with a ROM copy as old as the frame, and across the wrap at 2^16.
THEOREM SpawnAllocatedIsActive ==
  ASSUME Valid
  PROVE  Spec => AllocatedIsActive
<1>1. SpawnInv /\ [Next]_vars =>
        [pc = "stream" => \A x \in allocated' \ allocated : Activated(x, camera)]_vars
  <2> SUFFICES ASSUME SpawnInv, Next, pc = "stream", NEW x \in allocated' \ allocated
               PROVE  Activated(x, camera)
    OBVIOUS
  <2>1. PICK tier \in Tiers : Enter(tier) \/ Stream(tier) \/ Sweep(tier)
    BY DEF Next, FrameStart, Resize, MoveCamera
  <2>2. PICK e \in {StreamExtra(camera), IF tier = "generated" THEN StreamExtra(camera)
                                        ELSE StreamExtra(Walked)} :
          \A y \in allocated' \ allocated :
             /\ y \in RecordXs
             /\ Column(y) \in SweepOf(camera, e) \cup {LeftOf(camera, e), RightOf(camera, e)}
    BY <2>1, NewlyAllocated
  <2>3. /\ camera \in Nat /\ camera < 65536 /\ extra \in Extras
        /\ x \in Nat /\ x < 65536
        /\ Column(x) \in SweepOf(camera, e) \cup {LeftOf(camera, e), RightOf(camera, e)}
    BY <2>2, SpawnAssumption DEF SpawnInv
  <2>4. e \in Nat /\ e < 4160 /\ e % 32 = 0 /\ e \in {0, RoundOut(Margin)}
    BY <2>3, Frontier
  <2>5. PICK k \in Int : /\ Column(x) = Wrap(Column(camera) + k)
                        /\ 0 - GridPad(e) <= k /\ k <= 256 + e
    <3> DEFINE c == camera
               f == e
               y == Column(x)
    <3>1. /\ f \in Nat /\ f < 4160 /\ f % 32 = 0 /\ c \in Nat
          /\ y \in SweepOf(c, f) \cup {LeftOf(c, f), RightOf(c, f)}
      BY <2>3, <2>4
    <3> HIDE DEF c, f, y
    <3>2. \E k \in Int : y = Wrap(Column(c) + k) /\ 0 - GridPad(f) <= k /\ k <= 256 + f
      BY <3>1, WalkedNear
    <3> QED BY <3>2 DEF c, f, y
  <2> QED BY <2>3, <2>4, <2>5, NearIsActive
<1> QED BY <1>1, SpawnInvariant, PTL DEF Spec, AllocatedIsActive

\* A column that near, read without its wrap: it is at most the column of the
\* camera plus k, unless it wrapped to the far left end of the level.
LEMMA NotAhead ==
  ASSUME NEW c \in Nat, c < 65536, NEW x \in Nat, NEW k \in Int, -4160 <= k,
         Column(x) = Wrap(Column(c) + k), x < 65504 - 4160 \/ -32 <= k, x < 65504
  PROVE  Column(x) <= Column(c) + k
<1>1. Column(c) \in Int /\ 0 <= Column(c) /\ Column(x) <= x
  BY ColumnBelow DEF Column
<1> DEFINE n == Column(c) + k
<1>2. n \in Int /\ -4160 <= n
  BY <1>1
<1>3. n >= 0 \/ x < 61344 \/ -32 <= n
  BY <1>1
<1> HIDE DEF n
<1>4. Column(x) = Wrap(n)
  BY DEF n
<1>5. CASE n >= 0
  BY <1>2, <1>4, <1>5 DEF Wrap, n
<1>6. CASE n < 0
  <2>1. Wrap(n) = n + 65536
    BY <1>2, <1>6 DEF Wrap
  <2> QED BY <1>1, <1>2, <1>3, <1>4, <1>6, <2>1
<1> QED BY <1>2, <1>5, <1>6

\* The actor behind a door waits for the native frontier (x2_rtl.c:392-414), and
\* in the Boss Rush every actor does.  Two limits are stated: the stage of Zero,
\* whose actor is not at the start of a column and is allocated up to 24 pixels
\* early, and records in the last column of the 16-bit world, which a sweep at its
\* left end reaches by wrapping.
THEOREM SpawnEncounterWaits ==
  ASSUME \A s \in Stages : ~(s[1] = 5 /\ s[2] = 4),
         \A x \in RecordXs : x < 65504
  PROVE  Spec => EncounterWaits
<1> DEFINE A == HookedWalk =>
                  \A x \in Encounters \cap (allocated' \ allocated) :
                    camera <= x => Column(x) <= Column(camera + 256)
<1>1. SpawnInv /\ [Next]_vars => [A]_vars
  <2> SUFFICES ASSUME SpawnInv, HookedWalk,
                      NEW x \in Encounters \cap (allocated' \ allocated), camera <= x
               PROVE  Column(x) <= Column(camera + 256)
    OBVIOUS
  <2> DEFINE e == StreamExtra(camera)
  <2>1. \A y \in allocated' \ allocated :
          /\ y \in RecordXs
          /\ Column(y) \in SweepOf(camera, e) \cup {LeftOf(camera, e), RightOf(camera, e)}
    BY NewlyAllocated DEF HookedWalk
  <2>2. /\ camera \in Nat /\ camera < 65536 /\ extra \in Extras
        /\ x \in Nat /\ x < 65504
        /\ Column(x) \in SweepOf(camera, e) \cup {LeftOf(camera, e), RightOf(camera, e)}
    BY <2>1, SpawnAssumption DEF SpawnInv
  <2>3. e \in Nat /\ e < 4160 /\ e % 32 = 0 /\ e \in {0, RoundOut(Margin)}
    BY <2>2, Frontier
  <2> HIDE DEF e
  <2>4. PICK k \in Int : /\ Column(x) = Wrap(Column(camera) + k)
                        /\ 0 - GridPad(e) <= k /\ k <= 256 + e
    <3> DEFINE y == Column(x)
    <3>1. y \in SweepOf(camera, e) \cup {LeftOf(camera, e), RightOf(camera, e)}
      BY <2>2
    <3> HIDE DEF y
    <3>2. \E k \in Int : y = Wrap(Column(camera) + k) /\ 0 - GridPad(e) <= k /\ k <= 256 + e
      BY <2>2, <2>3, <3>1, WalkedNear
    <3> QED BY <3>2 DEF y
  <2>5. /\ Column(camera + 256) = Column(camera) + 256
        /\ Column(camera) \in Int /\ Column(camera) <= camera /\ Column(x) \in Int
    BY <2>2 DEF Column
  <2>6. CASE e = 0
    <3>1. -32 <= k /\ k <= 256
      BY <2>4, <2>6 DEF GridPad
    <3>2. Column(x) <= Column(camera) + k
      BY <2>2, <2>4, <3>1, NotAhead
    <3> QED BY <2>5, <3>1, <3>2
  <2>7. CASE e # 0
    <3>1. stage[1] # 12 /\ ~DoorGuard(camera) /\ e = RoundOut(Margin)
      BY <2>7 DEF StreamExtra, e
    <3>2. x = DoorActorX
      BY <3>1 DEF Encounters
    <3>3. x = 2624 \/ x = 0
      BY <3>2 DEF DoorActorX, SpawnInv
    <3>4. CASE x = 0
      BY <2>2, <2>5, <3>4 DEF Column
    <3>5. CASE x = 2624
      <4>1. camera + 256 + e < x
        BY <2>2, <2>3, <3>1, <3>2, <3>5 DEF DoorGuard
      <4>2. -4160 <= k
        BY <2>3, <2>4 DEF GridPad
      <4>3. Column(x) <= Column(camera) + k
        BY <2>2, <2>4, <3>5, <4>2, NotAhead
      <4>4. Column(x) = x
        BY <3>5 DEF Column
      <4> QED BY <2>2, <2>3, <2>4, <2>5, <4>1, <4>3, <4>4
    <3> QED BY <3>3, <3>4, <3>5
  <2> QED BY <2>6, <2>7
<1> QED BY <1>1, SpawnInvariant, PTL DEF Spec, EncounterWaits
=============================================================================

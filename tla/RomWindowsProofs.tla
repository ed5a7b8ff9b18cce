-------------------------- MODULE RomWindowsProofs --------------------------
(***************************************************************************)
(* What the interpreter executes depends on the cartridge and on this        *)
(* frame's width and frontier, and on no earlier frame: the table is filled  *)
(* once, from a pristine copy, the signature of the spawn stream is compared *)
(* once, and patching forgets the previous patch.  So if the census of a     *)
(* supported cartridge lists what it should, its windows are widened, on     *)
(* each side by the margin, whatever becomes of the spawn stream.            *)
(***************************************************************************)
EXTENDS RomWindows, SequenceTheorems, TLAPS

Census(c) == Len(ScanRomImms(c)) = ImmExpected

\* The bytes of the routine that the signature compares.
Compared == 0..\h10 \cup \h16..\h26 \cup \h36..\h3E \cup \h78..\h85 \cup \hA2..\hA6

\* The table is a table, and no operand in it shares a byte with the signature
\* of the spawn stream.  This is about the cartridges: their first frame may be
\* wide, and then the signature is compared in a copy whose windows have been
\* widened (x2_rtl.c:737-746).
Apart ==
  \A c \in Carts : Census(c) =>
    /\ ScanRomImms(c) \in Seq([operand : Nat, base : Nat, margin_scale : {1, 2}])
    /\ \A n \in DOMAIN ScanRomImms(c) : \A o \in Compared :
         StreamAt + o \notin {ScanRomImms(c)[n].operand, ScanRomImms(c)[n].operand + 1}

\* Patching a patched copy with the same table is patching the cartridge: the
\* loop of x2_patch_ws_interp_obj_windows (x2_rtl.c:738-744) writes base and
\* margin and reads nothing back.
LEMMA WindowsForget ==
  ASSUME NEW c, NEW t, NEW m, NEW n
  PROVE  Patched(Patched(c, t, m), t, n) = Patched(c, t, n)
<1> DEFINE p == Patched(c, t, m)
<1>1. DOMAIN p = DOMAIN c
  BY DEF Patched
<1>2. \A a \in DOMAIN c : Writers(t, a) = {} => p[a] = c[a]
  BY DEF Patched
<1> HIDE DEF p
<1>3. Patched(p, t, n) = Patched(c, t, n)
  BY <1>1, <1>2 DEF Patched
<1> QED BY <1>3 DEF p

\* Nor does the spawn stream read back what it wrote (x2_rtl.c:536-556).
LEMMA StreamForgets ==
  ASSUME NEW p, NEW q, NEW e,
         DOMAIN p = DOMAIN q,
         \A a \in DOMAIN p : a - StreamAt \notin StreamSites => p[a] = q[a]
  PROVE  StreamPatched(p, e) = StreamPatched(q, e)
BY DEF StreamPatched

\* The same for a copy with both patches.
LEMMA BothForget ==
  ASSUME NEW c, NEW t, NEW m, NEW e, NEW n, NEW f
  PROVE  StreamPatched(Patched(StreamPatched(Patched(c, t, m), e), t, n), f)
           = StreamPatched(Patched(c, t, n), f)
<1> DEFINE w == Patched(c, t, m)
           s == StreamPatched(w, e)
           p == Patched(s, t, n)
           q == Patched(c, t, n)
<1>1. DOMAIN w = DOMAIN c /\ \A a \in DOMAIN c : Writers(t, a) = {} => w[a] = c[a]
  BY DEF Patched
<1> HIDE DEF w
<1>2. /\ DOMAIN s = DOMAIN c
      /\ \A a \in DOMAIN c : Writers(t, a) = {} /\ a - StreamAt \notin StreamSites => s[a] = c[a]
  BY <1>1 DEF StreamPatched
<1> HIDE DEF s
<1>3. /\ DOMAIN p = DOMAIN q
      /\ \A a \in DOMAIN p : a - StreamAt \notin StreamSites => p[a] = q[a]
  BY <1>2 DEF Patched
<1> HIDE DEF p, q
<1>4. StreamPatched(p, f) = StreamPatched(q, f)
  BY <1>3, StreamForgets
<1> QED BY <1>4 DEF p, q, s, w

\* What the signature compares, as a set of offsets.
LEMMA SignatureOffsets ==
  /\ Len(Entry) = \h11 /\ Len(LeftState) = \h11 /\ Len(Right) = 9
  /\ Len(Grid) = 14 /\ Len(WalkerMask) = 5
<1>1. Len(Entry) = \h11
  BY DEF Entry
<1>2. Len(LeftState) = \h11
  <2>1. LeftArm \in Seq(Int) /\ Len(LeftArm) = 7
    BY DEF LeftArm
  <2>2. PICK s \in Seq(Int) : Len(s) = 10 /\ LeftState = s \o LeftArm
    <3> DEFINE s == <<\hAD, \h5D, \h1E, \h29, \hE0, \hFF, \hC5, \h00, \hF0, \h30>>
    <3>1. s \in Seq(Int) /\ Len(s) = 10 /\ LeftState = s \o LeftArm
      BY DEF LeftState
    <3> QED BY <3>1
  <2>3. Len(s \o LeftArm) = Len(s) + Len(LeftArm)
    BY <2>1, <2>2, ConcatProperties
  <2> QED BY <2>1, <2>2, <2>3
<1>3. Len(Right) = 9 /\ Len(Grid) = 14 /\ Len(WalkerMask) = 5
  BY DEF Right, Grid, WalkerMask
<1> QED BY <1>1, <1>2, <1>3

\* The signature of a copy depends only on the bytes that it compares.
LEMMA SameSignature ==
  ASSUME NEW p, NEW q,
         \A o \in Compared : p[StreamAt + o] = q[StreamAt + o]
  PROVE  IsStream(p, StreamAt) <=> IsStream(q, StreamAt)
<1>1. StreamAt \in Nat
  BY RomWindowsAssumption
<1>2. ASSUME NEW k \in Nat, NEW s, Len(s) \in Nat,
             \A n \in 1..Len(s) : k + n - 1 \in Compared
      PROVE  Has(p, StreamAt + k, s) <=> Has(q, StreamAt + k, s)
  <2>1. \A n \in 1..Len(s) : StreamAt + k + n - 1 = StreamAt + (k + n - 1)
    BY <1>1
  <2>2. \A n \in 1..Len(s) : p[StreamAt + k + n - 1] = q[StreamAt + k + n - 1]
    BY <1>2, <2>1
  <2> QED BY <2>2 DEF Has
<1>3. Has(p, StreamAt, Entry) <=> Has(q, StreamAt, Entry)
  <2>1. Len(Entry) \in Nat /\ \A n \in 1..Len(Entry) : 0 + n - 1 \in Compared
    BY SignatureOffsets DEF Compared
  <2>2. Has(p, StreamAt + 0, Entry) <=> Has(q, StreamAt + 0, Entry)
    BY <1>2, <2>1
  <2> QED BY <1>1, <2>2
<1>4. Has(p, StreamAt + \h16, LeftState) <=> Has(q, StreamAt + \h16, LeftState)
  <2>1. Len(LeftState) \in Nat /\ \A n \in 1..Len(LeftState) : \h16 + n - 1 \in Compared
    BY SignatureOffsets DEF Compared
  <2> QED BY <1>2, <2>1
<1>5. Has(p, StreamAt + \h36, Right) <=> Has(q, StreamAt + \h36, Right)
  <2>1. Len(Right) \in Nat /\ \A n \in 1..Len(Right) : \h36 + n - 1 \in Compared
    BY SignatureOffsets DEF Compared
  <2> QED BY <1>2, <2>1
<1>6. Has(p, StreamAt + \h78, Grid) <=> Has(q, StreamAt + \h78, Grid)
  <2>1. Len(Grid) \in Nat /\ \A n \in 1..Len(Grid) : \h78 + n - 1 \in Compared
    BY SignatureOffsets DEF Compared
  <2> QED BY <1>2, <2>1
<1>7. Has(p, StreamAt + \hA2, WalkerMask) <=> Has(q, StreamAt + \hA2, WalkerMask)
  <2>1. Len(WalkerMask) \in Nat /\ \A n \in 1..Len(WalkerMask) : \hA2 + n - 1 \in Compared
    BY SignatureOffsets DEF Compared
  <2> QED BY <1>2, <2>1
<1> QED BY <1>3, <1>4, <1>5, <1>6, <1>7 DEF IsStream

\* An entry of a table has an operand.
LEMMA EntryOperand ==
  ASSUME NEW t \in Seq([operand : Nat, base : Nat, margin_scale : {1, 2}]),
         NEW n \in DOMAIN t
  PROVE  t[n].operand \in Nat
<1>1. ASSUME NEW S, NEW q \in Seq(S), NEW i \in DOMAIN q PROVE q[i] \in S
  BY ElementOfSeq
<1>2. t[n] \in [operand : Nat, base : Nat, margin_scale : {1, 2}]
  BY <1>1
<1> QED BY <1>2

\* Windows apart from it do not hide the spawn stream, nor feign it.
LEMMA StreamSeen ==
  ASSUME Apart, NEW c \in Carts, NEW m
  PROVE  HoldsStream(WindowsAt(c, ScanRomImms(c), m)) <=> HoldsStream(c)
<1>0. PICK t : t = ScanRomImms(c)
  OBVIOUS
<1>1. CASE Len(t) # ImmExpected
  BY <1>0, <1>1 DEF WindowsAt
<1>2. CASE Len(t) = ImmExpected /\ StreamAt + StreamLength <= Size
  <2>1. WindowsAt(c, t, m) = Patched(c, t, m)
    BY <1>2 DEF WindowsAt
  <2>2. /\ t \in Seq([operand : Nat, base : Nat, margin_scale : {1, 2}])
        /\ \A n \in DOMAIN t : \A o \in Compared :
             StreamAt + o \notin {t[n].operand, t[n].operand + 1}
    BY <1>0, <1>2 DEF Apart, Census
  <2>3. ASSUME NEW o \in Compared PROVE Patched(c, t, m)[StreamAt + o] = c[StreamAt + o]
    <3>1. o \in Nat /\ o < StreamLength
      BY DEF Compared, StreamLength
    <3>2. PICK a : a = StreamAt + o /\ a \in 0..Size - 1 /\ a \in Int
      <4>1. /\ StreamAt \in Nat /\ Size \in Nat /\ StreamLength \in Nat
            /\ StreamAt + StreamLength <= Size
        BY <1>2, RomWindowsAssumption DEF StreamLength
      <4>2. StreamAt + o \in 0..Size - 1 /\ StreamAt + o \in Int
        BY <3>1, <4>1
      <4> QED BY <4>2
    <3>3. a \in DOMAIN c
      BY <3>2, RomWindowsAssumption
    <3>4. ASSUME NEW n \in DOMAIN t, t[n].operand \in {a, a - 1} PROVE FALSE
      <4>1. t[n].operand \in Nat
        BY <2>2, EntryOperand
      <4>2. a = t[n].operand \/ a = t[n].operand + 1
        BY <3>2, <3>4, <4>1
      <4> QED BY <2>2, <3>2, <4>2
    <3>5. Writers(t, a) = {}
      BY <3>4 DEF Writers
    <3> QED BY <3>2, <3>3, <3>5 DEF Patched
  <2>4. IsStream(Patched(c, t, m), StreamAt) <=> IsStream(c, StreamAt)
    BY <2>3, SameSignature
  <2> QED BY <1>0, <2>1, <2>4 DEF HoldsStream
<1>3. CASE ~(StreamAt + StreamLength <= Size)
  BY <1>3 DEF HoldsStream
<1> QED BY <1>1, <1>2, <1>3

\* The copy is the cartridge until the first frame, and from then on some view
\* of it; the table and the two flags are those of the cartridge.
CopyInv ==
  /\ cart \in Carts /\ extra \in Extras
  /\ ~scanned => rom = cart /\ ~stream_scanned
  /\ scanned =>
       /\ imms = ScanRomImms(cart)
       /\ stream_scanned /\ stream_valid = HoldsStream(cart)
       /\ \E m, e : rom = View(cart, imms, m, e)
  /\ pc = "guest" => scanned
  /\ RomMatchesView

\* Before the first frame the copy is the cartridge.
LEMMA InitCopy == Init => CopyInv
BY DEF Init, CopyInv, RomMatchesView

\* What one call makes of a copy v.
Rewritten(c, t, v, n, f) ==
  IF HoldsStream(c) THEN StreamPatched(WindowsAt(v, t, n), f) ELSE WindowsAt(v, t, n)

\* Any view of a cartridge, patched as x2_patch_ws_interp_obj_windows does, is
\* the view for the new margin and frontier.
LEMMA ViewForgets ==
  ASSUME NEW c, NEW t, NEW m, NEW e, NEW n, NEW f
  PROVE  Rewritten(c, t, View(c, t, m, e), n, f) = View(c, t, n, f)
<1> DEFINE w == WindowsAt(View(c, t, m, e), t, n)
<1>0. Rewritten(c, t, View(c, t, m, e), n, f) = IF HoldsStream(c) THEN StreamPatched(w, f) ELSE w
  BY DEF Rewritten
<1>1. CASE HoldsStream(c) /\ Len(t) = ImmExpected
  <2>1. w = Patched(StreamPatched(Patched(c, t, m), e), t, n)
    BY <1>1 DEF View, WindowsAt
  <2>2. View(c, t, n, f) = StreamPatched(Patched(c, t, n), f)
    BY <1>1 DEF View, WindowsAt
  <2>3. StreamPatched(Patched(StreamPatched(Patched(c, t, m), e), t, n), f)
          = StreamPatched(Patched(c, t, n), f)
    BY BothForget
  <2> QED BY <1>0, <1>1, <2>1, <2>2, <2>3
<1>2. CASE HoldsStream(c) /\ Len(t) # ImmExpected
  <2>1. w = StreamPatched(c, e) /\ View(c, t, n, f) = StreamPatched(c, f)
    BY <1>2 DEF View, WindowsAt
  <2>2. /\ DOMAIN StreamPatched(c, e) = DOMAIN c
        /\ \A a \in DOMAIN c : a - StreamAt \notin StreamSites => StreamPatched(c, e)[a] = c[a]
    BY DEF StreamPatched
  <2>3. StreamPatched(StreamPatched(c, e), f) = StreamPatched(c, f)
    BY <2>2, StreamForgets
  <2> QED BY <1>0, <1>2, <2>1, <2>3
<1>3. CASE ~HoldsStream(c) /\ Len(t) = ImmExpected
  BY <1>0, <1>3, WindowsForget DEF View, WindowsAt
<1>4. CASE ~HoldsStream(c) /\ Len(t) # ImmExpected
  BY <1>0, <1>4 DEF View, WindowsAt
<1> QED BY <1>1, <1>2, <1>3, <1>4

\* Every step keeps CopyInv.
LEMMA NextCopy == Apart /\ CopyInv /\ [Next]_vars => CopyInv'
<1> SUFFICES ASSUME Apart, CopyInv, [Next]_vars PROVE CopyInv'
  OBVIOUS
<1>1. CASE SetView
  BY <1>1 DEF SetView, CopyInv, RomMatchesView
<1>2. CASE PatchObjWindows
  <2> DEFINE w == IF valid' THEN Patched(rom, imms', Margin(extra)) ELSE rom
  <2>1. /\ scanned' /\ pc' = "guest" /\ cart' = cart /\ extra' = extra /\ held' = held
        /\ valid' = (Len(imms') = ImmExpected)
        /\ scanned => imms' = imms
        /\ ~scanned => imms' = ScanRomImms(rom)
        /\ PatchStream(w)
    BY <1>2, Zenon DEF PatchObjWindows
  <2>2. /\ stream_scanned'
        /\ stream_scanned => stream_valid' = stream_valid
        /\ ~stream_scanned => stream_valid' = HoldsStream(w)
        /\ rom' = IF stream_valid' THEN StreamPatched(w, Frontier(extra, held)) ELSE w
    BY <2>1, Zenon DEF PatchStream
  <2>3. cart' \in Carts /\ extra' \in Extras /\ imms' = ScanRomImms(cart)
    <3>1. CASE scanned
      BY <2>1, <3>1, Zenon DEF CopyInv
    <3>2. CASE ~scanned
      BY <2>1, <3>2, Zenon DEF CopyInv
    <3> QED BY <3>1, <3>2, <2>1, Zenon DEF CopyInv
  <2> HIDE DEF w
  <2>4. /\ stream_valid' = HoldsStream(cart)
        /\ rom' = View(cart, imms', Margin(extra), Frontier(extra, held))
    <3>1. CASE ~scanned
      <4>1. rom = cart /\ ~stream_scanned /\ cart \in Carts
        BY <3>1 DEF CopyInv
      <4>2. w = WindowsAt(cart, imms', Margin(extra))
        BY <2>1, <4>1 DEF w, WindowsAt
      <4>3. HoldsStream(w) <=> HoldsStream(cart)
        BY <2>3, <4>1, <4>2, StreamSeen
      <4>4. HoldsStream(w) \in BOOLEAN /\ HoldsStream(cart) \in BOOLEAN
        BY DEF HoldsStream, IsStream, Has
      <4>5. stream_valid' = HoldsStream(cart)
        BY <2>2, <4>1, <4>3, <4>4
      <4> QED BY <2>2, <4>2, <4>5 DEF View
    <3>2. CASE scanned
      <4>1. /\ imms' = imms /\ stream_scanned /\ stream_valid = HoldsStream(cart)
        BY <2>1, <3>2 DEF CopyInv
      <4>2. PICK m, e : rom = View(cart, imms, m, e)
        BY <3>2 DEF CopyInv
      <4>3. w = WindowsAt(rom, imms, Margin(extra))
        BY <2>1, <4>1 DEF w, WindowsAt
      <4>4. stream_valid' = HoldsStream(cart)
        BY <2>2, <4>1
      <4>5. rom' = Rewritten(cart, imms, rom, Margin(extra), Frontier(extra, held))
        BY <2>2, <4>3, <4>4 DEF Rewritten
      <4>6. Rewritten(cart, imms, View(cart, imms, m, e), Margin(extra), Frontier(extra, held))
              = View(cart, imms, Margin(extra), Frontier(extra, held))
        BY ViewForgets
      <4> QED BY <4>1, <4>2, <4>4, <4>5, <4>6, Zenon
    <3> QED BY <3>1, <3>2
  <2>5. /\ Margin(extra') = Margin(extra)
        /\ Frontier(extra', held') = Frontier(extra, held)
    BY <2>1
  <2>6. RomMatchesView'
    BY <2>1, <2>4, <2>5 DEF RomMatchesView
  <2>7. \E m, e : rom' = View(cart', imms', m, e)
    BY <2>1, <2>4
  <2> QED BY <2>1, <2>2, <2>3, <2>4, <2>6, <2>7, Zenon DEF CopyInv
<1>3. CASE GuestFrame
  BY <1>3 DEF GuestFrame, CopyInv, RomMatchesView
<1>4. CASE UNCHANGED vars
  BY <1>4 DEF vars, CopyInv, RomMatchesView
<1> QED BY <1>1, <1>2, <1>3, <1>4 DEF Next

\* For every cartridge, table size and history of widths and stages, the guest
\* executes a function of the cartridge and of this frame: its windows widened
\* once by this frame's margin if the census matched, its spawn stream at this
\* frame's frontier if the signature did (x2_rtl.c:525-557 and 733-747).
THEOREM RomWindowsView ==
  ASSUME Apart
  PROVE  Spec => []RomMatchesView
<1>1. CopyInv => RomMatchesView
  BY DEF CopyInv
<1>2. CopyInv /\ [Next]_vars => CopyInv'
  BY NextCopy
<1> QED BY <1>1, <1>2, InitCopy, PTL DEF Spec

-----------------------------------------------------------------------------
(***************************************************************************)
(* What the census of a supported cartridge is expected to be: the scan      *)
(* depends on the cartridge's code, so these are hypotheses about the        *)
(* cartridges, which TLC evaluates for small ones.                           *)
(***************************************************************************)
\* The table has the operand at o, with its authored value and this scale, and
\* no other entry shares a byte with it.
Listed(c, o, scale) ==
  /\ {o, o + 1} \subseteq 0..Size - 1
  /\ \E n \in DOMAIN ScanRomImms(c) :
       /\ ScanRomImms(c)[n] = [operand |-> o, base |-> U16(c, o), margin_scale |-> scale]
       /\ \A k \in DOMAIN ScanRomImms(c) \ {n} :
            ScanRomImms(c)[k].operand \notin {o - 1, o, o + 1}

\* The constants and the native edges of the four forms.
SymmetricForm(c, w) ==
  /\ U16(c, w.add) \in 0..\h140 /\ U16(c, w.limit) = \h100 + 2 * U16(c, w.add)
  /\ w.left = 0 - U16(c, w.add) /\ w.right = 256 + U16(c, w.add)

DistanceForm(c, w) ==
  /\ U16(c, w.add) = \h80 /\ U16(c, w.limit) = \h1C0 /\ w.bias \in 0..255
  /\ w.left = 128 + w.bias - 447 /\ w.right = 129 + w.bias

TriggerForm(c, w) == U16(c, w.add) \in TriggerAdds /\ w.right = U16(c, w.add)

Form(c, w) ==
  \/ w.form \in {"window", "box"} /\ SymmetricForm(c, w)
  \/ w.form = "distance" /\ DistanceForm(c, w)
  \/ w.form = "trigger" /\ TriggerForm(c, w)

\* Every window is of one of the forms, and the table has its operands.
AllListed ==
  \A c \in Carts : Census(c) =>
    \A w \in Authored[c] :
      /\ Listed(c, w.add, 1)
      /\ w.form # "trigger" => Listed(c, w.limit, 2)
      /\ Form(c, w)

\* An operand that no other entry touches holds its new value
\* (x2_rtl.c:738-744, low byte first).
LEMMA OperandPatched ==
  ASSUME NEW c, NEW t, NEW m \in Nat, NEW o \in Int, {o, o + 1} \subseteq DOMAIN c,
         NEW base \in Nat, NEW scale \in Nat, base + scale * m < 65536,
         NEW n \in DOMAIN t \cap Int,
         t[n] = [operand |-> o, base |-> base, margin_scale |-> scale],
         \A k \in DOMAIN t \ {n} : t[k].operand \notin {o - 1, o, o + 1}
  PROVE  U16(Patched(c, t, m), o) = base + scale * m
<1> DEFINE v == base + scale * m
<1>1. Value(t[n], m) = v
  BY DEF Value
<1>2. Writers(t, o) = {n} /\ Writers(t, o + 1) = {n}
  BY DEF Writers
<1>3. LastWriter(t, o) = n /\ LastWriter(t, o + 1) = n
  <2>1. n <= n
    OBVIOUS
  <2>2. \A p \in {n} : (\A q \in {n} : q <= p) /\ p = n
    BY <2>1
  <2> QED BY <1>2, <2>2 DEF LastWriter
<1>4. Written(t, o, m) = v % 256 /\ Written(t, o + 1, m) = v \div 256
  BY <1>1, <1>3 DEF Written, ByteAt
<1>5. Patched(c, t, m)[o] = v % 256 /\ Patched(c, t, m)[o + 1] = v \div 256
  <2>1. o \in DOMAIN c /\ o + 1 \in DOMAIN c
    OBVIOUS
  <2>2. Writers(t, o) # {} /\ Writers(t, o + 1) # {}
    <3>1. n \in Writers(t, o) /\ n \in Writers(t, o + 1)
      BY DEF Writers
    <3> QED BY <3>1
  <2>3. \A a \in DOMAIN c : Writers(t, a) # {} => Patched(c, t, m)[a] = Written(t, a, m)
    BY DEF Patched
  <2> QED BY <1>4, <2>1, <2>2, <2>3
<1>6. v \in Nat
  OBVIOUS
<1> HIDE DEF v
<1>7. v = (v % 256) + 256 * (v \div 256)
  BY <1>6
<1>8. U16(Patched(c, t, m), o) = v
  BY <1>5, <1>7 DEF U16
<1> QED BY <1>8 DEF v

\* A listed operand is none of the sites of the spawn stream.
LEMMA ListedApart ==
  ASSUME Apart, NEW c \in Carts, Census(c), NEW o, NEW scale, Listed(c, o, scale)
  PROVE  o \in Nat /\ \A a \in {o, o + 1} : a - StreamAt \notin StreamSites
<1>0. PICK t : t = ScanRomImms(c)
  OBVIOUS
<1>1. PICK n \in DOMAIN t : t[n] = [operand |-> o, base |-> U16(c, o), margin_scale |-> scale]
  BY <1>0 DEF Listed
<1>2. o \in Nat
  <2>1. t \in Seq([operand : Nat, base : Nat, margin_scale : {1, 2}])
    BY <1>0 DEF Apart
  <2> QED BY <1>1, <2>1, EntryOperand
<1>3. \A k \in Compared : StreamAt + k \notin {o, o + 1}
  BY <1>0, <1>1 DEF Apart
<1>4. ASSUME NEW a \in {o, o + 1}, a - StreamAt \in StreamSites PROVE FALSE
  <2>1. a \in Nat /\ StreamAt \in Nat
    BY <1>2, RomWindowsAssumption
  <2>2. a - StreamAt \in Compared
    BY <1>4 DEF StreamSites, Compared
  <2>3. StreamAt + (a - StreamAt) = a
    BY <2>1
  <2> QED BY <1>3, <1>4, <2>2, <2>3
<1> QED BY <1>2, <1>4

\* OperandPatched for an operand that the table of a supported cartridge lists,
\* in a copy whose spawn stream is patched as well.
LEMMA ListedPatched ==
  ASSUME Apart, NEW c \in Carts, Census(c), NEW e, NEW m \in Nat, m <= 4127, NEW o, NEW scale \in {1, 2}, Listed(c, o, scale),
         NEW base \in Nat, base = U16(c, o), base <= 1000
  PROVE  U16(View(c, ScanRomImms(c), m, e), o) = base + scale * m
<1>0. PICK t : t = ScanRomImms(c)
  OBVIOUS
<1>1. PICK n \in DOMAIN t :
        /\ t[n] = [operand |-> o, base |-> U16(c, o), margin_scale |-> scale]
        /\ \A k \in DOMAIN t \ {n} : t[k].operand \notin {o - 1, o, o + 1}
  BY <1>0 DEF Listed
<1>2. DOMAIN t \subseteq Int
  BY <1>0 DEF Apart
<1>3. o \in Int /\ {o, o + 1} \subseteq DOMAIN c
  <2>2. o \in Nat
    BY ListedApart
  <2>3. DOMAIN c = 0..Size - 1
    BY RomWindowsAssumption
  <2>4. {o, o + 1} \subseteq 0..Size - 1
    BY DEF Listed
  <2> QED BY <2>2, <2>3, <2>4
<1>5. base + scale * m < 65536 /\ m \in Nat /\ scale \in Nat /\ base \in Nat
  OBVIOUS
<1>6. t[n] = [operand |-> o, base |-> base, margin_scale |-> scale]
  BY <1>1
<1>7. U16(Patched(c, t, m), o) = base + scale * m
  <2>1. n \in DOMAIN t \cap Int /\ o \in Int
    BY <1>2, <1>3
  <2> QED BY <2>1, <1>1, <1>3, <1>5, <1>6, OperandPatched
<1>8. PICK p : p = Patched(c, t, m)
  OBVIOUS
<1>9. View(c, t, m, e) = p \/ View(c, t, m, e) = StreamPatched(p, e)
  BY <1>0, <1>8 DEF View, WindowsAt, Census
<1>10. U16(StreamPatched(p, e), o) = U16(p, o)
  <2>1. DOMAIN p = DOMAIN c
    BY <1>8 DEF Patched
  <2>2. \A a \in {o, o + 1} : a \in DOMAIN p /\ a - StreamAt \notin StreamSites
    BY <1>3, <2>1, ListedApart
  <2>3. \A a \in {o, o + 1} : StreamPatched(p, e)[a] = p[a]
    BY <2>2 DEF StreamPatched
  <2> QED BY <2>3 DEF U16
<1> QED BY <1>0, <1>7, <1>8, <1>9, <1>10

\* OperandsWidened on both sides: the unsigned comparison of a window, within the 16-bit
\* world.
LEMMA WindowWidens ==
  ASSUME NEW k \in Nat, k <= 320, NEW m \in Nat, m <= 4127,
         NEW dx \in Int, -32768 <= dx, dx <= 32767
  PROVE  (dx + (k + m)) % 65536 < 256 + 2 * k + 2 * m <=> -k - m <= dx /\ dx < 256 + k + m
OBVIOUS

\* The same for the distance from the camera to the object.
LEMMA DistanceWidens ==
  ASSUME NEW bias \in Nat, bias <= 255, NEW m \in Nat, m <= 4127,
         NEW dx \in Int, -32768 <= dx, dx <= 32767
  PROVE  ((128 + m) - dx + bias) % 65536 < 448 + 2 * m
           <=> 128 + bias - 447 - m <= dx /\ dx < 129 + bias + m
OBVIOUS

\* CopyInv in every state of every session.
LEMMA CopyInvariant ==
  ASSUME Apart
  PROVE  Spec => []CopyInv
<1>1. CopyInv /\ [Next]_vars => CopyInv'
  BY NextCopy
<1> QED BY <1>1, InitCopy, PTL DEF Spec

\* Distances in the 16-bit world.
ProbesAreSmall == \A dx \in Probes : dx \in Int /\ -32768 <= dx /\ dx <= 32767

\* The image has the operands of w widened by the margin m.
OperandsWidened(image, c, w, m) ==
  /\ U16(image, w.add) = U16(c, w.add) + m
  /\ w.form # "trigger" => U16(image, w.limit) = U16(c, w.limit) + 2 * m

\* What EdgesWiden says of one window and one distance.
Reaches(image, w, m, dx) ==
  Accepts(image, w, dx) <=>
    /\ w.form = "trigger" \/ dx >= w.left - m
    /\ dx < w.right + m

\* What each form of window accepts when its operands are widened.
LEMMA FormWidens ==
  ASSUME NEW c \in Carts, NEW w, NEW image, NEW m \in Nat, m <= 4127,
         NEW dx \in Int, -32768 <= dx, dx <= 32767,
         OperandsWidened(image, c, w, m), Form(c, w)
  PROVE  Reaches(image, w, m, dx)
<1>1. CASE w.form = "window" /\ SymmetricForm(c, w)
  <2>1. PICK k \in Nat : k = U16(c, w.add) /\ k <= 320
    BY <1>1 DEF SymmetricForm
  <2>2. /\ U16(image, w.add) = k + m /\ U16(image, w.limit) = 256 + 2 * k + 2 * m
        /\ w.left = 0 - k /\ w.right = 256 + k
    BY <1>1, <2>1 DEF SymmetricForm, OperandsWidened
  <2>3. Accepts(image, w, dx) <=> (dx + (k + m)) % 65536 < 256 + 2 * k + 2 * m
    BY <1>1, <2>2 DEF Accepts
  <2>4. Accepts(image, w, dx) <=> -k - m <= dx /\ dx < 256 + k + m
    BY <2>1, <2>3, WindowWidens
  <2> QED BY <1>1, <2>2, <2>4 DEF Reaches
<1>2. CASE w.form = "box" /\ SymmetricForm(c, w)
  <2>1. PICK k \in Nat : k = U16(c, w.add) /\ k <= 320
    BY <1>2 DEF SymmetricForm
  <2>2. /\ U16(image, w.add) = k + m /\ U16(image, w.limit) = 256 + 2 * k + 2 * m
        /\ w.left = 0 - k /\ w.right = 256 + k
    BY <1>2, <2>1 DEF SymmetricForm, OperandsWidened
  <2>3. Accepts(image, w, dx) <=> dx >= 0 - (k + m) /\ dx < 256 + 2 * k + 2 * m - (k + m)
    BY <1>2, <2>2 DEF Accepts
  <2> QED BY <1>2, <2>2, <2>3 DEF Reaches
<1>3. CASE w.form = "distance" /\ DistanceForm(c, w)
  <2>1. /\ U16(image, w.add) = 128 + m /\ U16(image, w.limit) = 448 + 2 * m
        /\ w.left = 128 + w.bias - 447 /\ w.right = 129 + w.bias
        /\ w.bias \in Nat /\ w.bias <= 255
    BY <1>3 DEF DistanceForm, OperandsWidened
  <2>2. Accepts(image, w, dx) <=> ((128 + m) - dx + w.bias) % 65536 < 448 + 2 * m
    BY <1>3, <2>1 DEF Accepts
  <2>3. PICK bias \in Nat : bias = w.bias /\ bias <= 255
    BY <2>1
  <2>4. Accepts(image, w, dx) <=> 128 + bias - 447 - m <= dx /\ dx < 129 + bias + m
    BY <2>2, <2>3, DistanceWidens
  <2> QED BY <1>3, <2>1, <2>3, <2>4 DEF Reaches
<1>4. CASE w.form = "trigger" /\ TriggerForm(c, w)
  <2>1. Accepts(image, w, dx) <=> dx < U16(image, w.add)
    BY <1>4 DEF Accepts
  <2> QED BY <1>4, <2>1 DEF TriggerForm, OperandsWidened, Reaches
<1> QED BY <1>1, <1>2, <1>3, <1>4 DEF Form

\* The constants of the forms are small.
LEMMA FormSmall ==
  ASSUME NEW c, NEW w,
         Form(c, w)
  PROVE  /\ U16(c, w.add) \in Nat /\ U16(c, w.add) <= 1000
         /\ w.form # "trigger" => U16(c, w.limit) \in Nat /\ U16(c, w.limit) <= 1000
<1>1. CASE w.form \in {"window", "box"} /\ SymmetricForm(c, w)
  <2>1. PICK k \in Nat : k = U16(c, w.add) /\ k <= 320
    BY <1>1 DEF SymmetricForm
  <2>2. U16(c, w.limit) = 256 + 2 * k
    BY <1>1, <2>1 DEF SymmetricForm
  <2> QED BY <2>1, <2>2
<1>2. CASE w.form = "distance" /\ DistanceForm(c, w)
  BY <1>2 DEF DistanceForm
<1>3. CASE w.form = "trigger" /\ TriggerForm(c, w)
  BY <1>3 DEF TriggerForm, TriggerAdds
<1> QED BY <1>1, <1>2, <1>3 DEF Form

\* The margin of any gutter.
LEMMA MarginBounded ==
  ASSUME NEW e \in Extras
  PROVE  Margin(e) \in Nat /\ Margin(e) <= 4127
<1>1. e \in Nat /\ e <= 4095
  BY RomWindowsAssumption
<1> QED BY <1>1 DEF Margin

\* In a cartridge whose census is right each window of the program is wider by
\* the margin, on the left and on the right, whatever its form, whatever the
\* widths of the frames before were and whatever is written to the spawn stream.
THEOREM RomEdgesWiden ==
  ASSUME Apart, AllListed, ProbesAreSmall
  PROVE  Spec => []EdgesWiden
<1>1. CopyInv => EdgesWiden
  <2> SUFFICES ASSUME CopyInv, pc = "guest", Supported,
                      NEW w \in Authored[cart], NEW dx \in Probes
               PROVE  Accepts(rom, w, dx) <=>
                        /\ w.form = "trigger" \/ dx >= w.left - Margin(extra)
                        /\ dx < w.right + Margin(extra)
    BY DEF EdgesWiden
  <2>1. PICK c, m, e, image :
          c = cart /\ m = Margin(extra) /\ e = Frontier(extra, held) /\ image = rom
    OBVIOUS
  <2>2. c \in Carts /\ Census(c) /\ image = View(c, ScanRomImms(c), m, e)
    <3>1. rom = View(cart, imms, Margin(extra), Frontier(extra, held))
      BY DEF CopyInv, RomMatchesView
    <3>2. cart \in Carts /\ imms = ScanRomImms(cart) /\ Census(cart)
      BY DEF CopyInv, Supported, Census
    <3> QED BY <2>1, <3>1, <3>2
  <2>3. m \in Nat /\ m <= 4127
    BY <2>1, MarginBounded DEF CopyInv
  <2>4. /\ Listed(c, w.add, 1) /\ (w.form # "trigger" => Listed(c, w.limit, 2))
        /\ Form(c, w)
    BY <2>1, <2>2, Zenon DEF AllListed
  <2>5. U16(image, w.add) = U16(c, w.add) + m
    <3>1. PICK base \in Nat : base = U16(c, w.add) /\ base <= 1000
      BY <2>4, FormSmall
    <3>2. U16(View(c, ScanRomImms(c), m, e), w.add) = base + 1 * m
      BY <2>2, <2>3, <2>4, <3>1, ListedPatched
    <3> QED BY <2>2, <2>3, <3>1, <3>2
  <2>6. w.form # "trigger" => U16(image, w.limit) = U16(c, w.limit) + 2 * m
    <3> SUFFICES ASSUME w.form # "trigger" PROVE U16(image, w.limit) = U16(c, w.limit) + 2 * m
      OBVIOUS
    <3>1. PICK base \in Nat : base = U16(c, w.limit) /\ base <= 1000
      BY <2>4, FormSmall
    <3>2. U16(View(c, ScanRomImms(c), m, e), w.limit) = base + 2 * m
      BY <2>2, <2>3, <2>4, <3>1, ListedPatched
    <3> QED BY <2>2, <3>1, <3>2
  <2>7. dx \in Int /\ -32768 <= dx /\ dx <= 32767
    BY DEF ProbesAreSmall
  <2>8. OperandsWidened(image, c, w, m)
    BY <2>5, <2>6 DEF OperandsWidened
  <2>9. Reaches(image, w, m, dx)
    BY <2>2, <2>3, <2>4, <2>7, <2>8, FormWidens
  <2> QED BY <2>1, <2>9, Zenon DEF Reaches
<1>2. Spec => []CopyInv
  BY CopyInvariant
<1> QED BY <1>1, <1>2, PTL
=============================================================================

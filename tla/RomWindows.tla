----------------------------- MODULE RomWindows -----------------------------
(***************************************************************************)
(* src/x2_rtl.c, the viewport immediates of code run by the interpreter.     *)
(*                                                                           *)
(* Generated code widens the object windows by calling hooks.  Code that the *)
(* interpreter runs reads its constants from the cartridge, so the host      *)
(* looks once for instruction sequences that compare an object's X with the  *)
(* camera ($1E5D), keeps the address and the authored value of each operand  *)
(* in a table, and rewrites these operands before every frame.  The table is *)
(* used only if it has the size known for the supported revision.  The same  *)
(* call then writes the spawn-stream routine of that copy, which it          *)
(* recognises by a signature of its own.                                     *)
(***************************************************************************)
EXTENDS StreamRom, SequencesExt

CONSTANTS
  Size,         \* romSize
  Carts,        \* cartridge images
  Authored,     \* per image: the windows and triggers its code really has,
                \* with their native edges relative to the camera
  StreamAt,     \* where $00:DC50 is in an image
  ImmMax,       \* kX2WsRomImmMax, 64 in the code
  ImmExpected,  \* kX2WsRomImmExpected, 44 in the code
  Extras,       \* g_ws_extra, 0 when widescreen is off
  EnvSpawn,     \* SNESRECOMP_WS_SPAWN is not "0"
  Probes        \* bound: distances object - camera that EdgesWiden tries

ASSUME RomWindowsAssumption ==
  /\ Size \in Nat /\ StreamAt \in Nat
  /\ Carts \subseteq [0..Size - 1 -> 0..255]
  /\ ImmMax \in Nat /\ ImmExpected \in Nat /\ ImmExpected < ImmMax
  /\ Extras \subseteq 0..4095
  /\ EnvSpawn \in BOOLEAN

VARIABLES
  cart,         \* the image as it was loaded
  rom,          \* the private copy the interpreter executes
  imms,         \* s_x2_ws_rom_imms
  scanned,      \* s_x2_ws_rom_scanned
  valid,        \* s_x2_ws_rom_valid
  stream_scanned, stream_valid,     \* s_x2_ws_stream_scanned and _valid
  extra,        \* g_ws_extra
  held,         \* the guest is in the Boss Rush or near a guarded door
  pc            \* "host" between frames, "guest" while a frame runs

vars == <<cart, rom, imms, scanned, valid, stream_scanned, stream_valid, extra,
          held, pc>>

-----------------------------------------------------------------------------
(***************************************************************************)
(* Reading code.                                                             *)
(***************************************************************************)
U16(image, a) == image[a] + 256 * image[a + 1]

LoadCamera(image, a) == Has(image, a, <<\hAD, \h5D, \h1E>>)

\* x2_ws_rom_anchor_at(): the next camera load, of either axis.
AnchorAt(image, a) == LoadCamera(image, a) \/ Has(image, a, <<\hAD, \h60, \h1E>>)

NoAnchor(image, from, to) == \A a \in from..to : ~AnchorAt(image, a)

\* x2_ws_trigger_add()
TriggerAdds == {\h20, \h40, \h60, \h80, \hA0, \hC0, \h100, \h110, \h120, \h140}

Imm(image, a, scale) == [operand |-> a, base |-> U16(image, a), margin_scale |-> scale]

\* Mutant: both operands move by the margin, which shifts the window.
ShiftedWindow(image, add, limit) == <<Imm(image, add, 1), Imm(image, limit, 1)>>

\* A window is an offset and a length: the margin counts once and twice.
Window(image, add, limit) == <<Imm(image, add, 1), Imm(image, limit, 2)>>

Matching(image, add, limit) ==
  /\ U16(image, add) <= \h140
  /\ U16(image, limit) = \h100 + 2 * U16(image, add)

\* LDA dp+$05 / SBC $1E5D / CLC / ADC #add / CMP #limit, with a SEC or not.
SymmetricWindow(image, i) ==
  IF /\ Has(image, i, <<\hED, \h5D, \h1E, \h18, \h69>>) /\ image[i + 7] = \hC9
     /\ \/ image[i - 2] = \hA5 /\ image[i - 1] \in {\h05, \h33}
        \/ Has(image, i - 3, <<\hA5, \h05, \h38>>)
     /\ Matching(image, i + 5, i + 8)
  THEN Window(image, i + 5, i + 8) ELSE <<>>

\* Camera minus add to $08, plus limit to $06.
BoundingBox(image, i) ==
  IF /\ LoadCamera(image, i) /\ Has(image, i + 3, <<\h38, \hE9>>)
     /\ Has(image, i + 7, <<\h85, \h08, \h18, \h69>>)
     /\ Has(image, i + 13, <<\h85, \h06>>)
     /\ Matching(image, i + 5, i + 11)
  THEN Window(image, i + 5, i + 11) ELSE <<>>

\* Camera plus $80 minus object plus bias below $1C0.
Distance(image, i) ==
  IF /\ LoadCamera(image, i) /\ image[i + 3] = \h69
     /\ Has(image, i + 6, <<\h38, \hE5, \h05, \h18, \h69>>) /\ image[i + 13] = \hC9
     /\ U16(image, i + 4) = \h80 /\ U16(image, i + 14) = \h1C0
  THEN Window(image, i + 4, i + 14) ELSE <<>>

\* Camera plus a known distance, then a comparison with dp+$05, with no other
\* camera load in between: the first such ADC.
Trigger(image, i) ==
  LET Compared(j) == \E k \in (j + 3)..(j + 32) :
        k < i + 56 /\ NoAnchor(image, j + 3, k) /\ Has(image, k, <<\hC5, \h05>>)
      Lines == {j \in (i + 3)..(i + 47) :
        /\ NoAnchor(image, i + 3, j)
        /\ image[j] = \h69 /\ U16(image, j + 1) \in TriggerAdds
        /\ Compared(j)}
  IN IF LoadCamera(image, i) /\ Lines # {}
     THEN <<Imm(image, (CHOOSE j \in Lines : \A l \in Lines : j <= l) + 1, 1)>>
     ELSE <<>>

\* What the body of the scan's loop adds at i, in order.
Claims(image, i) ==
  SymmetricWindow(image, i) \o BoundingBox(image, i) \o Distance(image, i)
    \o Trigger(image, i)

\* x2_ws_add_rom_imm(): an operand is listed once, as it was claimed first.
AddRomImm(table, imm) ==
  IF \/ \E n \in DOMAIN table : table[n].operand = imm.operand
     \/ Len(table) >= ImmMax
  THEN table ELSE Append(table, imm)

\* x2_scan_ws_rom_imms(): i from 3 while i + 64 < size.
ScanRomImms(image) ==
  LET hits == SelectSeq([n \in 1..(Size - 67) |-> n + 2], LAMBDA i : Claims(image, i) # <<>>)
  IN  FoldLeft(AddRomImm, <<>>, FlattenSeq([n \in DOMAIN hits |-> Claims(image, hits[n])]))

-----------------------------------------------------------------------------
(***************************************************************************)
(* Writing operands.                                                         *)
(***************************************************************************)
\* x2_ws_spawn_margin()
Margin(gutter) == IF ~EnvSpawn \/ gutter = 0 THEN 0 ELSE gutter + 32

Value(imm, m) == (imm.base + imm.margin_scale * m) % 65536

\* The entries of the table that write the byte at a.
Writers(table, a) == {n \in DOMAIN table : table[n].operand \in {a, a - 1}}

\* The loop of x2_patch_ws_interp_obj_windows() writes the table in order: the
\* last writer decides.
LastWriter(table, a) ==
  CHOOSE n \in Writers(table, a) : \A o \in Writers(table, a) : o <= n

\* Low byte at the operand, high byte behind it.
ByteAt(operand, a, value) == IF operand = a THEN value % 256 ELSE value \div 256

Written(table, a, m) ==
  LET imm == table[LastWriter(table, a)] IN ByteAt(imm.operand, a, Value(imm, m))

\* Mutant: the margin is added to what the operand holds now.
PatchedAgain(image, table, m) ==
  [a \in DOMAIN image |->
    IF Writers(table, a) = {} THEN image[a]
    ELSE LET imm == table[LastWriter(table, a)]
         IN ByteAt(imm.operand, a,
                   (U16(image, imm.operand) + imm.margin_scale * m) % 65536)]

Patched(image, table, m) ==
  [a \in DOMAIN image |->
    IF Writers(table, a) = {} THEN image[a] ELSE Written(table, a, m)]

\* x2_scan_ws_spawn_stream()
HoldsStream(image) == StreamAt + StreamLength <= Size /\ IsStream(image, StreamAt)

\* The frontier beyond the native one (x2_ws_spawn_stream_left_extra()).
Frontier(gutter, native) == IF native THEN 0 ELSE RoundOut(Margin(gutter))

\* The sites of the routine that are written, by their offset in it.
StreamSites == \h20..\h26 \cup \h3B..\h3C \cup \h7D..\h7E \cup \h82..\h83

StreamByte(p, o) ==
  CASE o \in \h20..\h26 -> p.left_arm[o - \h20 + 1]
    [] o \in \h3B..\h3C -> p.right[o - \h3B + 1]
    [] o \in \h7D..\h7E -> p.grid[o - \h7D + 1]
    [] o \in \h82..\h83 -> p.columns[o - \h82 + 1]

\* Mutant: a site that is native already is left as it is, so that a frame with
\* bars keeps the frontier of the wide one before it.
StreamPatchedIfWide(image, e) ==
  [a \in DOMAIN image |->
    IF a - StreamAt \in StreamSites /\ e # 0 THEN StreamByte(StreamPatch(e), a - StreamAt)
    ELSE image[a]]

StreamPatched(image, e) ==
  [a \in DOMAIN image |->
    IF a - StreamAt \in StreamSites THEN StreamByte(StreamPatch(e), a - StreamAt)
    ELSE image[a]]

Init ==
  /\ cart \in Carts /\ rom = cart
  /\ imms = <<>> /\ scanned = FALSE /\ valid = FALSE
  /\ stream_scanned = FALSE /\ stream_valid = FALSE
  /\ extra \in Extras /\ held \in BOOLEAN /\ pc = "host"

\* The host's frame preparation: a window, a menu or a room changed the width.
SetView ==
  /\ pc = "host"
  /\ \E e \in Extras \ {extra} : extra' = e
  /\ UNCHANGED <<cart, rom, imms, scanned, valid, stream_scanned, stream_valid,
                 held, pc>>

\* x2_patch_ws_interp_spawn_stream() in a copy whose windows are those of the
\* image: scanned there once, written there whenever the signature was right.
PatchStream(image) ==
  /\ stream_valid' = IF stream_scanned THEN stream_valid ELSE HoldsStream(image)
  /\ stream_scanned' = TRUE
  /\ rom' = IF stream_valid' THEN StreamPatched(image, Frontier(extra, held)) ELSE image

\* Mutant: any table that is not full is used.
PatchAnyTable ==
  /\ pc = "host"
  /\ imms' = IF scanned THEN imms ELSE ScanRomImms(rom)
  /\ valid' = (Len(imms') < ImmMax)
  /\ scanned' = TRUE
  /\ PatchStream(IF valid' THEN Patched(rom, imms', Margin(extra)) ELSE rom)
  /\ pc' = "guest"
  /\ UNCHANGED <<cart, extra, held>>

\* The first x2_patch_ws_interp_obj_windows() scans the copy, and every one
\* patches the windows if the census is right; then the spawn stream.
PatchObjWindows ==
  /\ pc = "host"
  /\ imms' = IF scanned THEN imms ELSE ScanRomImms(rom)
  /\ valid' = (Len(imms') = ImmExpected)
  /\ scanned' = TRUE
  /\ PatchStream(IF valid' THEN Patched(rom, imms', Margin(extra)) ELSE rom)
  /\ pc' = "guest"
  /\ UNCHANGED <<cart, extra, held>>

\* The guest's frame reads the copy and never writes it; the stage and the
\* camera that decide about the frontier are the guest's.
GuestFrame ==
  /\ pc = "guest" /\ pc' = "host"
  /\ held' \in BOOLEAN
  /\ UNCHANGED <<cart, rom, imms, scanned, valid, stream_scanned, stream_valid, extra>>

Next == SetView \/ PatchObjWindows \/ GuestFrame

Spec == Init /\ [][Next]_vars

-----------------------------------------------------------------------------
(***************************************************************************)
(* Properties.                                                               *)
(***************************************************************************)
WindowsAt(c, table, m) ==
  IF Len(table) = ImmExpected THEN Patched(c, table, m) ELSE c

\* The cartridge for a frame with margin m and frontier e: what the census of
\* its windows and the signature of its spawn stream allow, independently.
View(c, table, m, e) ==
  IF HoldsStream(c) THEN StreamPatched(WindowsAt(c, table, m), e) ELSE WindowsAt(c, table, m)

\* What the guest executes is a function of the cartridge and of this frame,
\* whatever the widths and the frontiers of the frames before: windows widened
\* once if the census matched, the spawn stream at this frame's frontier if
\* its signature did, and nothing else (x2_patch_ws_interp_obj_windows).
RomMatchesView ==
  pc = "guest" => rom = View(cart, imms, Margin(extra), Frontier(extra, held))

\* Does the code of w accept an object dx pixels right of the camera?
Accepts(image, w, dx) ==
  CASE w.form = "window"   -> (dx + U16(image, w.add)) % 65536 < U16(image, w.limit)
    [] w.form = "box"      -> /\ dx >= 0 - U16(image, w.add)
                              /\ dx < U16(image, w.limit) - U16(image, w.add)
    [] w.form = "distance" -> (U16(image, w.add) - dx + w.bias) % 65536 < U16(image, w.limit)
    [] w.form = "trigger"  -> dx < U16(image, w.add)

Supported == Len(ScanRomImms(cart)) = ImmExpected

\* In a supported image every window of the program accepts exactly the objects
\* from its native left edge less the margin to its native right edge plus the
\* margin; a trigger has only a right edge (x2_rtl.c:559-568 and the four forms
\* of x2_scan_ws_rom_imms).
EdgesWiden ==
  pc = "guest" /\ Supported =>
    \A w \in Authored[cart], dx \in Probes :
      Accepts(rom, w, dx) <=>
        /\ w.form = "trigger" \/ dx >= w.left - Margin(extra)
        /\ dx < w.right + Margin(extra)

Operands(w) ==
  IF w.form = "trigger" THEN {w.add, w.add + 1}
  ELSE {w.add, w.add + 1, w.limit, w.limit + 1}

\* No byte ever differs from the cartridge but the operands of the program's
\* windows, if it is the supported program, and the four sites of the spawn
\* stream, if it has that routine (x2_rtl.c:507-514 and 709-717).
OnlyKnownSitesChange ==
  \A a \in 0..Size - 1 : rom[a] # cart[a] =>
    \/ Supported /\ \E w \in Authored[cart] : a \in Operands(w)
    \/ HoldsStream(cart) /\ a - StreamAt \in StreamSites
=============================================================================

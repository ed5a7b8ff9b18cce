---------------------------- MODULE SpawnStream ----------------------------
(***************************************************************************)
(* src/x2_rtl.c, the widescreen object windows and the dynamic record        *)
(* frontier.                                                                 *)
(*                                                                           *)
(* The guest's routine $00:DC50 walks the level's object records by 32-pixel *)
(* columns: one column at the frontier the camera moves towards, and all of  *)
(* them in a sweep.  A record whose column is walked is allocated, once, as  *)
(* an object, which then lives by the window checks of bank 00.  The code    *)
(* widens both, either through hooks called by generated code or by patching *)
(* operands of the private ROM copy at the start of each host frame.         *)
(*                                                                           *)
(* DC50, DCE9 and the camera are external: they are modelled from the        *)
(* instruction bytes in the signature that x2_scan_ws_spawn_stream compares  *)
(* and from the comments beside it.                                          *)
(***************************************************************************)
EXTENDS StreamRom

CONSTANTS
  Body,         \* the bytes of the loaded cartridge from $00:DC50 on
  Stages,       \* pairs of $1FAD (stage) and $1FAE (variant)
  Extras,       \* g_ws_extra: pixels per gutter, 0 when widescreen is off
  EnvSpawn,     \* SNESRECOMP_WS_SPAWN is not "0"
  Cameras,      \* bound: positions of the camera
  ResizeAt,     \* bound: positions of the camera where the window is resized
  Moves,        \* pixels the camera moves in a frame
  RecordXs,     \* world X of the level's object records
  Tiers         \* "generated" and "interpreter"

ASSUME SpawnAssumption ==
  /\ \A e \in Extras : e \in Nat /\ e < 4096
  /\ EnvSpawn \in BOOLEAN
  /\ Body \in Seq(0..255)
  /\ \A x \in Cameras \cup RecordXs : x \in Nat /\ x < 65536
  /\ \A d \in Moves : d \in Int /\ -31 <= d /\ d <= 31
  /\ Tiers \subseteq {"generated", "interpreter"}

VARIABLES
  stage,                \* fixed while it is played
  extra,                \* the gutter of the current frame width
  grown,                \* the gutters became wider in this stage
  camera, previous,     \* $1E5D and $1E7A
  rom,                  \* s_x2_ws_stream_rom: the four patched sites of DC50
  allocated,            \* records consumed by the walker
  pc

vars == <<stage, extra, grown, camera, previous, rom, allocated, pc>>

Wrap(n) == n % 65536
Column(x) == x - (x % 32)     \* AND #$FFE0

-----------------------------------------------------------------------------
(***************************************************************************)
(* Margins and hooks.                                                        *)
(***************************************************************************)
\* x2_ws_spawn_margin(): the gutter and 32 pixels of slack.
Margin == IF ~EnvSpawn \/ extra = 0 THEN 0 ELSE extra + 32

\* The actor behind a door that must not be allocated before the door.
DoorActorX ==
  CASE stage[1] = 10 -> 2624                      \* $0A40, Serges' platform
    [] stage[1] = 5 /\ stage[2] = 4 -> 3704       \* $0E78, Zero
    [] OTHER -> 0

\* Mutant: the native frontier, not the widened one, starts the protection.
DoorGuardNative(c) == DoorActorX # 0 /\ c <= DoorActorX /\ c + 256 >= DoorActorX

DoorGuard(c) ==
  /\ DoorActorX # 0
  /\ c <= DoorActorX
  /\ c + 256 + RoundOut(Margin) >= DoorActorX

\* x2_ws_spawn_stream_left_extra() and ..._right_extra(), which are equal; the
\* Boss Rush (stage $0C) streams natively.
StreamExtra(c) ==
  IF stage[1] = 12 \/ DoorGuard(c) THEN 0 ELSE RoundOut(Margin)

StreamLeft(c) == Wrap(c - StreamExtra(c))
StreamRightAdd(c) == 256 + StreamExtra(c)

StreamGridPad(c) == GridPad(StreamExtra(c))
StreamColumns(c) == GridColumns(StreamExtra(c))

\* Object windows: objX - camera + add < limit, unsigned.
ObjWinAdd(base) == Wrap(base + Margin)

\* Mutant: the limit grows by one margin, so that the window only moves.
ObjWinLimitOnce(base) == Wrap(base + Margin)

ObjWinLimit(base) == Wrap(base + 2 * Margin)

Activated(x, c) == Wrap(x - c + ObjWinAdd(64)) < ObjWinLimit(384)    \* $00:D813

-----------------------------------------------------------------------------
(***************************************************************************)
(* x2_scan_ws_spawn_stream() and x2_patch_ws_interp_spawn_stream(): the same *)
(* in the operands of the ROM copy, if it holds the supported routine.       *)
(***************************************************************************)
Valid == Len(Body) >= StreamLength /\ IsStream(Body, 1)

Site(offset, n) == SubSeq(Body, offset + 1, offset + n)
Loaded == [left_arm |-> Site(\h20, 7), right |-> Site(\h3B, 2),
           grid |-> Site(\h7D, 2), columns |-> Site(\h82, 2)]

Value(bytes) == bytes[1] + 256 * bytes[2]

\* Mutant: the SBC of the left arm is taken to start with carry set.
PatchCarrySet ==
  LET e == StreamExtra(camera)
  IN  IF Valid /\ e # 0 THEN [StreamPatch(e) EXCEPT !.left_arm = SbcArm(e)]
      ELSE StreamPatch(e)

Patch == IF Valid THEN StreamPatch(StreamExtra(camera)) ELSE Loaded

\* What the guest computes with those bytes at camera c.  The original arm
\* reads the camera again.  The patched one arrives with A = Column(c) and
\* C = 0, so that SBC subtracts one more, and rejoins at $DC8D.
RomLeft(c) ==
  IF rom.left_arm = LeftArm THEN c
  ELSE Wrap(Column(c) - Value(SubSeq(rom.left_arm, 2, 3)) - 1)
RomRight(c) == Wrap(c + Value(rom.right))

\* The column probed when the camera moved left or right, per tier, and the
\* columns of a sweep.
ProbeLeft(tier, c) == Column(IF tier = "generated" THEN StreamLeft(c) ELSE RomLeft(c))
ProbeRight(tier, c) ==
  Column(IF tier = "generated" THEN Wrap(c + StreamRightAdd(c)) ELSE RomRight(c))
SweepColumns(tier, c) ==
  LET pad == IF tier = "generated" THEN StreamGridPad(c) ELSE Value(rom.grid)
      n   == IF tier = "generated" THEN StreamColumns(c) ELSE Value(rom.columns)
  IN  {Wrap(Column(Wrap(c - pad)) + 32 * i) : i \in 0..n-1}

-----------------------------------------------------------------------------
(***************************************************************************)
(* A stage is entered with a sweep, then frames are played.                  *)
(***************************************************************************)
Walk(columns) ==
  allocated' = allocated \cup {x \in RecordXs : Column(x) \in columns}

Init ==
  /\ stage \in Stages /\ extra \in Extras /\ grown = FALSE
  /\ camera \in Cameras /\ previous = camera
  /\ rom = Patch
  /\ allocated = {}
  /\ pc = "enter"

Enter(tier) ==
  /\ pc = "enter"
  /\ Walk(SweepColumns(tier, camera))
  /\ pc' = "idle"
  /\ UNCHANGED <<stage, extra, grown, camera, previous, rom>>

\* Between two frames the window is resized or another aspect is chosen, and
\* the host shapes the next frame with other gutters.
Resize(e) ==
  /\ pc = "idle" /\ camera \in ResizeAt /\ e # extra
  /\ extra' = e
  /\ grown' = (grown \/ e > extra)
  /\ UNCHANGED <<stage, camera, previous, rom, allocated, pc>>

\* RunOneFrameOfGame() patches the ROM copy before the guest runs.
FrameStart ==
  /\ pc = "idle"
  /\ rom' = Patch
  /\ pc' = "guest"
  /\ UNCHANGED <<stage, extra, grown, camera, previous, allocated>>

MoveCamera(d) ==
  /\ pc = "guest" /\ camera + d \in Cameras
  /\ previous' = camera
  /\ camera' = camera + d
  /\ pc' = "stream"
  /\ UNCHANGED <<stage, extra, grown, rom, allocated>>

\* DC50: the column at the frontier, when the camera entered another column.
Stream(tier) ==
  /\ pc = "stream"
  /\ CASE Column(camera) > Column(previous) -> Walk({ProbeRight(tier, camera)})
       [] Column(camera) < Column(previous) -> Walk({ProbeLeft(tier, camera)})
       [] OTHER -> UNCHANGED allocated
  /\ pc' = "idle"
  /\ UNCHANGED <<stage, extra, grown, camera, previous, rom>>

\* DC50 after the camera entered another row.
Sweep(tier) ==
  /\ pc = "stream"
  /\ Walk(SweepColumns(tier, camera) \cup
          IF Column(camera) < Column(previous) THEN {ProbeLeft(tier, camera)}
          ELSE IF Column(camera) > Column(previous) THEN {ProbeRight(tier, camera)}
          ELSE {})
  /\ pc' = "idle"
  /\ UNCHANGED <<stage, extra, grown, camera, previous, rom>>

Next ==
  \/ FrameStart
  \/ \E e \in Extras : Resize(e)
  \/ \E d \in Moves : MoveCamera(d)
  \/ \E tier \in Tiers : Enter(tier) \/ Stream(tier) \/ Sweep(tier)

Spec == Init /\ [][Next]_vars

-----------------------------------------------------------------------------
(***************************************************************************)
(* Properties.                                                               *)
(***************************************************************************)
\* Nothing pops in: between frames, every record within the gutters and the
\* wake slack beyond them has been allocated, whichever way the camera went and
\* whichever tier ran, as long as the gutters do not become wider on the way.
\* In the Boss Rush, where allocation is held back, the native view is what must
\* be covered; near a door even that may wait.
Reach == IF StreamExtra(camera) = 0 THEN 0 ELSE Margin
NoPopIn ==
  pc = "idle" /\ DoorActorX = 0 /\ ~grown =>
    \A x \in RecordXs :
      camera - Reach <= x /\ x < camera + 256 + Reach => x \in allocated

\* "Widen the anchor so enemies enter the world before the widescreen edge
\* reveals them": at the least, as in the unwidened game, a record that is in
\* the native view has been allocated, whatever happened to the window.
NativeViewPopulated ==
  pc = "idle" /\ DoorActorX = 0 =>
    \A x \in RecordXs : camera <= x /\ x < camera + 256 => x \in allocated

\* The generated hooks and the patched ROM walk the same columns: a routine
\* may run in either tier from one frame to the next.
TiersAgree ==
  pc = "guest" =>
    /\ ProbeLeft("generated", camera) = ProbeLeft("interpreter", camera)
    /\ ProbeRight("generated", camera) = ProbeRight("interpreter", camera)
    /\ SweepColumns("generated", camera) = SweepColumns("interpreter", camera)

\* An object is active from the frame in which the frontier allocates it: a
\* record is consumed only once, so one that is not would be lost.
AllocatedIsActive ==
  [][pc = "stream" => \A x \in allocated' \ allocated : Activated(x, camera)]_vars

\* "must be allocated after the preceding door has advanced the native
\* camera": before that camera has the actor behind it, its record - in the
\* Boss Rush every record - is consumed only when the native frontier, the
\* column of camera + $100, has reached its column.  This is about the hooks:
\* the operands in ROM are as old as the frame.
HookedWalk == Enter("generated") \/ Stream("generated") \/ Sweep("generated")
Encounters == IF stage[1] = 12 THEN RecordXs ELSE {DoorActorX} \cap RecordXs
EncounterWaits ==
  [][HookedWalk =>
       \A x \in Encounters \cap (allocated' \ allocated) :
         camera <= x => Column(x) <= Column(camera + 256)]_vars

=============================================================================

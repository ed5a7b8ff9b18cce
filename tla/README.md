# Formal models of MegaManX2Recomp

TLA+ models of the game-owned C code of this repository, the TLC runs that check
them on small instances, and theorems that TLAPS proves for every instance.

The repository is a thin, game-specific layer around a recompiler framework
(`snesrecomp`, a git submodule that is not part of the repository). What is
worth modelling is what that layer decides itself: when a machine is recorded,
replayed, booted, interrupted, saved and restored, and how far the level's
object stream is widened.

## 1. Inventory

| Component | Source | State it keeps | Operations |
|---|---|---|---|
| Replay recorder | `src/mmx_replay.c` | `enabled`, `failed`, `pending`, `recording`; `segment`, `oldest_segment`, `rows`; `next_frame`, `generation`, `recorded_load_sequence`; the byte ledger `segment_state_bytes`, `history_bytes`, `history_sizes[]` | `MmxReplayBegin` (`record_begin`, `start_segment`, `evict_segment`, `write_snapshot`), `MmxReplayEnd`, `MmxReplayEnable`, `MmxReplayClose`, `MmxReplayStateLoaded`, `MmxReplayShutdown` |
| Replay writer | framework, used by `src/mmx_replay.c` | bounded command queue, error latch, the files | `SnesReplayWriterBegin/Snapshot/Line/Frame/End/Remove/Error/Destroy` |
| Replay player | `src/mmx_replay.c`, `src/mmx_diagnostics_host.h` | `finished`, `failed`, `pending`, position in the tape, `playback_checkpointed`, `playback_rows`, exit status | `MmxReplayPlayback`, `load_playback`, `playback_begin`, playback half of `MmxReplayEnd`, `diagnostic_after_frame`, `MmxDiagnosticDesktopMain` |
| Report tool | `tools/replay_diagnostic.py` | none | `inspect`, `--until` |
| LLE frame driver | `src/x2_rtl.c` | `s_lle_did_reset`, `s_lle_resume_pc`, `s_lle_host_frames`, the bridge's deadline | `RunOneFrameOfGame`, `x2_run_nmi`, `x2_run_interrupt` |
| Save-state extras | `src/x2_rtl.c` | `s_lle_extra_loaded`, `s_execution_loaded` | `X2StateSaveExtra`, `X2StateLoadExtra`, `X2OnStateLoaded` |
| Object windows and record frontier | `src/x2_rtl.c` | patched operands of the private ROM copy | `X2WsObjWin*`, `X2WsSpawnStream*`, `x2_patch_ws_interp_spawn_stream` |
| Viewport immediates | `src/x2_rtl.c` | a table of operands, filled once; the private ROM copy | `x2_scan_ws_rom_imms`, `x2_patch_ws_interp_obj_windows` |
| HUD anchoring | `src/x2_rtl.c` | the renderer's ranges of slots | `X2ConfigureWsHud` |
| Background margins | `src/x2_rtl.c` | none | `X2ConfigureWsBgMargins` |
| Display geometry | `src/x2_display.c` | none; its caller keeps frame and window | frame width, viewport, stage scroll |
| Startup logging | `src/mmx_startup.c` | the process's descriptors and streams | `MmxStartupLogging`, both platforms |
| Volume control (not in the build, called by nothing) | `src/platform/win32/volume_control.c` | the COM apartment; the session is the system's | `InitializeCom`, `GetSimpleAudioVolume`, `Get/SetApplicationVolume`, `SetApplicationMuted` |
| Host glue, plugins, tools | `main.c`, `x2_cpu_infra.c`, `x2_spc_player.c`, `mods/`, `tools/` | small | tables, adapters, scripts |

### How they interact

* The framework's frame loop calls `MmxReplayBegin`, `RunOneFrameOfGame`,
  `MmxReplayEnd` in that order, on the game thread (`kX2GameInfo`).
* The recorder only queues commands; a worker thread applies them to files. The
  one thing that flows back is the error latch, read at the next frame or seen
  as a refused command.
* Loading a state calls `X2StateLoadExtra`, then `X2OnStateLoaded`, which tells
  the recorder (`MmxReplayStateLoaded`) and rebuilds the driver's cursor. The
  framework's `RtlStateGeneration` says the same for all loads but rollbacks.
* Player and recorder share one file format; the Python tool is a second reader
  of it and a producer (`--until`).
* A frame is shaped for the window (`x2_display.c`), which decides the gutters that
  the object windows, the frontier and the HUD use, and shown in the window as it
  is by then. Playback replaces the width by the recorded one.
* Every frame starts with `x2_patch_ws_interp_obj_windows`, so that guest code in
  the interpreter sees the frontier that generated code gets from the hooks.

### What is hard

* Two threads and a process that may die between any two commands.
* Evictions that fail half way while a byte ledger in a ring stays exact.
* Machine changes from outside (load, rollback, reset) that must not go unnoticed.
* A verdict, "all recorded checkpoints matched", that must be neither false nor
  missing for any tape, while reading the tape may fail at any row.
* Two readers of one format, one stricter than the other about how a row is written.
* A host cursor that is partly in the state file and partly derived.
* The same frontier computed by two tiers, in columns, beside per-pixel rules, with
  a margin that changes while a stage is played.
* Code patched in place sixty times a second, at places found by pattern, by two
  patchers that share one copy.
* A frame shaped for one window and shown in another.
* Streams taken from the system step by step, where any step fails.

`PROJECT.json` lists each hazard at its line with the properties that would
catch it going wrong.

## 2. Modules

| Module | Models | Kind |
|---|---|---|
| `Tape` | rows of a tape, a machine and its step; `Faithful`, the abstract meaning of a tape | definitions |
| `Archive` | what the recorder promises of the files: numbered faithful tapes, the newest grows, the oldest go | abstract specification |
| `ReplayWriter` | queue, worker, files (external) | component |
| `Recorder` | recording half of `mmx_replay.c` on top of `ReplayWriter`; `ArchiveSpec` is its refinement | component |
| `ReplayTool` | `inspect` and `--until` | definitions |
| `Player` | playback half of `mmx_replay.c` and the host hooks | component |
| `DiagnosticReplay` | `Recorder` + `ReplayWriter` + `INSTANCE Player`: record, exit or die, replay | composition |
| `LleFrame` | frame driver and save-state extras | component |
| `StreamRom` | the spawn-stream routine as bytes: its signature and its patched sites | definitions |
| `SpawnStream` | object windows and record frontier, both tiers, resized windows | component |
| `RomWindows` | the table of viewport immediates, and what every frame writes into the private copy: windows and spawn stream | component |
| `Display` | frame width and viewport while windows are resized; stage column of a scrolled line | component |
| `Presentation` | `Display` with the scene, the HUD's bars and the renderer's ranges: one frame from OAM to the window | composition |
| `StartupLogging` | console or log, and the descriptors, POSIX and Windows | component |
| `RecorderProofs` | sums, the ledger, the budget, flags; what a queue of commands promises | proofs |
| `RecorderArchiveProofs` | `Recorder` implements `Archive`, whose tapes are faithful; types, protocol, no frame lost, the bytes on disk; the composition with the player | proofs |
| `PlayerProofs` | the verdict | proofs |
| `LleFrameProofs`, `SpawnProofs`, `RomWindowsProofs` | cursor and length of a frame; record frontier; windows of the ROM | proofs |
| `PresentationProofs` | `Presentation` and the `Display` in it | proofs |
| `LoggingProofs` | descriptors and streams of `StartupLogging` | proofs |
| `MC*` | small instances for TLC; `MCStreamBody` is a routine that two of them put into their cartridges | instances |

Names are those of the code. Each action stands for one step of a handler
between two points where something else may happen; `map` in `PROJECT.json`
gives the lines of every definition.

### Recorder

`MmxReplayBegin` is a program counter `pc`: `begin` (decide), `start` (close the
old segment), `create` (advance `segment`), `retire` (evict until the new segment
has a ring slot), `open`, `checkpoint` (serialise), `room` (evict until the image
fits), `put` (the I row), `run`. Between any two of them the worker may take a
command, fail, or the process may die. Every command may be refused: because the
queue is full or because the worker failed before. `error()` and
`MmxReplayClose()` are translated with their callers: `error()` ignores the result
of `End`, `MmxReplayClose()` latches a failure.

A machine image is its machine, frame number and size; a machine is one of a
small set and `Step(machine, input, view)` an arbitrary function given by the
instance (`MixStep` depends on all three, so that starting from a wrong machine
shows). The five files of a segment are two: the tape and its images; the three
configuration sidecars only matter for a human reader. The system calls that
find a folder are one nondeterministic failure (`CannotStart`).

`Archive` is the abstract specification: a partial map from numbers to tapes. A tape
is created above all that are kept, grows by a row that continues it (an S row
together with its image), and disappears from the old end, the rows before the
images. The queue, the ledger, the flags and the program counter of the recorder are
not in it. The refinement mapping is plain: tapes are the files (`disk`) and the open
tape is the worker's (`openSeg`); what the game thread does to the queue is a stutter.

Two steps are larger than in the code: a tape that the worker has begun has its whole
header, and an image reaches the disk together with its S row. Death between the image
and the row would leave an image that no row names.

### Player

One action per call: open, load, the next row, a checkpoint row, an input row,
the frame, the verification with its one-byte look-ahead, the host's hook, exit.
`Disturb` is the player loading a state in the middle of a playback and
`CloseWindow` is closing the window. Any read may fail, and so may closing the files
(`io_error`, auxiliary): a failed read is a failed playback, never the end of the tape
(`ReadError`, `LookAhead`), and a playback that has verified its last frame still fails
when its files cannot be closed (`Finish`).

The report tool is a second reader of the rows and stricter than the first. It wants
exactly the fields that the recorder writes and the title line character by
character; the game's `sscanf()` takes what it needs from the beginning of a row. So
a tape says for each row whether the game can read it (kinds S, I, H, and X for one
that nobody can read, such as a blank one), which of the readable rows the tool
refuses all the same (`loose`), and whether the title line is exact (`banner`).
`InspectionAgrees` is about this difference: the game may replay what the tool refuses,
and only then.

How bytes become rows is not modelled: the text encoding, the characters other than
a newline that end a line for Python's `splitlines()`, and rows longer than the 256
bytes of the player's buffer. No recorder writes any of these.

### LleFrame

The guest is external: a run of it may advance the clock by any amount in `Advances`,
unless a deadline is set and stops it, at most `Overrun` clocks late (one instruction or
one DMA); it may wait or not, and leave interrupts, NMITIMEN and the IRQ line in any
state. There are three such runs, each with a step before and after it, because each
sets the deadline and clears it: a slice (`EnterGuest`, `LeaveGuest`), the NMI handler
(`EnterNmi`, `LeaveNmi`) and an IRQ handler (`EnterIrq`, `LeaveIrq`). `FrameCapped` is
what the three deadlines are for. `booting` is an auxiliary variable used only by
`NoNmiInBootFrame`. Three kinds of saved chunk are loaded: this build's, the older one without
execution state, and none.

### SpawnStream

`Stream` and `Sweep` are the guest's `$00:DC50`, modelled from the instruction
bytes in the signature that `x2_scan_ws_spawn_stream` compares and from the
comments beside it; each frame picks either tier. The signature, the saved operands
and the patch are bytes at their offsets (`StreamRom`), and `RomLeft` is what the
guest computes with those bytes, so that the one-off of the patched left arm (`SBC` with the carry
clear) is checked. `FrameStart` is the host's patch, `Resize` a window that becomes
wider or narrower between two frames; `grown` is an auxiliary variable that tells
`NoPopIn` that it became wider. The camera moves less than a column per frame
(`Moves`).

### RomWindows

`x2_patch_ws_interp_obj_windows` is one action, with the call it ends in
(`PatchStream`): the windows are written if the census is right, the spawn stream if
its signature is, each independently of the other and both into one copy. The frontier
is 0 in the Boss Rush and near a guarded door (`held`, the guest's choice), the margin of the
windows is not.

The scan is translated at the level of bytes, as the code is, and run on five
images of 372 bytes that `MCRomWindows` assembles from pieces of program and the
spawn-stream routine: the routine of the supported cartridge, one of another revision
(which must stay as it is), none, and one with a window in the gap between its
signatures. The other bytes of the routine are placeholders. Each
piece of program comes with the windows it really has (`Authored`), so that the runs compare
what the heuristic found with what there was: all four forms, a box whose limit is
also a trigger constant (claimed twice, with different scales), look-alikes on the
other axis, with another length, or cut by the next camera load, and images with
too few and too many windows. `ImmMax` and `ImmExpected` are constants with
`ImmExpected < ImmMax`, which the rejection of an overfull table depends on.

### Display, Presentation

`Display` computes the width at `BeginFrame` and the viewport at `Present`, and
`Resize` may come between. The code's doubles are exact fractions here; where the
exact value ends in one half, either neighbour is allowed (`Rounded`). Both give the
same viewports except at such halves. `ExpandStageScroll` is a function of a camera
and a scroll register; a line's register is the camera plus an offset below half a
page.

`Presentation` extends it with what happens in between: the guest leaves a scene in
OAM, `X2ConfigureWsHud` recognises the bars in it and configures the renderer, which
keeps its ranges until it is told others, and the frame is shown. Sprites carry what
they are (`is`), which the code cannot see. A scene that puts a column of actors with
the bar's tile, palette and place into slots 0-4 is excluded: the code says that no
actor impersonates the icon, and the model relies on it.

### StartupLogging

`StartupLogging` has a table of descriptors in which `open()` takes the lowest free
one; the folders, `logging.ini` and the environment are chosen at start. On Windows
the streams may lead nowhere (descriptor -2) and the console of the parent may be
refused; opening NUL first, `_dup2` and the fallback to the log are as in the code.

## 3. Runs

| Run | Question | Bounds, and why they are enough |
|---|---|---|
| `recorder_storage` | Types, ledger, budget on disk, writer protocol, half-done failures; does `MmxReplayBegin` always get to the frame? | up to 5 segments in a ring of 2, 6 frames, 2 events, recording by option only; images of 1 to 3 bytes, at most 2 per image and a budget of 3, below the 5 of a segment: images that fit and one too large, and a queue of 4 that an eviction and an image fill |
| `player_verdict` | Is the verdict right, does the tool agree, and does a playback end? | every tape of up to 3 rows over 17 rows that include malformed ones, and 2-frame recordings whole, cut at every row, with every row replaced by every other, with another title line with another title line and with a row of each kind written loosely; any read or close may fail |
| `diagnostic_replay` | Does the recorder implement the archive, is no frame lost while capture is on, and do a session's own tapes replay, whatever happened, and does the tool accept them? | 3 frames, 2 events of every kind, 2 machines, inputs and views, up to 3 segments of 2 frames in a ring of 2, every point of death: a segment ends, a slot is reused, and a load, rollback, reset or switch falls before every kind of frame |
| `lle_frame` | Cursor, length of a frame, NMI, round trip of a save; does a frame end without guest progress? | 2 frames of one clock, 2 slices, guest runs of 0 (for ever, if it likes) and of 5 clocks, which without a deadline would be beyond the overrun of 1 allowed per run; one saved state and three kinds of chunk, loaded any number of times; no leaked interrupt frame (`MaxLeaks` 0), which nothing in the driver reads and the theorems cover |
| `spawn_stream` | No pop-in, tiers agree, nothing allocated outside its window, encounters wait for their door | 71 camera positions around two column boundaries and 141 on the approach of Serges, each in an open stage, in the Boss Rush and in Serges' stage, records at both ends of every column in reach, gutters of 0, 43 and 86 pixels (256, 342 and 428 wide), resized to any other at a position of each stretch |
| `spawn_zero` | Zero's record does not wait (a violation) | his record, 214 pixels |
| `spawn_resize` | Is the native view populated after a resize? (a violation) | 257 camera positions, 0 and 86 pixels, resized at one of them |
| `rom_windows` | Does the interpreter execute windows widened by exactly this frame's margin, and a spawn stream of this frame's frontier, whatever the frames before? | five images, four gutters (0, 1, 43, 214) in any order, held frames between free ones, every object position from -800 to 1000 |
| `presentation` | Does the picture fit, without a seam, is a line attached to the right page, and do the bars, and only the bars, move? | 19 windows: desktop sizes, portrait, and sizes dragged by hand, resized between shaping and showing to a wide and a small one; bars of 5 and 6 pieces, weapon, boss, the player beside and in the columns of the boss bar, cutscenes, two rooms; cameras on both sides of page edges, offsets up to half a page |
| `startup_logging` | Where does the output go? | all POSIX launches with open streams and all Windows launches with or without them, all files of two lines, all sets of writable folders |
| `startup_closed` | The same if a POSIX stream was closed (a violation) | any of the three closed |

All bounds are constants of the modules (`MaxFrames`, `MaxEvents`, `MaxSegment`, `MaxIni`, `Probes`,
`QueueCap`, `MaxSlices`, `MaxLeaks`, `Cameras`, `ResizeAt`). Deadlock is checked in every run:
a process that ended loops in `Gone`.

The deepest properties are `ArchiveSpec` (two threads, a queue, partial failure and
death against one sentence about files: with `ArchiveFaithful` it says that every
tape on disk replays), `OwnTapesReplay`, `ClosedTapesPass` and `InterruptedTapeUsable`
(the same through the player), `OwnTapesInspected` (through the tool), `VerdictIsRight` (an operational player against the
declarative `Reproducible`), `LedgerMatchesDisk`, and `NoPopIn` with resized windows.
Type invariants are stated where a program counter and many counters interact
(`Recorder`, `LleFrame`). Each property has a mutant of the code in `PROJECT.json` that
it catches.

### Fairness

* `FairRecorder`: weak fairness of the game thread, of the worker and of the final
  wait. Both are threads of the operating system and neither holds a lock for
  ever. No fairness is given to the host's events, to failures or to death.
* `FairPlayer`: weak fairness of the host's frame loop, which is what
  `snesrecomp_desktop_main` runs until it is told to quit.
* `FairSpec` of `LleFrame`: a frame that has begun is run; nothing obliges the guest
  to advance the clock.

### Findings

`spawn_zero` refutes a comment. `x2_rtl.c:404-405` says that the guard for the two
door encounters protects "the complete look-ahead interval at every aspect". The
guard compares the actor's X with the frontier, but the stream works on 32-pixel
columns. Zero ($0E78) stands 24 pixels into his column ($0E60), so while
`camera + $100 + extra` is in $0E60..$0E77 the wide margin is still in force and
the column that holds Zero's record is walked. A camera that moves right enters
that interval exactly when the column is probed. Serges ($0A40) stands at the
start of his column and is protected (`spawn_stream`). That a record is consumed
with its column is taken from the code's own comments; the routine is ROM code.

`spawn_resize` shows what becomes of the frontier when a window is widened in the
middle of a stage. The frontier is computed from the present margin only, and the
guest walks one column when the camera enters a new one. The columns between the old
frontier and the new one are walked by nobody: a camera that goes on meets them
without their enemies, first in the gutter, then in the native view, until a sweep
(vertical travel into another row) walks them. `docs/WIDESCREEN.md:155-156` wants
enemies to enter the world before the edge reveals them; `NativeViewPopulated` asks
even less, what the unwidened game gives. `NoPopIn` therefore speaks of stages in
which the gutters did not grow.

`startup_closed` refutes the first comment of `mmx_startup.c` for a process that is
started with stdout or stderr closed and the lower descriptors open: `open()`
returns that very descriptor, `dup2()` to itself does nothing, and `close()` closes
the stream again. What is printed there is lost, or goes to the file that gets the
number next. With all three streams open `startup_logging` shows the comment right.

`NoSeam` has an exception that the code has: rounding to an even width may cost up
to one and a half source pixels, and only gaps of up to one are closed. A window
of 866x648 shows a frame of 258 for an exact width of 256.6, and keeps four lines
of letterbox.

## 4. Theorems

Proved by TLAPS for every value of the constants, from the assumptions named in
the modules (`StepAssumption`, `WriterAssumption`, `RecorderAssumption`, `MachineAssumption`,
`PlayerAssumption`, `TapesAssumption`, `LleAssumption`, `SpawnAssumption`,
`RomWindowsAssumption`, `DisplayAssumption`, `ScenesAssumption`)
and, where the table says so, from a hypothesis of the theorem. Every safety property
that a passing run checks is the conclusion of one of them, except `OnlyKnownSitesChange`.

| Theorem | States | Hypothesis |
|---|---|---|
| `RecorderImplementsArchive` | `ArchiveSpec`: recorder, bounded queue and worker implement the archive | |
| `ArchiveFaithful`, `RecorderTapesFaithful` | every tape of the archive, and so of the player's disk at every moment and after a crash, has its images and replays | |
| `RecorderTypeOK`, `RecorderCapturesEveryFrame`, `RecorderWriterProtocol` | `TypeOK`, `NoUnrecordedFrame`, `WriterProtocol` | |
| `RecorderHistory`, `RecorderSegment` | `HistoryWithinLimit`: the images of a session stay within the budget, those of a segment within what a segment may hold | |
| `RecorderDiskWithinLimit` | `DiskWithinLimit`: so do the files, while the worker lags and after a crash | |
| `RecorderLedgerMatchesDisk`, `RecorderLedgerExact` | the two ledger properties | |
| `RecorderInvariant`, `RecorderPromise`, `RecorderFailure` | the inductive invariants; capture never half stops | |
| `DiagnosticOwnTapes`, `DiagnosticInspected`, `DiagnosticClosedTapes`, `DiagnosticUntil` | `OwnTapesReplay`, `OwnTapesInspected`, `ClosedTapesPass`, `InterruptedTapeUsable`; `DiagnosticInvariant` is their invariant | |
| `PlayerVerdict`, `PlayerCheckpoints`, `PlayerInspection`, `PlayerUntil` | the safety properties of `player_verdict`, for every set of tapes; `PlayerInvariant` is their invariant | |
| `LleTypeOK`, `LleCursorConsistent`, `LleFrameCapped`, `LleRoundTrip`, `LleNoNmiInBootFrame` | those of `lle_frame` | |
| `SpawnTiersAgree`, `SpawnNoPopIn`, `SpawnAllocatedIsActive` | `TiersAgree`, `NoPopIn`, `AllocatedIsActive` | `Valid`: the cartridge has the routine |
| `SpawnEncounterWaits` | `EncounterWaits` | not the stage of Zero; no record in the last column of the 16-bit world |
| `RomWindowsView` | `RomMatchesView` | `Apart`: no window overlaps the signature of the spawn stream |
| `RomEdgesWiden` | `EdgesWiden` | `Apart`, `AllListed` and `ProbesAreSmall`: what the scan found |
| `DisplayFrameWidth`, `StageScrollRecovered` | `FrameWidthUsable`, `ScrollRecovered` | |
| `DisplayViewportFits` | `ViewportFits` | `Roomy`: windows with room for a picture |
| `DisplayNoSeam` | `NoSeam` | every window has a height |
| `PresentationIsDisplay` | the composed module is a refinement of `Display`'s specification | |
| `PresentationOnlyBarsMove`, `PresentationBarsReachTheEdges` | `OnlyBarsMove`, `BarsReachTheEdges` | `Fingerprints`, `BarsInPlace`: what the game has in OAM |
| `LoggingReturnsDescriptors`, `LoggingIsKept` | `DescriptorsReturned`, `SessionLogged` | `FirstDescriptors`: open from 0 up, three at least; `LoggingIsKept` also `IniIsRead` |

### The hypotheses

None is about the code's choices; each says of the world outside what no line of the
code can guarantee, or of a recursive operator what no prover here can compute.

* `Valid`, the stage of Zero and the last column: `spawn_zero` and the comment on
  `SpawnEncounterWaits` show that the theorem is false without them.
* `Apart` and `AllListed` are about every cartridge with a matching census. `Apart` says
  that no operand in the table `ScanRomImms` makes shares a byte with the signature of the
  spawn stream, which includes the sites that are written there: in a session whose first frame is wide, the signature is compared in a
  copy whose windows have already been widened. `AllListed` says that the table lists the
  operands of the cartridge's windows, each once and apart from the others. `ScanRomImms` is a fold over the image. The code relies on
  the same: the census is its only check that the cartridge is the one that was
  surveyed (`x2_rtl.c:709-717`). `ProbesAreSmall` bounds the distances by 16 bits.
* `Roomy`: in a window one pixel wide a picture as wide as the frame is high rounds to
  nothing.
* `Fingerprints` and `BarsInPlace`: what wears a bar's tile and palette in its slots is
  the bar, and the bars are in the slots and columns that `docs/OAM_SURVEY.md` measured
  (`x2_rtl.c:191-197`). That no actor looks like one is the code's own reliance.
* `FirstDescriptors`: what `startup_closed` shows to be needed, and room for three
  more descriptors. `IniIsRead` equates the loop over `logging.ini` (a `SelectSeq`)
  with what its reader expects, for every file of up to `MaxIni` lines.

TLC has evaluated all of them to TRUE on the instances of the passing runs (`IniIsRead`
up to four lines), on which each is also met by states where the property says
something: supported cartridges, bars on screen, redirected and moved streams.

### The arguments

**The archive.** The game thread never sees the files; it only knows what it has
queued. `RecorderProofs` states what a queue promises: a path `F` of file states, from the
present one, in which each command is legal where it is taken (`Legal`: the row
continues the tape, the tape is gone before its images, no segment is opened inside
another). Taking the head of the queue shortens the path, an offered command prolongs
it by one step, and neither needs to know how long it is. The invariant `RInv` relates
the variables of the game thread to the *last* state of that path (`Agrees`): while it
records, the tape that is written will end with the row that describes the machine the
game runs, unless something that `record_begin()` compares has changed since
(`TapeAgrees`). This is why all three signs of `Discontinuity` are needed. When the
writer's error is latched nothing is promised but legality. The worker's step is then a
step of `Archive` because the command it takes is legal, and everything else stutters.

**The protocol** follows from the same path: `OpenAfter(n)`, computed from the queue, is
the open segment of its n-th state (`OpenOnPath`). That needs the last of finitely many
commands, and so an induction, which is done with least elements of sets
(`LeastNumber`, from the well-foundedness of inclusion of finite sets).

**The verdict.** `PInv` reads the tape together with the player. Rows before the
position are rows that a reproducible tape may have there (`Right`), in kinds that the
report tool allows (`Kinds`), and the machine is the one the last row describes
(`Follows`). The player fails exactly where no reproducible tape has the row it finds, or
where a read or a close fails (`io_error`), which gives both directions of `VerdictIsRight` without an induction over rows: the
behaviour does the induction. `Kinds` holds even when a state is loaded in between or the
files cannot be closed at the end, and carries `PlayerCheckpoints` and
`PlayerInspection`: the rows of a finished playback come in the order that the tool
wants too, so that it can only object to how they are written; `PlayerUntil` adds that every number
of completed frames was reached at an H row (`Counted`) and that a prefix of a
reproducible tape that ends in an H row is reproducible.

**The budget.** `HistoryWithinLimit` alone is not inductive: when nothing is left
to evict, `write_snapshot()` adds the image without looking at the total. It is
safe because `record_begin()` has made sure that the current segment leaves room
for one image, and because then the current segment is all there is. The second
half needs the ledger: `history_bytes` is one number, the ring holds the parts, and
their sum is not a formula the provers handle. `RecorderProofs` states it as a
telescope: a function `B` on segment numbers that climbs from 0 at
`oldest_segment` to `history_bytes` in steps which are the ring's entries.
Evicting cuts the bottom step off, an image raises the top, opening a segment adds
a flat step. Slots do not collide because fewer than `SEGMENTS` segments are
retained (`SlotsDiffer`) - except in one state the code really has: a segment that
was created while the ring was full and could not evict. `Newest` and `RingHasRoom`
describe it: it never gets bytes, it is not recording, and the writer's error is
latched, so that no further segment is created on top of it.

**The cursor.** `X2OnStateLoaded` derives `did_reset` from `host_frames`. That is
right because, between frames, a machine is either cold (no RESET, no frame, no
resume address) or has all three, also in every saved state (`SavedConsistent`),
and because the flags between the two load callbacks say what the chunk carried
(`Loading`). `NoNmiInBootFrame` follows from the same invariant.

**The length of a frame.** A run that starts with a deadline ends at most one overrun after
the later of the deadline and its start (`StoppedInTime`). `Guarded` says that all three
runs start with the end of this frame as their deadline, and that this is not 0, which
would be none. `InTime` counts the overruns: a slice and the NMI start before the end, an
IRQ handler at most one overrun after it, and behind an IRQ handler comes no further
slice when the end is past (`TimeInductive`).

**The patch.** `RomMatchesView` speaks of the moment when the guest runs; between
frames the copy still holds the previous margin and frontier. `CopyInv` says that after
the first frame it is always the cartridge's `View` for *some* margin and frontier, from
the one table and the one signature check, and `ViewForgets` that rewriting such a view
gives the view of this frame: each of the two patchers writes values that do not depend
on what is there (`WindowsForget`, `StreamForgets`), and so do both in turn, even if they
should write the same byte (`BothForget`). In the first frame the signature is compared
after the windows were written; `Apart` makes that the signature of the cartridge
(`StreamSeen`).

**The files.** The same path carries their bytes. A command is legal only if the files
after it fit the budget and the number of tapes fits the ring (`Legal`), which makes
`DiskWithinLimit` true of every state the worker can stop in. The sum over the files
is brought to the telescope by `Booked`, a conjunct of `RInv`: the bytes that the ring
has for a segment are those of the images its tape will have when the queue is empty.
`LedgerMatchesDisk` is that with an empty queue. The sums themselves are over finite
sets and have no closed form; `RecorderProofs` characterises them by what adding one
element does (`Sums`), from which uniqueness follows without an induction over data.

**The composition.** `DiagnosticReplay` is recorder and player in turn, and `DInv` has a
half for each. `InSession` is `RInv` with a player that has not started; `InPlayback`
freezes the files and takes `PInv` of `PlayerProofs`, instantiated for the set of tapes
a session may leave (`ReportSet`). What joins them is what a tape of the session looks
like (`Reported`): it starts with an image, its numbers climb, its inputs alternate with
their hashes, and every row is the faithful continuation of the one before. Such a tape
is `Reproducible` exactly when its last frame was completed, which gives
`OwnTapesReplay`; its rows are in the tool's order for the same reason
(`OwnTapesInspected`, `FaithfulIsAllowed`); the tapes that were closed end in a completed frame
(`ClosedTapesPass`); a cut at any completed frame ends in one too
(`InterruptedTapeUsable`, with `Unbroken` of `PlayerProofs` for what was counted).

**The frontier.** Two tiers compute columns modulo 2^16 and round at different places.
`SpawnProofs` brings both to one form, the camera's column plus or minus a multiple of
32, wrapped once: rounding commutes with wrapping, and a multiple of 32 passes through
it. `TiersAgree` is then equality, with the byte-wise operands of the interpreter equal
to the frontier of this frame (`SpawnInv`). `NoPopIn` is inductive only in the stronger
form that everything up to the *rounded* frontier has been walked since the sweep: the
camera moves by less than a column, so the column it newly reaches is the one that is
probed. `AllocatedIsActive` compares a column that near with the windows of objects.

**The windows of the ROM.** The spawn stream's sites are elsewhere (`Apart`). With a table that lists the windows, patching by position is
patching by window (`OperandPatched`), and a comparison of 16-bit numbers whose operands
are wider by the margin accepts the objects that are within the margin (`WindowWidens`
for the bias-and-compare form, `DistanceWidens` for the absolute difference, and the
trigger has one side only).

**The picture.** All of `ViewportFits` and `NoSeam` is comparison of products of a source
size, a window size and a scale. The lemmas on division turn the rounded quotients of
`x2_display.c` into such comparisons: a fraction that is at most the window rounds to at
most the window, and one within half a pixel of it is closed to it (`RoundedFits`,
`RoundedNear`). For `NoSeam` the frame is within one and a half source pixels of the
window's shape (`NearestWidthNear`), which the exception of the property cuts to one,
and one source pixel is a gap that is closed (`GapBelow`, `GapBeside`).

**The HUD.** The renderer keeps its ranges of slots from frame to frame. `ConfiguredInv`
says that they are those of the scene in OAM when a frame is shown, whatever they were
before; the rest is what the fingerprint stands for.

**The descriptors.** `LoggingInv` uses that descriptors stay closed from some number on
(`OpenBelow`): the lowest free one is that number, or the one that `freopen()` has just
closed. `Taken` follows the streams one by one, in whichever subset is moved: those
taken over lead to the target by their own or a new descriptor, everything else leads
where it did. With the log at the first free descriptor `n`, no stream gets `n` - the
fact that is false when a stream was closed at start - and so `close()` gives back
exactly what `open()` took.

Only model-checked: liveness (`BeginReturns`, `PlaybackEnds`, `FrameEnds`), which is
beyond this prover; that the scan of `RomWindows` and the loop over `logging.ini` compute
what the hypotheses say, which is recursion over data; `OnlyKnownSitesChange`, which for
an arbitrary cartridge would be little more than the hypothesis that the scan lists
windows only; and the three refuted statements of the findings.

## 5. Limits

* The framework and the ROM are external. The worker's behaviour is inferred from
  its callers and `docs/DIAGNOSTICS.md`; guest code is nondeterministic.
* `SpawnStream` does not model the tiers within the frame in which the camera crosses
  a guard's limit: where in its frame the guest moves the camera is not in the
  repository. `EncounterWaits` is therefore about the hooks of generated code, and
  `NoPopIn` about stages without a door: a camera that backs away from one widens its
  margin again without a probe, as a resize does.
* How bytes of a tape become rows (encoding, line ends other than a newline, over-long
  rows) is not modelled; see `Player` in section 2.
* Hashes are compared as if they were the memory they summarise; damage to an
  image is a flag.
* 32-bit wrap of frame counters is out of reach of the bounds.
* `kWsExtraMax` is the framework's; `presentation` uses 214, the gutter of the widest view
  the documents name. What the patched operands mean (`Accepts`) and how the renderer
  moves sprites (`DrawnX`) are taken from the code's comments.
* Background margins (`X2ConfigureWsBgMargins`) keep no state and hand constants for
  three rooms to the framework's compositor; without it nothing can be said of the
  picture.
* Not modelled, with reasons in `PROJECT.json`: SPC loader (nothing calls it), volume
  control (nothing calls it either, and it is not compiled: `CMakeLists.txt:17-20`), host glue,
  the mod plugin, scripts and tests.
* Four hazards have no property: an interrupt frame left on the stack when a handler
  bails out, a load that the framework rejects after the extras were read, the two
  tiers on either side of a guard within one frame, and the guard of a door that lets go,
  which widens the frontier again without a probe (`x2_rtl.c:413`). Each depends on
  code that the repository does not contain; `PROJECT.json` says how. What the last one does
  to the frontier, `spawn_resize` shows for its other cause.

## 6. What is left

* `NoPopIn` speaks of stages in which the gutters did not grow, and `EncounterWaits`
  excludes Zero: the code would have to change (`spawn_resize`, `spawn_zero`) before more
  is true.
* A theorem that the scan finds the four forms and nothing else in an image that is
  given by its instructions needs an induction over the image.
* The two tiers within the frame in which the camera crosses a guard's limit (section 5).

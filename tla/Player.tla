------------------------------- MODULE Player -------------------------------
(***************************************************************************)
(* The playback half of src/mmx_replay.c and the exit status that            *)
(* src/mmx_diagnostics_host.h makes of it: a fresh process replays one tape,  *)
(* which may be damaged, truncated, from another build or simply wrong, and  *)
(* says whether every recorded frame was reproduced.                         *)
(*                                                                           *)
(* C names are kept.  stream is the position of the next row to read; the    *)
(* tape itself never changes.                                                *)
(***************************************************************************)
EXTENDS Tape, ReplayTool

CONSTANTS
  Tapes,            \* the reports to replay
  BootMachine, BootView, BootInput,  \* a fresh process
  Extended(_)       \* does a view ask for the extended frame timing?

ASSUME PlayerAssumption ==
  BootMachine \in Machines /\ BootView \in Views /\ BootInput \in Inputs

\* A tape has these parts (banner and loose are those of ReplayTool).  Whatever
\* it holds, the rows are a sequence, and the parser only returns views.
ASSUME TapesAssumption ==
  /\ \A v \in Views : Extended(v) \in BOOLEAN
  /\ \A t \in Tapes :
       /\ t = [replay |-> t.replay, banner |-> t.banner, header |-> t.header,
               sav |-> t.sav, rows |-> t.rows, loose |-> t.loose, images |-> t.images]
       /\ t.loose \subseteq DOMAIN t.rows
       /\ t.rows \in Seq({t.rows[i] : i \in DOMAIN t.rows})
       /\ \A i \in DOMAIN t.rows : t.rows[i].kind = "I" => t.rows[i].view \in Views

VARIABLES
  tape,             \* the files being replayed
  finished, failed, pending, playback_loaded, playback_checkpointed,
  playback_rows, stream, next_frame,
  pc,               \* where the host's frame loop is
  machine, snes_frame_counter, view, input, extended_timing, runahead,
  disturbed,        \* the player loaded a state during the playback
  io_error,         \* reading or closing a file of the report has failed
  status            \* exit status of the process, -1 while it runs

stateVars == <<finished, failed, pending, playback_loaded,
               playback_checkpointed, playback_rows, stream, next_frame>>
machineVars == <<machine, snes_frame_counter, view, input, extended_timing>>
fixedVars == <<tape, runahead>>
playerVars == <<stateVars, machineVars, fixedVars, pc, disturbed, io_error, status>>

FreshProcess ==
  /\ finished = FALSE /\ failed = FALSE /\ pending = FALSE
  /\ playback_loaded = FALSE /\ playback_checkpointed = FALSE
  /\ playback_rows = 0 /\ stream = 1 /\ next_frame = 0
  /\ pc = "open"
  /\ machine = BootMachine /\ snes_frame_counter = 0
  /\ view = BootView /\ input = BootInput
  /\ extended_timing = FALSE /\ runahead \in BOOLEAN
  /\ disturbed = FALSE /\ io_error = FALSE /\ status = -1

PlayerInit == FreshProcess /\ tape \in Tapes

-----------------------------------------------------------------------------
AtEof == stream > Len(tape.rows)
Row == tape.rows[stream]

\* error(): the playback is over and has failed.
Fail == failed' = TRUE /\ pending' = FALSE

\* The last recorded frame has been reproduced.  MmxReplayClose() then closes
\* both files; one that cannot be closed makes a failure of it after all.
Finish ==
  /\ finished' = TRUE /\ pending' = FALSE
  /\ \/ UNCHANGED <<failed, io_error>>
     \/ failed' = TRUE /\ io_error' = TRUE

\* MmxReplayPlayback(), from the command line.
OpenPlayback ==
  /\ pc = "open"
  /\ \/ tape.replay /\ pc' = "idle" /\ UNCHANGED <<failed, pending, status>>
     \/ ~tape.replay /\ Fail /\ pc' = "gone" /\ status' = 2
  /\ UNCHANGED <<machineVars, fixedVars, disturbed, io_error, finished,
                 playback_loaded, playback_checkpointed, playback_rows, stream,
                 next_frame>>

\* The header names this title, ROM and mods, run-ahead is off, and the
\* checkpoint file is there.
Loadable == tape.header /\ ~runahead /\ tape.sav

\* MmxReplayBegin() at the start of a frame: load_playback() the first time.
LoadPlayback ==
  /\ pc = "idle" /\ ~finished /\ ~failed
  /\ \/ /\ playback_loaded \/ Loadable
        /\ playback_loaded' = TRUE
        /\ pc' = "row"
        /\ UNCHANGED <<failed, pending>>
     \/ /\ ~playback_loaded /\ ~Loadable
        /\ Fail /\ pc' = "after"
        /\ UNCHANGED playback_loaded
  /\ UNCHANGED <<machineVars, fixedVars, disturbed, io_error, status, finished,
                 playback_checkpointed, playback_rows, stream, next_frame>>

-----------------------------------------------------------------------------
(***************************************************************************)
(* playback_begin().                                                         *)
(***************************************************************************)
NoMoreRows ==
  /\ pc = "row" /\ AtEof
  /\ IF playback_rows = 0 THEN Fail /\ UNCHANGED <<finished, io_error>> ELSE Finish
  /\ pc' = "after"
  /\ UNCHANGED <<machineVars, fixedVars, disturbed, status, playback_loaded,
                 playback_checkpointed, playback_rows, stream, next_frame>>

\* fgets() fails, or fread() does, where the header, a row, an image or an H row
\* is to be read: whatever would have come, the playback is over.
ReadError ==
  /\ \/ pc = "idle" /\ ~playback_loaded /\ ~finished /\ ~failed
     \/ pc \in {"row", "end"}
  /\ Fail /\ io_error' = TRUE /\ pc' = "after"
  /\ UNCHANGED <<machineVars, fixedVars, disturbed, status, finished,
                 playback_loaded, playback_checkpointed, playback_rows, stream,
                 next_frame>>

Intact(row) == row.image \in DOMAIN tape.images /\ tape.images[row.image].intact

\* An S row is used together with the row after it, which is missing or cannot
\* be read when the machine has already been loaded.
ReadCheckpoint ==
  /\ pc = "row" /\ ~AtEof /\ Row.kind = "S"
  /\ \/ /\ Intact(Row)
        /\ machine' = tape.images[Row.image].machine
        /\ snes_frame_counter' = tape.images[Row.image].frame
        /\ \/ /\ stream < Len(tape.rows)
              /\ playback_checkpointed' = TRUE
              /\ stream' = stream + 1
              /\ pc' = "input"
              /\ UNCHANGED <<failed, pending, io_error>>
           \/ /\ Fail /\ pc' = "after"
              /\ io_error' = (stream < Len(tape.rows))
              /\ UNCHANGED <<playback_checkpointed, stream>>
     \/ /\ ~Intact(Row)
        /\ Fail /\ pc' = "after"
        /\ UNCHANGED <<machine, snes_frame_counter, playback_checkpointed, stream,
                       io_error>>
  /\ UNCHANGED <<view, input, extended_timing, fixedVars, disturbed, status,
                 finished, playback_loaded, playback_rows, next_frame>>

SkipCheckpoint ==
  /\ pc = "row" /\ ~AtEof /\ Row.kind # "S"
  /\ pc' = "input"
  /\ UNCHANGED <<stateVars, machineVars, fixedVars, disturbed, io_error, status>>

Accepted(row) ==
  /\ playback_checkpointed
  /\ row.kind = "I"
  /\ row.frame = snes_frame_counter

\* The recorded options take effect; extended timing can only be switched on.
TimingAfter(row) == extended_timing \/ Extended(row.view)

ReadInput ==
  /\ pc = "input"
  /\ stream' = stream + 1
  /\ \/ /\ ~Accepted(Row)
        /\ Fail /\ pc' = "after"
        /\ UNCHANGED <<view, input, extended_timing, next_frame>>
     \/ /\ Accepted(Row)
        /\ view' = Row.view
        /\ extended_timing' = TimingAfter(Row)
        /\ \/ /\ TimingAfter(Row) # Extended(Row.view)
              /\ Fail /\ pc' = "after"
              /\ UNCHANGED <<input, next_frame>>
           \/ /\ TimingAfter(Row) = Extended(Row.view)
              /\ input' = Row.input
              /\ next_frame' = Row.frame + 1
              /\ pending' = TRUE /\ pc' = "run"
              /\ UNCHANGED failed
  /\ UNCHANGED <<machine, snes_frame_counter, fixedVars, disturbed, io_error, status,
                 finished, playback_loaded, playback_checkpointed, playback_rows>>

RunFrame ==
  /\ pc = "run"
  /\ machine' = Step(machine, input, view)
  /\ snes_frame_counter' = snes_frame_counter + 1
  /\ pc' = "end"
  /\ UNCHANGED <<stateVars, view, input, extended_timing, fixedVars, disturbed,
                 io_error, status>>

-----------------------------------------------------------------------------
(***************************************************************************)
(* MmxReplayEnd(), the host's after_run_frame and the end of the process.    *)
(***************************************************************************)
\* Mutant: the first frame of a segment is taken on trust.
ReproducedAfterFirst ==
  playback_rows = 0 \/ (snes_frame_counter = next_frame /\ machine = Row.machine)

Reproduced == snes_frame_counter = next_frame /\ machine = Row.machine

Recorded == ~AtEof /\ Row.kind = "H" /\ Row.frame = next_frame

\* The row was the last one, or it was not, or fgetc() fails.
LookAhead ==
  \/ stream = Len(tape.rows) /\ Finish
  \/ /\ stream < Len(tape.rows)
     /\ pending' = FALSE /\ UNCHANGED <<finished, failed, io_error>>
  \/ Fail /\ io_error' = TRUE /\ UNCHANGED finished

VerifyFrame ==
  /\ pc = "end"
  /\ pc' = "after"
  /\ \/ /\ ~Recorded
        /\ Fail /\ UNCHANGED <<finished, playback_rows, stream, io_error>>
     \/ /\ Recorded /\ ~Reproduced
        /\ Fail /\ stream' = stream + 1 /\ UNCHANGED <<finished, playback_rows, io_error>>
     \/ /\ Recorded /\ Reproduced
        /\ playback_rows' = playback_rows + 1
        /\ stream' = stream + 1
        /\ LookAhead
  /\ UNCHANGED <<machineVars, fixedVars, disturbed, status, playback_loaded,
                 playback_checkpointed, next_frame>>

\* Mutant: only a failure ends the playback.
QuitOnFailure == failed

QuitWanted == finished \/ failed

\* diagnostic_after_frame(): ask the host to quit once the verdict is known.
AfterFrame ==
  /\ pc = "after"
  /\ pc' = IF QuitWanted THEN "quit" ELSE "idle"
  /\ UNCHANGED <<stateVars, machineVars, fixedVars, disturbed, io_error, status>>

\* The window is closed before the end of the tape.
CloseWindow ==
  /\ pc = "idle"
  /\ pc' = "quit"
  /\ UNCHANGED <<stateVars, machineVars, fixedVars, disturbed, io_error, status>>

\* Mutant: only a failure is reported.
ExitStatusOfFailure(result) == IF failed THEN 2 ELSE result

ExitStatus(result) == IF failed \/ ~finished THEN 2 ELSE result

\* MmxDiagnosticDesktopMain() returns; the desktop itself may report 1.
\* MmxReplayShutdown() closes the files of a playback that was not over.
Exit ==
  /\ pc = "quit"
  /\ pc' = "gone"
  /\ \E result \in {0, 1} : status' = ExitStatus(result)
  /\ pending' = FALSE
  /\ \/ UNCHANGED <<failed, io_error>>
     \/ ~finished /\ ~failed /\ failed' = TRUE /\ io_error' = TRUE
  /\ UNCHANGED <<finished, playback_loaded, playback_checkpointed, playback_rows,
                 stream, next_frame, machineVars, fixedVars, disturbed>>

\* The player loads a saved state while the tape is replayed.
Disturb ==
  /\ pc = "idle" /\ ~disturbed
  /\ disturbed' = TRUE
  /\ machine' \in Machines
  /\ snes_frame_counter' \in {snes_frame_counter, 0}
  /\ UNCHANGED <<stateVars, view, input, extended_timing, fixedVars, pc, io_error,
                 status>>

Gone == pc = "gone" /\ UNCHANGED playerVars

-----------------------------------------------------------------------------
PlaybackStep ==
  \/ OpenPlayback \/ LoadPlayback \/ NoMoreRows \/ ReadError \/ ReadCheckpoint
  \/ SkipCheckpoint \/ ReadInput \/ RunFrame \/ VerifyFrame \/ AfterFrame \/ Exit

PlayerNext == PlaybackStep \/ CloseWindow \/ Disturb \/ Gone

PlayerSpec == PlayerInit /\ [][PlayerNext]_playerVars

\* The host runs frames until it is told to quit.
FairPlayer == PlayerSpec /\ WF_playerVars(PlaybackStep)

-----------------------------------------------------------------------------
(***************************************************************************)
(* Properties.                                                               *)
(***************************************************************************)
\* The tapes that a build reproduces: complete, chained from an intact image,
\* and never asking for the timing mode to be switched back.
IntactImages(file) ==
  \A i \in 1..Len(file.rows) : file.rows[i].kind = "S" =>
    file.rows[i].image \in DOMAIN file.images /\ file.images[file.rows[i].image].intact

TimingOnlyExtends(file) ==
  \A i, j \in 1..Len(file.rows) :
    /\ i < j /\ file.rows[i].kind = "I" /\ file.rows[j].kind = "I"
    /\ Extended(file.rows[i].view)
    => Extended(file.rows[j].view)

Reproducible(file) ==
  /\ file.replay /\ file.header /\ file.sav
  /\ Completed(file) /\ IntactImages(file) /\ Faithful(file)
  /\ TimingOnlyExtends(file)

\* The verdict is right: left alone, playback reports that every checkpoint
\* matched only of a tape that is reproducible, and it fails such a tape only
\* for run-ahead or because a file could not be read or closed.
\* A first row that is no image, two images in a row, an image at the end, a
\* frame number that jumps, a hash of another machine: none of them passes.
VerdictIsRight ==
  ~disturbed =>
    /\ finished => Reproducible(tape) /\ ~runahead
    /\ failed => ~Reproducible(tape) \/ runahead \/ io_error

\* "all recorded checkpoints matched" is said of all of them, and of at least
\* one, even when the player loads a state in the middle of the playback; and
\* the process exits with 0 only then, and if nothing failed afterwards.
AllCheckpointsMatched ==
  /\ status = 0 => finished /\ ~failed
  /\ finished =>
       /\ playback_rows = Cardinality(CompletedRows(tape.rows))
       /\ playback_rows > 0

\* Where the two readers differ: of the reports that the game reproduces,
\* tools/replay_diagnostic.py refuses exactly those with another first line than
\* the recorder's or with a row that has more than its fields.  Order and
\* number of the rows and the missing .sav they judge alike.
InspectionAgrees ==
  finished => (Inspect(tape) <=> tape.banner /\ tape.loose = {})

\* --until N of a report that is reproduced is itself reproduced, for every N
\* up to the number of its completed frames.
UntilIsReproducible ==
  finished /\ ~disturbed =>
    \A n \in 1..playback_rows : Reproducible(Until(tape, n))

\* A playback ends by itself, whatever the tape holds: the host quits, instead
\* of playing on without a verdict.
PlaybackEnds == pc = "open" ~> pc = "gone"

=============================================================================

------------------------------ MODULE Recorder ------------------------------
(***************************************************************************)
(* The recording half of src/mmx_replay.c: what the game thread does at the  *)
(* beginning and the end of every frame so that a session can be replayed    *)
(* later, and the host events it must notice on the way.                     *)
(*                                                                           *)
(* MmxReplayBegin runs in several steps (pc), between any two of which the   *)
(* background worker of ReplayWriter may take commands, fail, or the process *)
(* may die.  C names are kept.  "finished" and "playing" belong to playback  *)
(* (module Player) and are FALSE here.                                       *)
(***************************************************************************)
EXTENDS ReplayWriter, Tape, FiniteSetsExt

CONSTANTS
  SEGMENT_FRAMES,   \* frames per segment (600 in the code)
  SEGMENTS,         \* segments retained, and the size of the ring (360)
  STATE_LIMIT,      \* bytes of images per segment (16 MiB)
  SNAPSHOT_LIMIT,   \* bytes of one image (2 MiB)
  HISTORY_LIMIT,    \* history_limit(): bytes of images per session (2..256 MiB)
  SnapshotSizes,    \* sizes RtlSaveSnapshotToMemory may report
  SavedStates,      \* machines a load can bring back, with their frame number
  InitialMachine, InitialView,
  EnvRecord,        \* MMX_REPLAY_RECORD is not "0"
  MaxFrames,        \* bound: frames run in a session
  MaxEvents         \* bound: host events between frames

ASSUME RecorderAssumption ==
  /\ SEGMENT_FRAMES \in Nat \ {0}
  /\ SEGMENTS \in Nat \ {0}
  /\ STATE_LIMIT \in Nat
  /\ SNAPSHOT_LIMIT \in Nat
  /\ HISTORY_LIMIT \in Nat
  /\ SNAPSHOT_LIMIT <= HISTORY_LIMIT
  /\ SNAPSHOT_LIMIT <= STATE_LIMIT
  /\ SnapshotSizes \subseteq Nat
  /\ EnvRecord \in BOOLEAN
  /\ MaxFrames \in Nat
  /\ MaxEvents \in Nat

ASSUME MachineAssumption ==
  /\ InitialMachine \in Machines
  /\ InitialView \in Views
  /\ SavedStates \subseteq [machine : Machines, frame : Nat]

VARIABLES
  enabled, failed, pending, recording,
  segment, oldest_segment, rows, next_frame,
  generation, load_sequence, recorded_load_sequence,
  segment_state_bytes, history_bytes,
  history_sizes,        \* bytes of images per ring slot, at segment % SEGMENTS
  pc,                   \* where the game thread is
  size, input,          \* locals of write_snapshot and of the frame
  machine, snes_frame_counter, rtl_generation, runahead, view,  \* the host
  frames, events        \* progress against MaxFrames and MaxEvents

tapeVars    == <<segment, oldest_segment, rows, next_frame, generation,
                 recorded_load_sequence>>
storageVars == <<segment_state_bytes, history_bytes, history_sizes>>
flagVars    == <<failed, pending, recording>>
hostVars    == <<machine, snes_frame_counter, rtl_generation, load_sequence,
                 runahead, view, enabled, frames, events>>
localVars   == <<size, input>>
vars == <<writerVars, tapeVars, storageVars, flagVars, hostVars, localVars, pc>>

Slot(s) == s % SEGMENTS
Frame == snes_frame_counter

BeginSteps == {"begin", "start", "create", "retire", "open", "checkpoint", "room", "put"}

RecorderInit ==
  /\ WriterInit
  /\ enabled = FALSE /\ failed = FALSE /\ pending = FALSE /\ recording = FALSE
  /\ segment = 0 /\ oldest_segment = 1 /\ rows = 0 /\ next_frame = 0
  /\ generation = 0 /\ load_sequence = 0 /\ recorded_load_sequence = 0
  /\ segment_state_bytes = 0 /\ history_bytes = 0
  /\ history_sizes = [k \in 0..SEGMENTS-1 |-> 0]
  /\ pc = "idle" /\ size = 0 /\ input \in Inputs
  /\ machine = InitialMachine /\ snes_frame_counter = 0
  /\ rtl_generation = 0 /\ runahead = FALSE /\ view = InitialView
  /\ frames = 0 /\ events = 0

-----------------------------------------------------------------------------
(***************************************************************************)
(* error() and MmxReplayClose().                                             *)
(***************************************************************************)
\* error(): latch the failure and end the open segment.  The result of
\* SnesReplayWriterEnd is ignored.
Error ==
  /\ failed' = TRUE
  /\ pending' = FALSE
  /\ recording' = FALSE
  /\ IF recording THEN Offer(EndCmd) ELSE UNCHANGED writerVars

\* Mutant: error() leaves the recording flag set.
RefusedStillRecording(cmds) ==
  /\ ~Accepts(Len(cmds))
  /\ OfferAll(cmds)
  /\ failed' = TRUE /\ pending' = FALSE /\ UNCHANGED recording

\* error() after the writer refused the commands cmds.  The refusal has
\* latched the writer's error, so its End would be refused as well.
RefusedWith(cmds) ==
  /\ ~Accepts(Len(cmds))
  /\ OfferAll(cmds)
  /\ failed' = TRUE /\ pending' = FALSE /\ recording' = FALSE

\* Mutant: MmxReplayClose() forgets the segment without ending it.
EndSegmentSilently ==
  /\ recording' = FALSE
  /\ UNCHANGED <<writerVars, failed>>

\* MmxReplayClose(), apart from rows and pending which its callers set.
EndSegment ==
  IF recording
  THEN /\ Offer(EndCmd)
       /\ failed' = (failed \/ ~Accepts(1))
       /\ recording' = FALSE
  ELSE UNCHANGED <<writerVars, failed, recording>>

Close == EndSegment /\ pending' = FALSE /\ rows' = 0

-----------------------------------------------------------------------------
(***************************************************************************)
(* record_begin().                                                           *)
(***************************************************************************)
\* Mutant: rollbacks, which the generation ignores, are not looked for.
DiscontinuityByGeneration == Frame # next_frame \/ generation # rtl_generation

Discontinuity ==
  \/ Frame # next_frame
  \/ generation # rtl_generation
  \/ recorded_load_sequence # load_sequence

SegmentLimit == IF HISTORY_LIMIT < STATE_LIMIT THEN HISTORY_LIMIT ELSE STATE_LIMIT

\* Mutant: the bytes the open segment holds are not considered.
NeedsSegmentAnySize == ~recording \/ rows >= SEGMENT_FRAMES

NeedsSegment ==
  \/ ~recording
  \/ rows >= SEGMENT_FRAMES
  \/ Discontinuity /\ segment_state_bytes > SegmentLimit - SNAPSHOT_LIMIT

\* Mutant: a segment that begins without a jump begins without an image.
NeedsSnapshotOnJump == Discontinuity

NeedsSnapshot == rows = 0 \/ Discontinuity

\* The host starts a frame with this input: MmxReplayBegin is called.
BeginFrame(in) ==
  /\ pc = "idle" /\ frames < MaxFrames
  /\ input' = in
  /\ pc' = "begin"
  /\ frames' = frames + 1
  /\ UNCHANGED <<writerVars, tapeVars, storageVars, flagVars, machine,
                 snes_frame_counter, rtl_generation, load_sequence, runahead,
                 view, enabled, events, size>>

\* Mutant: only the Developer option starts a capture.
OffByDefault == failed \/ ~enabled

Off == failed \/ (~enabled /\ ~EnvRecord)

RecordBegin ==
  /\ pc = "begin"
  /\ UNCHANGED <<hostVars, localVars, storageVars, segment, oldest_segment,
                 next_frame, generation, recorded_load_sequence>>
  /\ \/ /\ Off
        /\ pc' = "run" /\ UNCHANGED <<writerVars, flagVars, rows>>
     \/ /\ ~Off /\ writerError
        /\ Error /\ pc' = "run" /\ UNCHANGED rows
     \/ /\ ~Off /\ ~writerError /\ runahead
        /\ Close /\ pc' = "run"
     \/ /\ ~Off /\ ~writerError /\ ~runahead
        /\ pc' = CASE NeedsSegment -> "start"
                   [] ~NeedsSegment /\ NeedsSnapshot -> "checkpoint"
                   [] OTHER -> "put"
        /\ UNCHANGED <<writerVars, flagVars, rows>>

-----------------------------------------------------------------------------
(***************************************************************************)
(* start_segment(): close, retire old segments, open the new one.            *)
(***************************************************************************)
StartSegment ==
  /\ pc = "start"
  /\ Close
  /\ pc' = IF failed' THEN "run" ELSE "create"
  /\ UNCHANGED <<hostVars, localVars, storageVars, segment, oldest_segment,
                 next_frame, generation, recorded_load_sequence>>

CreateSegment ==
  /\ pc = "create" /\ segment < MaxSegment
  /\ segment' = segment + 1
  /\ pc' = "retire"
  /\ UNCHANGED <<writerVars, flagVars, hostVars, localVars, storageVars,
                 oldest_segment, rows, next_frame, generation,
                 recorded_load_sequence>>

\* No directory can be created, or no writer.  Both exist for good once a
\* first segment has been started.
CannotStart ==
  /\ pc = "create" /\ segment = 0
  /\ Error
  /\ pc' = "run"
  /\ UNCHANGED <<hostVars, localVars, storageVars, tapeVars>>

\* Mutant: the images of an evicted segment stay on disk.
EvictionOfReplayOnly == <<RemoveReplayCmd(oldest_segment)>>

\* Mutant: the images go first, the tape that needs them afterwards.
EvictionSavFirst == <<RemoveSavCmd(oldest_segment), RemoveReplayCmd(oldest_segment)>>

Eviction == <<RemoveReplayCmd(oldest_segment), RemoveSavCmd(oldest_segment)>>

\* Mutants: the ring slot is not cleared; the oldest segment stays oldest.
ForgetOldestKeepSlot ==
  /\ history_bytes' = history_bytes - history_sizes[Slot(oldest_segment)]
  /\ oldest_segment' = oldest_segment + 1
  /\ UNCHANGED history_sizes
ForgetOldestInPlace ==
  /\ history_bytes' = history_bytes - history_sizes[Slot(oldest_segment)]
  /\ history_sizes' = [history_sizes EXCEPT ![Slot(oldest_segment)] = 0]
  /\ UNCHANGED oldest_segment

\* evict_segment(), having removed the files: forget the bytes they held.
ForgetOldest ==
  /\ history_bytes' = history_bytes - history_sizes[Slot(oldest_segment)]
  /\ history_sizes' = [history_sizes EXCEPT ![Slot(oldest_segment)] = 0]
  /\ oldest_segment' = oldest_segment + 1

Evict ==
  \/ /\ Accepts(Len(Eviction))
     /\ OfferAll(Eviction)
     /\ ForgetOldest
     /\ UNCHANGED <<flagVars, pc>>
  \/ /\ RefusedWith(Eviction)
     /\ pc' = "run"
     /\ UNCHANGED <<history_bytes, history_sizes, oldest_segment>>

\* Mutant: one segment more than the ring has slots.
TooManySegmentsLate == segment - oldest_segment > SEGMENTS

TooManySegments == segment - oldest_segment >= SEGMENTS

RetireSegments ==
  /\ pc = "retire"
  /\ \/ TooManySegments /\ Evict
     \/ /\ ~TooManySegments
        /\ pc' = "open"
        /\ UNCHANGED <<writerVars, flagVars, history_bytes, history_sizes,
                       oldest_segment>>
  /\ UNCHANGED <<hostVars, localVars, segment_state_bytes, segment, rows,
                 next_frame, generation, recorded_load_sequence>>

NewSegment ==
  /\ segment_state_bytes' = 0
  /\ next_frame' = Frame
  /\ generation' = rtl_generation

OpenSegment ==
  /\ pc = "open"
  /\ NewSegment
  /\ \/ /\ Accepts(1)
        /\ Offer(BeginCmd(segment))
        /\ recording' = TRUE
        /\ pc' = IF NeedsSnapshot THEN "checkpoint" ELSE "put"
        /\ UNCHANGED <<failed, pending>>
     \/ RefusedWith(<<BeginCmd(segment)>>) /\ pc' = "run"
     \/ Error /\ pc' = "run"       \* the active mod selection cannot be saved
  /\ UNCHANGED <<hostVars, localVars, history_bytes, history_sizes, segment,
                 oldest_segment, rows, recorded_load_sequence>>

-----------------------------------------------------------------------------
(***************************************************************************)
(* write_snapshot().                                                         *)
(***************************************************************************)
Serializable(n) ==
  /\ n # 0 /\ n <= SNAPSHOT_LIMIT
  /\ n <= STATE_LIMIT - segment_state_bytes

TakeSnapshot(n) ==
  /\ pc = "checkpoint"
  /\ size' = n
  /\ \/ /\ Serializable(n)
        /\ pc' = "room" /\ UNCHANGED <<writerVars, flagVars>>
     \/ /\ ~Serializable(n)
        /\ Error /\ pc' = "run"
  /\ UNCHANGED <<hostVars, input, storageVars, tapeVars>>

\* Mutant: the bytes about to be added are not counted.
NoRoomYet == oldest_segment < segment /\ history_bytes > HISTORY_LIMIT

NoRoom == oldest_segment < segment /\ history_bytes + size > HISTORY_LIMIT

MakeRoom ==
  /\ pc = "room" /\ NoRoom
  /\ Evict
  /\ UNCHANGED <<hostVars, localVars, segment_state_bytes, segment, rows,
                 next_frame, generation, recorded_load_sequence>>

Image == [machine |-> machine, frame |-> Frame, size |-> size]

\* Mutant: a second image of the segment replaces the first in the ledger.
CountLastSnapshot ==
  /\ segment_state_bytes' = segment_state_bytes + size
  /\ history_bytes' = history_bytes + size
  /\ history_sizes' = [history_sizes EXCEPT ![Slot(segment)] = size]

CountSnapshot ==
  /\ segment_state_bytes' = segment_state_bytes + size
  /\ history_bytes' = history_bytes + size
  /\ history_sizes' = [history_sizes EXCEPT ![Slot(segment)] = @ + size]

PutSnapshot ==
  /\ pc = "room" /\ ~NoRoom
  /\ \/ /\ Accepts(1)
        /\ Offer(SnapshotCmd(Image))
        /\ CountSnapshot
        /\ pc' = "put" /\ UNCHANGED flagVars
     \/ /\ RefusedWith(<<SnapshotCmd(Image)>>)
        /\ pc' = "run" /\ UNCHANGED storageVars
  /\ UNCHANGED <<hostVars, localVars, tapeVars>>

-----------------------------------------------------------------------------
(***************************************************************************)
(* The end of record_begin(), the frame itself, and MmxReplayEnd().          *)
(***************************************************************************)
InputRow == [kind |-> "I", frame |-> Frame, input |-> input, view |-> view]

PutInput ==
  /\ pc = "put"
  /\ generation' = rtl_generation
  /\ recorded_load_sequence' = load_sequence
  /\ \/ /\ Accepts(1)
        /\ Offer(LineCmd(InputRow))
        /\ pending' = TRUE
        /\ next_frame' = Frame + 1
        /\ UNCHANGED <<failed, recording>>
     \/ /\ RefusedWith(<<LineCmd(InputRow)>>)
        /\ UNCHANGED next_frame
  /\ pc' = "run"
  /\ UNCHANGED <<hostVars, localVars, storageVars, segment, oldest_segment, rows>>

\* The framework runs the frame (RunOneFrameOfGame and what surrounds it).
RunFrame ==
  /\ pc = "run"
  /\ machine' = Step(machine, input, view)
  /\ snes_frame_counter' = Frame + 1
  /\ pc' = "end"
  /\ UNCHANGED <<writerVars, tapeVars, storageVars, flagVars, localVars,
                 rtl_generation, load_sequence, runahead, view, enabled,
                 frames, events>>

HashRow == [kind |-> "H", frame |-> Frame, machine |-> machine]

\* rows counts a frame whose H row the writer refused as well.
RecordEnd ==
  \/ /\ Accepts(1)
     /\ Offer(FrameCmd(HashRow))
     /\ pending' = FALSE /\ rows' = rows + 1
     /\ UNCHANGED <<failed, recording>>
  \/ RefusedWith(<<FrameCmd(HashRow)>>) /\ rows' = rows + 1

FrameEnd ==
  /\ pc = "end"
  /\ pc' = "idle"
  /\ \/ /\ ~pending \/ failed
        /\ UNCHANGED <<writerVars, flagVars, rows>>
     \/ /\ pending /\ ~failed
        /\ IF recording THEN RecordEnd
           ELSE pending' = FALSE /\ UNCHANGED <<writerVars, failed, recording, rows>>
  /\ UNCHANGED <<hostVars, localVars, storageVars, segment, oldest_segment,
                 next_frame, generation, recorded_load_sequence>>

-----------------------------------------------------------------------------
(***************************************************************************)
(* Host events between two frames.                                           *)
(***************************************************************************)
HostEvent == pc = "idle" /\ events < MaxEvents /\ events' = events + 1

quiet == <<storageVars, segment, oldest_segment, next_frame, generation,
           recorded_load_sequence, localVars, pc, frames>>

\* MmxReplayEnable(), from the Developer option.
Enable(on) ==
  /\ HostEvent
  /\ enabled' = on
  /\ \/ /\ on
        /\ failed' = (failed /\ enabled)
        /\ UNCHANGED <<writerVars, recording, pending, rows>>
     \/ ~on /\ Close
  /\ UNCHANGED <<quiet, machine, snes_frame_counter, rtl_generation,
                 load_sequence, runahead, view>>

\* A saved machine comes back.  X2OnStateLoaded reports every load; the
\* framework's generation counts all but the rollbacks of netplay.
Load(saved, rollback) ==
  /\ HostEvent
  /\ machine' = saved.machine /\ snes_frame_counter' = saved.frame
  /\ load_sequence' = load_sequence + 1
  /\ rtl_generation' = IF rollback THEN rtl_generation ELSE rtl_generation + 1
  /\ UNCHANGED <<writerVars, flagVars, rows, quiet, runahead, view, enabled>>

\* The console is reset: a new generation, but no load callback.
Reset ==
  /\ HostEvent
  /\ machine' = InitialMachine
  /\ rtl_generation' = rtl_generation + 1
  /\ UNCHANGED <<writerVars, flagVars, rows, quiet, snes_frame_counter,
                 load_sequence, runahead, view, enabled>>

\* Run-ahead is switched, or speculative frames begin or end.
ToggleRunahead ==
  /\ HostEvent
  /\ runahead' = ~runahead
  /\ UNCHANGED <<writerVars, flagVars, rows, quiet, machine, snes_frame_counter,
                 rtl_generation, load_sequence, view, enabled>>

\* The window is resized or a rendering option changed.
ChangeView(v) ==
  /\ HostEvent
  /\ view' = v
  /\ UNCHANGED <<writerVars, flagVars, rows, quiet, machine, snes_frame_counter,
                 rtl_generation, load_sequence, runahead, enabled>>

\* MmxReplayShutdown(): close, then SnesReplayWriterDestroy waits for the
\* worker, which goes on with what is queued.
Shutdown ==
  /\ pc = "idle"
  /\ Close
  /\ pc' = "drain"
  /\ UNCHANGED <<hostVars, localVars, storageVars, segment, oldest_segment,
                 next_frame, generation, recorded_load_sequence>>

Drained ==
  /\ pc = "drain" /\ queue = <<>>
  /\ pc' = "gone"
  /\ UNCHANGED <<writerVars, hostVars, localVars, storageVars, tapeVars, flagVars>>

\* The process dies at any point; what the worker had not applied is lost.
Crash ==
  /\ pc # "gone"
  /\ pc' = "gone"
  /\ queue' = <<>>
  /\ UNCHANGED <<openSeg, disk, writerError, hostVars, localVars, storageVars,
                 tapeVars, flagVars>>

Gone == pc = "gone" /\ UNCHANGED vars

-----------------------------------------------------------------------------
GameStep ==
  \/ RecordBegin \/ StartSegment \/ CreateSegment \/ CannotStart
  \/ RetireSegments \/ OpenSegment
  \/ \E n \in SnapshotSizes : TakeSnapshot(n)
  \/ MakeRoom \/ PutSnapshot \/ PutInput \/ RunFrame \/ FrameEnd

HostStep ==
  \/ \E in \in Inputs : BeginFrame(in)
  \/ \E on \in BOOLEAN : Enable(on)
  \/ \E saved \in SavedStates, rollback \in BOOLEAN : Load(saved, rollback)
  \/ Reset \/ ToggleRunahead
  \/ \E v \in Views : ChangeView(v)
  \/ Shutdown

Worker ==
  /\ pc # "gone"
  /\ WorkerStep \/ WorkerFail
  /\ UNCHANGED <<hostVars, localVars, storageVars, tapeVars, flagVars, pc>>

RecorderNext == GameStep \/ HostStep \/ Worker \/ Drained \/ Crash \/ Gone

RecorderSpec == RecorderInit /\ [][RecorderNext]_vars

\* The game thread and the worker thread are both scheduled for ever.
FairRecorder ==
  RecorderSpec /\ WF_vars(GameStep) /\ WF_vars(Worker) /\ WF_vars(Drained)

-----------------------------------------------------------------------------
(***************************************************************************)
(* What a recording is worth.  The properties are checked by MCRecorder and  *)
(* the storage bounds are proved in RecorderProofs.                          *)
(***************************************************************************)
\* The type of every variable.
CmdSet ==
  [op : {"begin", "remove_replay", "remove_sav"}, seg : SegmentIds]
  \cup [op : {"end"}]
  \cup [op : {"snapshot"}, image : ImageSet]
  \cup [op : {"line", "frame"}, row : RowSet]
FileSet ==
  [replay : BOOLEAN, sav : BOOLEAN, rows : Seq(RowSet), images : Seq(ImageSet)]

TypeOK ==
  /\ queue \in Seq(CmdSet) /\ Len(queue) <= QueueCap
  /\ openSeg \in 0..MaxSegment /\ disk \in [SegmentIds -> FileSet]
  /\ writerError \in BOOLEAN
  /\ enabled \in BOOLEAN /\ failed \in BOOLEAN
  /\ pending \in BOOLEAN /\ recording \in BOOLEAN
  /\ segment \in 0..MaxSegment /\ oldest_segment \in Nat
  /\ rows \in Nat /\ next_frame \in Nat
  /\ generation \in Nat /\ load_sequence \in Nat /\ recorded_load_sequence \in Nat
  /\ segment_state_bytes \in Nat /\ history_bytes \in Nat
  /\ history_sizes \in [0..SEGMENTS-1 -> Nat]
  /\ pc \in BeginSteps \cup {"idle", "run", "end", "drain", "gone"}
  /\ size \in Nat /\ input \in Inputs
  /\ machine \in Machines /\ snes_frame_counter \in Nat
  /\ rtl_generation \in Nat /\ runahead \in BOOLEAN /\ view \in Views
  /\ frames \in Nat /\ events \in Nat

\* The images of one session never use more bytes than the storage budget
\* (history_limit(), "at most 256 MiB of machine checkpoints").
HistoryWithinLimit == history_bytes <= HISTORY_LIMIT

\* What the loop of write_snapshot relies on to reach HistoryWithinLimit: when
\* only the current segment is left there is nothing more to evict, so its own
\* images plus the next one must fit.
SegmentWithinLimit == segment_state_bytes <= SegmentLimit

\* The ring is the ledger of history_bytes: while a segment is recorded the
\* retained ones fit the ring, so that no two share a slot; slots outside them
\* are empty; and nothing is counted twice or forgotten, whatever evictions
\* failed half way.
Retained == oldest_segment..segment
RingBytes(sizes) == MapThenSumSet(LAMBDA k : sizes[k], 0..SEGMENTS-1)
LedgerExact ==
  /\ recording => Cardinality(Retained) <= SEGMENTS
  /\ \A k \in (0..SEGMENTS-1) \ {Slot(s) : s \in Retained} : history_sizes[k] = 0
  /\ history_bytes = RingBytes(history_sizes)

\* The recorder, its queue and its worker implement the archive, whatever is
\* loaded, rolled back, reset, refused or lost: only the newest tape grows, by
\* rows that continue it, and the oldest tapes go first, before their images.
Archive == INSTANCE Archive WITH Numbers <- SegmentIds, tapes <- disk, open <- openSeg
ArchiveSpec == Archive!ArchiveSpec

\* The promise to the player's disk, in every state of the worker and after a
\* crash: no more images than the budget, no more segments than SEGMENTS.
ImageBytes(images) == MapThenSumSet(LAMBDA i : images[i].size, 1..Len(images))
DiskBytes(files) == MapThenSumSet(LAMBDA s : ImageBytes(files[s].images), SegmentIds)
DiskWithinLimit ==
  /\ DiskBytes(disk) <= HISTORY_LIMIT
  /\ Cardinality({s \in SegmentIds : disk[s].replay}) <= SEGMENTS

\* Once the worker has caught up the ledger is what is on disk: the budget is
\* neither exceeded nor silently used up by bytes that are no longer there.
LedgerMatchesDisk ==
  queue = <<>> /\ ~writerError /\ pc # "gone" =>
    history_bytes = DiskBytes(disk)

\* The two threads agree on the protocol: the worker only meets commands that
\* make sense, and until the writer fails its open segment is the recorder's.
WriterProtocol ==
  /\ StreamWellFormed
  /\ ~writerError /\ pc # "gone" =>
       OpenAfter(Len(queue)) = IF recording THEN segment ELSE 0

\* Capture never half stops: a failed recorder has no open segment, and an
\* input without its H row belongs to an open segment.
FailureStopsCapture ==
  /\ failed => ~recording
  /\ pending => recording

\* While capture is on, no frame runs unrecorded: its input row has been
\* handed to the writer before the machine moves.
Capturing == (enabled \/ EnvRecord) /\ ~failed /\ ~runahead /\ ~writerError
NoUnrecordedFrame == pc = "run" /\ Capturing => pending /\ next_frame = Frame + 1

\* "Optional recording failures never stop the player's game": MmxReplayBegin
\* gets to the frame, whatever the writer does and however much is evicted.
BeginReturns == pc \in BeginSteps ~> pc \in {"run", "gone"}

=============================================================================

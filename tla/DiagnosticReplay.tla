-------------------------- MODULE DiagnosticReplay --------------------------
(***************************************************************************)
(* A diagnostic report from end to end: a session is recorded (Recorder) with *)
(* its background writer (ReplayWriter), it ends or dies, and a fresh process *)
(* replays one of the tapes it left on disk (Player), with run-ahead off as   *)
(* tools/replay_diagnostic.py sets it.                                        *)
(***************************************************************************)
EXTENDS Recorder

VARIABLES
  replayed,         \* the segment being replayed, or 0 while the session runs
  p_tape, p_finished, p_failed, p_pending, p_playback_loaded,
  p_playback_checkpointed, p_playback_rows, p_stream, p_next_frame, p_pc,
  p_machine, p_snes_frame_counter, p_view, p_input, p_extended_timing,
  p_runahead, p_disturbed, p_io_error, p_status

NeverExtended(v) == FALSE

P == INSTANCE Player WITH
       Tapes <- {}, BootMachine <- InitialMachine, BootView <- InitialView,
       BootInput <- CHOOSE in \in Inputs : TRUE, Extended <- NeverExtended,
       tape <- p_tape, finished <- p_finished, failed <- p_failed,
       pending <- p_pending, playback_loaded <- p_playback_loaded,
       playback_checkpointed <- p_playback_checkpointed,
       playback_rows <- p_playback_rows, stream <- p_stream,
       next_frame <- p_next_frame, pc <- p_pc, machine <- p_machine,
       snes_frame_counter <- p_snes_frame_counter, view <- p_view,
       input <- p_input, extended_timing <- p_extended_timing,
       runahead <- p_runahead, disturbed <- p_disturbed, io_error <- p_io_error,
       status <- p_status

sessionVars == vars
playVars == <<p_finished, p_failed, p_pending, p_playback_loaded,
              p_playback_checkpointed, p_playback_rows, p_stream, p_next_frame,
              p_pc, p_machine, p_snes_frame_counter, p_view, p_input,
              p_extended_timing, p_runahead, p_disturbed, p_io_error, p_status>>
replayVars == <<replayed, p_tape, playVars>>

\* The report made of segment s.  Every image the writer stored is intact; a
\* file the worker has begun has its header, and its rows have the
\* fields that record_begin() and the writer give them, and no more.
Report(s) ==
  [replay |-> disk[s].replay, banner |-> TRUE, header |-> TRUE, sav |-> disk[s].sav,
   rows |-> disk[s].rows, loose |-> {},
   images |-> [i \in 1..Len(disk[s].images) |->
                 [machine |-> disk[s].images[i].machine,
                  frame |-> disk[s].images[i].frame, intact |-> TRUE]]]

NoReport ==
  [replay |-> FALSE, banner |-> FALSE, header |-> FALSE, sav |-> FALSE,
   rows |-> <<>>, loose |-> {}, images |-> <<>>]

Init ==
  /\ RecorderInit
  /\ replayed = 0
  /\ p_tape = NoReport
  /\ P!FreshProcess
  /\ p_runahead = FALSE

\* Of the session only its files remain.
Forgotten ==
  /\ enabled' = FALSE /\ failed' = FALSE /\ pending' = FALSE /\ recording' = FALSE
  /\ segment' = 0 /\ oldest_segment' = 1 /\ rows' = 0 /\ next_frame' = 0
  /\ generation' = 0 /\ load_sequence' = 0 /\ recorded_load_sequence' = 0
  /\ segment_state_bytes' = 0 /\ history_bytes' = 0
  /\ history_sizes' = [k \in 0..SEGMENTS-1 |-> 0]
  /\ size' = 0 /\ input' = CHOOSE in \in Inputs : TRUE
  /\ machine' = InitialMachine /\ snes_frame_counter' = 0
  /\ rtl_generation' = 0 /\ runahead' = FALSE /\ view' = InitialView
  /\ frames' = 0 /\ events' = 0

\* A user picks one of the tapes in the logs folder.
Replay(s) ==
  /\ pc = "gone" /\ replayed = 0
  /\ disk[s].replay
  /\ replayed' = s
  /\ p_tape' = Report(s)
  /\ Forgotten
  /\ UNCHANGED <<queue, openSeg, disk, writerError, pc, playVars>>

Session == replayed = 0 /\ RecorderNext /\ UNCHANGED replayVars

Playback ==
  replayed # 0 /\ (P!PlaybackStep \/ P!Gone) /\ UNCHANGED <<sessionVars, replayed>>

Next == Session \/ (\E s \in SegmentIds : Replay(s)) \/ Playback

Spec == Init /\ [][Next]_<<sessionVars, replayVars>>

-----------------------------------------------------------------------------
Verdict == p_finished \/ p_failed

\* A session's own tapes never diverge and are never refused as damaged or
\* discontinuous: whatever was loaded, rolled back, reset or lost, playback
\* passes exactly when the last recorded frame was completed, unless a file
\* cannot be read.
OwnTapesReplay ==
  /\ p_finished => Completed(p_tape)
  /\ p_failed => ~Completed(p_tape) \/ p_io_error

\* As long as the writer has not failed, only the segment that was open when
\* the process died may be incomplete.  Every other tape passes, or holds no
\* frame at all: eviction in particular never leaves a tape without its images.
\* Nothing is said of the tapes of a writer that has failed at any time.
ClosedTapesPass ==
  p_failed /\ ~p_io_error /\ ~writerError /\ replayed # openSeg => p_tape.rows = <<>>

\* Of every tape that is on disk at any moment - the one being written, one of
\* which only some files have been evicted yet, one that a dead process or a
\* failed writer has left - a report can be made that tools/replay_diagnostic.py
\* accepts: the readers' differences never matter for the recorder's own tapes.
OwnTapesInspected ==
  \A s \in SegmentIds : disk[s].replay => P!Inspect(Report(s))

\* The completed frames of an interrupted tape are not lost with its tail:
\* "--until N" up to the last completed frame is reproducible.
InterruptedTapeUsable ==
  p_failed /\ p_tape.sav =>
    \A n \in 1..Cardinality(P!CompletedRows(p_tape.rows)) :
      P!Reproducible(P!Until(p_tape, n))

=============================================================================

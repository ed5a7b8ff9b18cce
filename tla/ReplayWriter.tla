---------------------------- MODULE ReplayWriter ----------------------------
(***************************************************************************)
(* The background writer that src/mmx_replay.c hands its recording to.  Its  *)
(* code belongs to the framework submodule, which the repository does not    *)
(* contain: this module is external, modelled from the calls in              *)
(* src/mmx_replay.c (SnesReplayWriterBegin, ...Snapshot, ...Line, ...Frame,   *)
(* ...End, ...Remove, ...Error, ...Destroy) and from docs/DIAGNOSTICS.md:     *)
(* "If its bounded queue fills or storage fails, capture stops and gameplay  *)
(* continues."                                                               *)
(*                                                                           *)
(* The game thread only appends commands to a bounded queue.  A worker takes *)
(* them in order and applies each to the files.  A command that does not fit *)
(* latches an error, which the game thread reads at its next frame.          *)
(***************************************************************************)
EXTENDS Integers, Sequences, FiniteSets

CONSTANTS
  QueueCap,     \* commands the queue holds
  MaxSegment    \* bound: segments one session may create

ASSUME WriterAssumption == QueueCap \in Nat \ {0} /\ MaxSegment \in Nat \ {0}

VARIABLES
  queue,        \* commands not yet applied, oldest first
  openSeg,      \* the segment whose files the worker has open, or 0
  disk,         \* disk[s]: the two files of segment s that playback reads
  writerError   \* SnesReplayWriterError(writer) # NULL

writerVars == <<queue, openSeg, disk, writerError>>

SegmentIds == 1..MaxSegment

\* "<stem>-NNNNNN.replay" (rows after the header) and its ".sav" (images).
NoFiles == [replay |-> FALSE, sav |-> FALSE, rows |-> <<>>, images |-> <<>>]

WriterInit ==
  /\ queue = <<>>
  /\ openSeg = 0
  /\ disk = [s \in SegmentIds |-> NoFiles]
  /\ writerError = FALSE

(***************************************************************************)
(* Commands.                                                                 *)
(***************************************************************************)
BeginCmd(s)         == [op |-> "begin", seg |-> s]
EndCmd              == [op |-> "end"]
SnapshotCmd(image)  == [op |-> "snapshot", image |-> image]
LineCmd(row)        == [op |-> "line", row |-> row]
FrameCmd(row)       == [op |-> "frame", row |-> row]
RemoveReplayCmd(s)  == [op |-> "remove_replay", seg |-> s]
RemoveSavCmd(s)     == [op |-> "remove_sav", seg |-> s]

\* Would every one of n further commands be taken?
Accepts(n) == ~writerError /\ Len(queue) + n <= QueueCap

\* The game thread hands over the commands, in order, up to the first that
\* is refused; a refusal latches the error.
OfferAll(cmds) ==
  LET fits == IF writerError THEN 0
              ELSE IF Accepts(Len(cmds)) THEN Len(cmds) ELSE QueueCap - Len(queue)
  IN  /\ queue' = queue \o SubSeq(cmds, 1, fits)
      /\ writerError' = (writerError \/ ~Accepts(Len(cmds)))
      /\ UNCHANGED <<openSeg, disk>>

Offer(cmd) == OfferAll(<<cmd>>)

(***************************************************************************)
(* The worker.                                                               *)
(***************************************************************************)
\* An image lands in the .sav before the S row that names its position.
ApplySnapshot(file, image) ==
  [file EXCEPT !.images = Append(@, image),
               !.rows = Append(@, [kind |-> "S", image |-> Len(file.images) + 1])]

\* The files once a command is applied to them, while segment open is written.
Applied(files, open, cmd) ==
  CASE cmd.op = "begin" ->
         [files EXCEPT ![cmd.seg] =
            [replay |-> TRUE, sav |-> TRUE, rows |-> <<>>, images |-> <<>>]]
    [] cmd.op = "snapshot" ->
         [files EXCEPT ![open] = ApplySnapshot(@, cmd.image)]
    [] cmd.op \in {"line", "frame"} ->
         [files EXCEPT ![open].rows = Append(@, cmd.row)]
    [] cmd.op = "remove_replay" ->
         [files EXCEPT ![cmd.seg].replay = FALSE, ![cmd.seg].rows = <<>>]
    [] cmd.op = "remove_sav" ->
         [files EXCEPT ![cmd.seg].sav = FALSE, ![cmd.seg].images = <<>>]
    [] cmd.op = "end" -> files

\* The segment that is written then.
OpenThen(open, cmd) ==
  CASE cmd.op = "begin" -> cmd.seg [] cmd.op = "end" -> 0 [] OTHER -> open

WorkerStep ==
  /\ queue # <<>>
  /\ disk' = Applied(disk, openSeg, Head(queue))
  /\ openSeg' = OpenThen(openSeg, Head(queue))
  /\ queue' = Tail(queue)
  /\ UNCHANGED writerError

\* Storage fails: the command in hand and everything behind it is dropped.
WorkerFail ==
  /\ queue # <<>>
  /\ ~writerError
  /\ writerError' = TRUE
  /\ queue' = <<>>
  /\ openSeg' = 0
  /\ UNCHANGED disk

(***************************************************************************)
(* What the worker relies on.                                                *)
(***************************************************************************)
SegmentCmds == {"snapshot", "line", "frame"}

\* The segment the worker will have open once the first n commands are done.
OpenAfter(n) ==
  LET marks == {i \in 1..n : queue[i].op \in {"begin", "end"}}
  IN  IF marks = {} THEN openSeg
      ELSE LET last == CHOOSE i \in marks : \A j \in marks : j <= i
           IN  IF queue[last].op = "begin" THEN queue[last].seg ELSE 0

\* Every queued command meets the files in a state where it makes sense: rows
\* and images only inside a segment, no segment opened inside another, and no
\* removal of the files being written.
StreamWellFormed ==
  \A i \in 1..Len(queue) :
    LET cmd == queue[i] open == OpenAfter(i - 1)
    IN  /\ cmd.op \in SegmentCmds \cup {"end"} => open # 0
        /\ cmd.op = "begin" => open = 0
        /\ cmd.op \in {"remove_replay", "remove_sav"} => cmd.seg # open

=============================================================================

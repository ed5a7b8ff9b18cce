---------------------------- MODULE PlayerProofs ----------------------------
(***************************************************************************)
(* Theorems about Player: for every set of tapes, however damaged, and every *)
(* machine, the verdict of a diagnostic replay is right.                     *)
(*                                                                           *)
(* The argument reads the tape with the player.  Before stream every row is  *)
(* one that a reproducible tape may have, and the machine is the one that    *)
(* the last row describes; the player fails exactly at the row that no       *)
(* reproducible tape can have there.  What the rows are (Kinds) holds even   *)
(* when the player of the game loads a state in between; that they are right *)
(* (Follows) only while nobody does.                                         *)
(***************************************************************************)
EXTENDS Player, TLAPS, FiniteSetTheorems, SequenceTheorems

-----------------------------------------------------------------------------
(***************************************************************************)
(* The invariant.                                                            *)
(***************************************************************************)
rows == tape.rows
Playing == ~finished /\ ~failed
Before(kind) == stream > 1 /\ rows[stream - 1].kind = kind

PTypes ==
  /\ tape \in Tapes /\ stream \in 1..Len(rows)+1 /\ playback_rows \in Nat
  /\ finished \in BOOLEAN /\ failed \in BOOLEAN /\ extended_timing \in BOOLEAN
  /\ io_error \in BOOLEAN
  /\ pc \in {"open", "idle", "row", "input", "run", "end", "after", "quit", "gone"}

\* The verdict is given once, and only a whole playback passes; what can still
\* fail after that is the closing of its files.
Verdicts ==
  /\ finished /\ failed => io_error
  /\ io_error => failed
  /\ pc \in {"open", "idle", "row", "input", "run", "end"} => Playing
  /\ pc \in {"row", "input", "run", "end"} \/ finished => playback_loaded
  /\ pc = "idle" \/ playback_loaded => tape.replay
  /\ pc = "after" /\ Playing => tape.replay
  /\ playback_loaded => Loadable
  /\ finished => AtEof /\ playback_rows > 0
  /\ status = 0 => finished /\ ~failed

\* The rows that have been read, and where among them a frame stands.
Hashes(n) == {i \in CompletedRows(rows) : i < n}
FrameBegins == stream = 1 \/ Before("H")
Kinds ==
  /\ pc \in {"open", "idle", "row", "after"} =>
       FrameBegins /\ (stream = 1 <=> playback_rows = 0)
  /\ pc = "input" => ~AtEof /\ (Before("S") \/ (FrameBegins /\ Row.kind # "S"))
  /\ pc \in {"run", "end"} => Before("I")
  /\ stream = 1 <=> ~playback_checkpointed
  /\ playback_rows = Cardinality(Hashes(stream))
  /\ \A i \in 1..stream-1 : Allowed(rows[i], Unfinished(rows, i - 1))

\* No row before n keeps the tape from being reproducible.
IntactRow(i) ==
  rows[i].kind = "S" => rows[i].image \in DOMAIN tape.images /\ tape.images[rows[i].image].intact
Extends(i) == rows[i].kind = "I" /\ Extended(rows[i].view)
Right(n) ==
  /\ \A i \in 1..n-1 : Chained(tape, i) /\ IntactRow(i)
  /\ \A i, j \in 1..n-1 : i < j /\ Extends(i) /\ rows[j].kind = "I" => Extends(j)
  /\ extended_timing <=> \E i \in 1..n-1 : Extends(i)

\* The machine is the one that row i describes.
At(i) == Described(tape, rows[i]) = [machine |-> machine, frame |-> snes_frame_counter]

Follows ==
  /\ Right(stream)
  /\ pc \in {"open", "idle", "row", "after"} => stream = 1 \/ At(stream - 1)
  /\ pc = "input" => stream = 1 \/ At(stream - 1)
  /\ pc = "run" =>
       /\ stream > 2 /\ At(stream - 2)
       /\ rows[stream - 1].input = input /\ rows[stream - 1].view = view
       /\ rows[stream - 1].frame = snes_frame_counter /\ next_frame = snes_frame_counter + 1
  /\ pc = "end" =>
       /\ stream > 2 /\ next_frame = rows[stream - 1].frame + 1
       /\ snes_frame_counter = next_frame
       /\ machine = Step(Described(tape, rows[stream - 2]).machine,
                         rows[stream - 1].input, rows[stream - 1].view)

PInv ==
  /\ PTypes /\ Verdicts
  /\ ~failed \/ finished => Kinds
  /\ ~disturbed =>
       /\ Playing => Follows
       /\ finished => Reproducible(tape) /\ ~runahead
       /\ failed => ~Reproducible(tape) \/ runahead \/ io_error

-----------------------------------------------------------------------------
(***************************************************************************)
(* Reading one more row.                                                     *)
(***************************************************************************)
\* A tape is a sequence of rows, of which the player is at one.
LEMMA TapeRows ==
  ASSUME PTypes
  PROVE  /\ Len(rows) \in Nat /\ DOMAIN rows = 1..Len(rows)
         /\ stream \in Nat /\ stream >= 1 /\ stream <= Len(rows) + 1
         /\ AtEof <=> stream = Len(rows) + 1
         /\ \A i \in 1..Len(rows) : rows[i].kind = "I" => Extended(rows[i].view) \in BOOLEAN
<1>1. rows \in Seq({rows[i] : i \in DOMAIN rows})
  BY TapesAssumption DEF PTypes, rows
<1>2. Len(rows) \in Nat /\ DOMAIN rows = 1..Len(rows)
  BY <1>1
<1>3. stream \in 1..Len(rows)+1
  BY DEF PTypes
<1>4. \A i \in DOMAIN rows : rows[i].kind = "I" => Extended(rows[i].view) \in BOOLEAN
  BY TapesAssumption DEF PTypes, rows
<1> QED
  BY <1>2, <1>3, <1>4 DEF AtEof, rows

\* Reading a row that a reproducible tape may have there.
LEMMA RightNext ==
  ASSUME PTypes, Right(stream), ~AtEof, tape' = tape, stream' = stream + 1,
         Chained(tape, stream), IntactRow(stream),
         IF Row.kind = "I"
         THEN /\ extended_timing' <=> Extended(Row.view)
              /\ extended_timing => Extended(Row.view)
         ELSE extended_timing' = extended_timing
  PROVE  Right(stream)'
<1>1. /\ stream \in Nat /\ stream >= 1 /\ stream' - 1 = stream
      /\ 1..stream'-1 = (1..stream-1) \cup {stream} /\ stream \notin 1..stream-1
      /\ \A i \in 1..stream-1 : i < stream
  BY TapeRows
<1>2. rows' = rows /\ Row = rows[stream]
  BY DEF rows, Row
<1>3. \A i : Extends(i)' = Extends(i) /\ IntactRow(i)' = IntactRow(i)
  BY <1>2 DEF Extends, IntactRow
<1>4. \A i \in 1..stream'-1 : Chained(tape', i) /\ IntactRow(i)'
  BY <1>1, <1>3 DEF Right
<1>5. \A i, j \in 1..stream'-1 : i < j /\ Extends(i) /\ rows[j].kind = "I" => Extends(j)
  <2> SUFFICES ASSUME NEW i \in 1..stream'-1, NEW j \in 1..stream'-1,
                      i < j, Extends(i), rows[j].kind = "I"
               PROVE  Extends(j)
    OBVIOUS
  <2>1. i \in 1..stream-1
    BY <1>1
  <2>2. CASE j \in 1..stream-1
    BY <2>1, <2>2 DEF Right
  <2>3. CASE j = stream
    <3>1. extended_timing
      BY <2>1 DEF Right
    <3> QED
      BY <1>2, <2>3, <3>1 DEF Extends
  <2> QED
    BY <1>1, <2>2, <2>3
<1>6. extended_timing' <=> \E i \in 1..stream'-1 : Extends(i)
  <2>1. (\E i \in 1..stream'-1 : Extends(i)) <=> extended_timing \/ Extends(stream)
    BY <1>1 DEF Right
  <2>2. CASE Row.kind = "I"
    BY <1>2, <2>1, <2>2 DEF Extends
  <2>3. CASE Row.kind # "I"
    BY <1>2, <2>1, <2>3 DEF Extends
  <2> QED
    BY <2>2, <2>3
<1>7. \A n : n = stream' => Right(n)'
  BY <1>2, <1>3, <1>4, <1>5, <1>6 DEF Right
<1> QED
  BY <1>7

\* A row that no reproducible tape has.
LEMMA Doomed ==
  ASSUME PTypes, NEW i \in 1..Len(rows), ~Chained(tape, i) \/ ~IntactRow(i)
  PROVE  ~Reproducible(tape)
  BY DEF Reproducible, Faithful, IntactImages, IntactRow, rows

\* Counting them.
LEMMA HashesNext ==
  ASSUME PTypes, ~AtEof, tape' = tape, stream' = stream + 1
  PROVE  /\ Cardinality(Hashes(stream)) \in Nat
         /\ Row.kind = "H" => Cardinality(Hashes(stream)') = Cardinality(Hashes(stream)) + 1
         /\ Row.kind # "H" => Hashes(stream)' = Hashes(stream)
<1>1. Len(rows) \in Nat /\ stream \in 1..Len(rows) /\ stream \in Nat
  BY TapeRows
<1>2. IsFiniteSet(Hashes(stream))
  <2>1. IsFiniteSet(1..Len(rows)) /\ Hashes(stream) \subseteq 1..Len(rows)
    BY <1>1, FS_Interval DEF Hashes, CompletedRows
  <2> QED
    BY <2>1, FS_Subset
<1>3. rows' = rows /\ Row = rows[stream] /\ CompletedRows(rows)' = CompletedRows(rows)
  BY DEF rows, Row, CompletedRows
<1>4. Row.kind = "H" => Hashes(stream)' = Hashes(stream) \cup {stream}
  BY <1>1, <1>3 DEF Hashes, CompletedRows
<1>5. Row.kind # "H" => Hashes(stream)' = Hashes(stream)
  BY <1>1, <1>3 DEF Hashes, CompletedRows
<1>6. stream \notin Hashes(stream)
  BY <1>1 DEF Hashes
<1> QED
  BY <1>2, <1>4, <1>5, <1>6, FS_AddElement, FS_CardinalityType

\* A row that is allowed extends what inspection accepts.
LEMMA AllowedNext ==
  ASSUME PTypes, ~AtEof, tape' = tape, stream' = stream + 1,
         \A i \in 1..stream-1 : Allowed(rows[i], Unfinished(rows, i - 1)),
         Allowed(Row, stream > 1 /\ rows[stream - 1].kind = "I")
  PROVE  (\A i \in 1..stream-1 : Allowed(rows[i], Unfinished(rows, i - 1)))'
<1>1. stream \in Nat /\ stream >= 1 /\ 1..stream'-1 = (1..stream-1) \cup {stream}
  BY TapeRows
<1>2. rows' = rows /\ Row = rows[stream]
  BY DEF rows, Row
<1>3. Unfinished(rows, stream - 1) <=> stream > 1 /\ rows[stream - 1].kind = "I"
  BY <1>1 DEF Unfinished
<1>4. Allowed(rows[stream], Unfinished(rows, stream - 1))
  BY <1>2, <1>3 DEF Allowed
<1> QED
  BY <1>1, <1>2, <1>4

-----------------------------------------------------------------------------
(***************************************************************************)
(* The steps that read nothing.                                              *)
(***************************************************************************)
\* What a step that neither reads nor runs a frame leaves as it is.
LEMMA Unmoved ==
  ASSUME UNCHANGED <<tape, stream, playback_rows, playback_checkpointed, extended_timing>>
  PROVE  /\ rows' = rows /\ Row' = Row /\ (AtEof' <=> AtEof)
         /\ (FrameBegins' <=> FrameBegins) /\ (\A k : Before(k)' <=> Before(k))
         /\ Hashes(stream)' = Hashes(stream)
         /\ (Right(stream)' <=> Right(stream))
         /\ (Reproducible(tape)' <=> Reproducible(tape))
<1>1. rows' = rows /\ Row' = Row /\ (AtEof' <=> AtEof)
  BY DEF rows, Row, AtEof
<1>2. Hashes(stream)' = Hashes(stream)
  BY <1>1 DEF Hashes, CompletedRows
<1>3. FrameBegins' <=> FrameBegins
  BY <1>1 DEF FrameBegins, Before
<1>4. \A k : Before(k)' <=> Before(k)
  BY <1>1 DEF Before
<1>5. Right(stream)' <=> Right(stream)
  BY <1>1 DEF Right, Extends, IntactRow
<1>6. Reproducible(tape)' <=> Reproducible(tape)
  OBVIOUS
<1> QED
  BY <1>1, <1>2, <1>3, <1>4, <1>5, <1>6

\* MmxReplayPlayback() opens the report, or exits.
LEMMA OpenStep == ASSUME PInv, OpenPlayback PROVE PInv'
<1>1. /\ pc = "open" /\ Playing /\ Kinds
      /\ UNCHANGED <<tape, stream, playback_rows, playback_checkpointed, playback_loaded,
                     extended_timing, machine, snes_frame_counter, finished, disturbed,
                     runahead, next_frame, view, input, io_error>>
  BY DEF PInv, Verdicts, Playing, OpenPlayback, machineVars, fixedVars
<1>2. CASE tape.replay /\ pc' = "idle" /\ UNCHANGED <<failed, pending, status>>
  <2>1. PTypes'
    BY <1>1, <1>2, Unmoved DEF PInv, PTypes
  <2>2. Verdicts'
    BY <1>1, <1>2, Unmoved DEF PInv, Verdicts, Playing, Loadable
  <2>3. Kinds'
    BY <1>1, <1>2, Unmoved DEF Kinds
  <2>4. ~disturbed => Follows'
    BY <1>1, <1>2, Unmoved DEF PInv, Follows, At
  <2> QED
    BY <1>1, <1>2, <2>1, <2>2, <2>3, <2>4 DEF PInv, Playing
<1>3. CASE ~tape.replay /\ Fail /\ pc' = "gone" /\ status' = 2
  <2>1. PTypes'
    BY <1>1, <1>3, Unmoved DEF PInv, PTypes, Fail
  <2>2. Verdicts'
    BY <1>1, <1>3, Unmoved DEF PInv, Verdicts, Playing, Loadable, Fail
  <2>3. ~Reproducible(tape)'
    BY <1>1, <1>3 DEF Reproducible
  <2> QED
    BY <1>1, <1>3, <2>1, <2>2, <2>3 DEF PInv, Playing, Fail
<1> QED
  BY <1>2, <1>3 DEF OpenPlayback

\* load_playback() refuses only what cannot be reproduced.
LEMMA LoadStep == ASSUME PInv, LoadPlayback PROVE PInv'
<1>1. /\ pc = "idle" /\ Playing /\ Kinds /\ tape.replay
      /\ UNCHANGED <<tape, stream, playback_rows, playback_checkpointed, extended_timing,
                     machine, snes_frame_counter, finished, disturbed, runahead,
                     next_frame, view, input, status, io_error>>
  BY DEF PInv, Verdicts, Playing, LoadPlayback, machineVars, fixedVars
<1>2. CASE /\ playback_loaded \/ Loadable
           /\ playback_loaded' = TRUE /\ pc' = "row" /\ UNCHANGED <<failed, pending>>
  <2>1. PTypes'
    BY <1>1, <1>2, Unmoved DEF PInv, PTypes
  <2>2. Verdicts'
    BY <1>1, <1>2, Unmoved DEF PInv, Verdicts, Playing, Loadable
  <2>3. Kinds'
    BY <1>1, <1>2, Unmoved DEF Kinds
  <2>4. ~disturbed => Follows'
    BY <1>1, <1>2, Unmoved DEF PInv, Follows, At
  <2> QED
    BY <1>1, <1>2, <2>1, <2>2, <2>3, <2>4 DEF PInv, Playing
<1>3. CASE ~playback_loaded /\ ~Loadable /\ Fail /\ pc' = "after" /\ UNCHANGED playback_loaded
  <2>1. PTypes'
    BY <1>1, <1>3, Unmoved DEF PInv, PTypes, Fail
  <2>2. Verdicts'
    BY <1>1, <1>3, Unmoved DEF PInv, Verdicts, Playing, Loadable, Fail
  <2>3. ~Reproducible(tape)' \/ runahead'
    BY <1>1, <1>3 DEF Reproducible, Loadable
  <2> QED
    BY <1>1, <1>3, <2>1, <2>2, <2>3 DEF PInv, Playing, Fail
<1> QED
  BY <1>2, <1>3 DEF LoadPlayback

\* The frame loop goes on or stops; the window closes; the process exits.
LEMMA LoopStep ==
  ASSUME PInv, AfterFrame \/ CloseWindow \/ Exit \/ SkipCheckpoint \/ UNCHANGED playerVars
  PROVE  PInv'
<1>1. /\ UNCHANGED <<tape, stream, playback_rows, playback_checkpointed, extended_timing,
                     machine, snes_frame_counter, finished, playback_loaded,
                     disturbed, runahead, next_frame, view, input>>
      /\ \/ UNCHANGED <<failed, io_error>>
         \/ /\ pc = "quit" /\ pc' = "gone" /\ Playing
            /\ failed' = TRUE /\ io_error' = TRUE
  BY DEF Playing, AfterFrame, CloseWindow, Exit, SkipCheckpoint, playerVars, stateVars, machineVars,
     fixedVars
<1>2. /\ \/ pc = "after" /\ pc' = "quit"
         \/ pc = "after" /\ Playing /\ pc' = "idle"
         \/ pc = "idle" /\ pc' = "quit"
         \/ pc = "quit" /\ pc' = "gone"
         \/ pc = "row" /\ ~AtEof /\ Row.kind # "S" /\ pc' = "input"
         \/ pc' = pc
      /\ \/ status' = status
         \/ pc' = "gone" /\ (status' = 0 => finished /\ ~failed)
  BY DEF AfterFrame, CloseWindow, Exit, ExitStatus, SkipCheckpoint, playerVars, QuitWanted,
     Playing
<1>3. PTypes'
  BY <1>1, <1>2, Unmoved DEF PInv, PTypes
<1>4. Verdicts'
  BY <1>1, <1>2, Unmoved DEF PInv, Verdicts, Playing, Loadable
<1>5. ~failed \/ finished => Kinds'
  BY <1>1, <1>2, Unmoved DEF PInv, Kinds
<1>6. ~disturbed /\ Playing => Follows'
  BY <1>1, <1>2, Unmoved DEF PInv, Follows, At
<1> QED
  BY <1>1, <1>3, <1>4, <1>5, <1>6, Unmoved DEF PInv, Playing

\* After a load by hand nothing more is claimed of the machine.
LEMMA DisturbStep == ASSUME PInv, Disturb PROVE PInv'
<1>1. /\ UNCHANGED <<tape, stream, playback_rows, playback_checkpointed, extended_timing,
                     finished, failed, io_error, playback_loaded, runahead, next_frame, pc,
                     status>>
      /\ disturbed' = TRUE
  BY DEF Disturb, stateVars, fixedVars
<1>2. PTypes'
  BY <1>1, Unmoved DEF PInv, PTypes
<1>3. Verdicts'
  BY <1>1, Unmoved DEF PInv, Verdicts, Playing, Loadable
<1>4. ~failed \/ finished => Kinds'
  BY <1>1, Unmoved DEF PInv, Kinds
<1> QED
  BY <1>1, <1>2, <1>3, <1>4 DEF PInv

-----------------------------------------------------------------------------
(***************************************************************************)
(* The steps that read.                                                      *)
(***************************************************************************)
\* A step that fails, rightly unless somebody interfered.
LEMMA FailStep ==
  ASSUME PInv, Playing, Fail, pc' = "after", stream' \in 1..Len(rows)+1,
         UNCHANGED <<tape, playback_rows, playback_loaded, finished, runahead, disturbed,
                     status>>,
         extended_timing' \in BOOLEAN, io_error' \in BOOLEAN,
         ~disturbed => ~Reproducible(tape) \/ runahead \/ io_error'
  PROVE  PInv'
<1>1. PTypes'
  BY DEF PInv, PTypes, Fail, rows
<1>2. Verdicts'
  BY DEF PInv, Verdicts, Playing, Fail, Loadable
<1> QED
  BY <1>1, <1>2 DEF PInv, Playing, Fail

\* A tape that has been read to its end, in order, is reproducible.
LEMMA ReadToTheEnd ==
  ASSUME PTypes, Right(Len(rows) + 1), rows # <<>>, rows[Len(rows)].kind = "H",
         Loadable, tape.replay
  PROVE  Reproducible(tape) /\ ~runahead
<1>1. Len(rows) \in Nat /\ (Len(rows) + 1) - 1 = Len(rows)
  BY TapeRows
<1>2. Faithful(tape) /\ IntactImages(tape) /\ TimingOnlyExtends(tape) /\ Completed(tape)
  BY <1>1 DEF Right, Faithful, IntactImages, IntactRow, TimingOnlyExtends, Extends, Completed,
     rows
<1> QED
  BY <1>2 DEF Reproducible, Loadable

\* A tape that ends with another row is not.
LEMMA NotCompleted ==
  ASSUME rows = <<>> \/ rows[Len(rows)].kind # "H"
  PROVE  ~Reproducible(tape)
  BY DEF Reproducible, Completed, rows

\* Finish, but for finished itself.
ClosedOrNot ==
  \/ UNCHANGED <<failed, io_error>>
  \/ failed' = TRUE /\ io_error' = TRUE

\* The rows are at an end where a frame should begin.
LEMMA NoMoreStep == ASSUME PInv, NoMoreRows PROVE PInv'
<1>1. /\ pc = "row" /\ pc' = "after" /\ AtEof /\ Playing /\ Kinds /\ PTypes
      /\ playback_loaded /\ tape.replay /\ Loadable
      /\ UNCHANGED <<tape, stream, playback_rows, playback_checkpointed, playback_loaded,
                     extended_timing, disturbed, runahead, status>>
  BY DEF PInv, Verdicts, Playing, NoMoreRows, machineVars, fixedVars
<1>2. stream = Len(rows) + 1 /\ Len(rows) \in Nat /\ stream - 1 = Len(rows)
  BY <1>1, TapeRows
<1>3. rows \in Seq({rows[i] : i \in DOMAIN rows})
  BY <1>1, TapesAssumption DEF PTypes, rows
<1>4. CASE playback_rows = 0
  <2>1. Fail /\ finished' = finished /\ io_error' = io_error
    BY <1>4 DEF NoMoreRows
  <2>2. Len(rows) = 0
    BY <1>1, <1>2, <1>4 DEF Kinds
  <2>3. rows = <<>>
    BY <1>3, <2>2
  <2>4. stream' \in 1..Len(rows)+1 /\ extended_timing' \in BOOLEAN /\ io_error' \in BOOLEAN
    BY <1>1, <2>1 DEF PTypes
  <2> QED
    BY <1>1, <2>1, <2>3, <2>4, NotCompleted, FailStep
<1>5. CASE playback_rows # 0
  <2>1. finished' = TRUE /\ ClosedOrNot
    BY <1>5 DEF NoMoreRows, Finish, ClosedOrNot
  <2>2. stream # 1 /\ rows[Len(rows)].kind = "H" /\ Len(rows) # 0
    BY <1>1, <1>2, <1>5 DEF Kinds, FrameBegins, Before
  <2>3. rows # <<>>
    BY <2>2
  <2>4. ~disturbed => Reproducible(tape) /\ ~runahead
    BY <1>1, <1>2, <2>2, <2>3, ReadToTheEnd DEF PInv, Follows
  <2>5. PTypes'
    BY <1>1, <2>1, Unmoved DEF PTypes, ClosedOrNot
  <2>6. Verdicts'
    BY <1>1, <1>5, <2>1, Unmoved DEF PInv, PTypes, Verdicts, Playing, Loadable, ClosedOrNot
  <2>7. Kinds'
    BY <1>1, <2>1, Unmoved DEF Kinds
  <2> QED
    BY <1>1, <2>1, <2>4, <2>5, <2>6, <2>7 DEF PInv, Playing, ClosedOrNot
<1> QED
  BY <1>4, <1>5

\* A file that cannot be read ends the playback, wherever it is.
LEMMA ReadErrorStep == ASSUME PInv, ReadError PROVE PInv'
<1>1. /\ pc \in {"idle", "row", "end"} /\ Playing /\ PTypes
      /\ Fail /\ pc' = "after" /\ io_error' = TRUE
      /\ UNCHANGED <<tape, stream, playback_rows, playback_loaded, extended_timing,
                     disturbed, runahead, status, finished>>
  BY DEF PInv, Verdicts, Playing, ReadError, machineVars, fixedVars
<1>2. stream' \in 1..Len(rows)+1 /\ extended_timing' \in BOOLEAN /\ io_error' \in BOOLEAN
  BY <1>1 DEF PTypes
<1> QED
  BY <1>1, <1>2, FailStep

\* An image is loaded, or the tape is not reproducible.
LEMMA CheckpointStep == ASSUME PInv, ReadCheckpoint PROVE PInv'
<1>1. /\ pc = "row" /\ ~AtEof /\ Playing /\ Kinds /\ PTypes /\ Row.kind = "S"
      /\ playback_loaded /\ tape.replay /\ Loadable
      /\ UNCHANGED <<tape, playback_rows, playback_loaded, extended_timing, disturbed,
                     runahead, status, finished>>
  BY DEF PInv, Verdicts, Playing, ReadCheckpoint, fixedVars
<1>2. /\ Len(rows) \in Nat /\ stream \in 1..Len(rows) /\ stream \in Nat
      /\ Row = rows[stream] /\ rows' = rows
  BY <1>1, TapeRows DEF Row, rows
<1>3. CASE /\ Intact(Row) /\ stream < Len(tape.rows)
           /\ machine' = tape.images[Row.image].machine
           /\ snes_frame_counter' = tape.images[Row.image].frame
           /\ playback_checkpointed' = TRUE /\ stream' = stream + 1 /\ pc' = "input"
           /\ UNCHANGED <<failed, pending, io_error>>
  <2>1. stream < Len(rows) /\ IntactRow(stream)
    BY <1>2, <1>3 DEF Intact, IntactRow, rows
  <2>2. Chained(tape, stream)
    BY <1>1, <1>2 DEF Chained, PlacedImage, Kinds, FrameBegins, Before, rows
  <2>3. stream' - 1 = stream /\ stream' \in 1..Len(rows) /\ stream' > 1
    BY <1>2, <1>3, <2>1
  <2>4. PTypes'
    BY <1>1, <1>2, <1>3, <2>3 DEF PTypes
  <2>5. ~AtEof'
    BY <1>2, <2>3 DEF AtEof, rows
  <2>6. Verdicts'
    BY <1>1, <1>3 DEF PInv, Verdicts, Playing, Loadable
  <2>7. Kinds'
    <3>1. Before("S")'
      BY <1>1, <1>2, <2>3 DEF Before
    <3>2. Hashes(stream)' = Hashes(stream)
      BY <1>1, <1>3, HashesNext
    <3>3. Allowed(Row, stream > 1 /\ rows[stream - 1].kind = "I")
      BY <1>1, <1>2 DEF Allowed, Kinds, FrameBegins, Before
    <3>4. (\A i \in 1..stream-1 : Allowed(rows[i], Unfinished(rows, i - 1)))'
      BY <1>1, <1>3, <3>3, AllowedNext DEF Kinds
    <3> QED
      BY <1>1, <1>3, <2>3, <2>5, <3>1, <3>2, <3>4 DEF Kinds
  <2>8. ~disturbed => Follows'
    <3>1. ~disturbed => Right(stream)'
      BY <1>1, <1>3, <2>1, <2>2, RightNext DEF PInv, Follows
    <3>2. At(stream - 1)'
      BY <1>1, <1>2, <1>3, <2>3 DEF At, Described
    <3> QED
      BY <1>3, <3>1, <3>2 DEF Follows
  <2> QED
    BY <1>1, <1>3, <2>4, <2>6, <2>7, <2>8 DEF PInv, Playing
<1>4. CASE /\ ~Intact(Row) /\ Fail /\ pc' = "after"
           /\ UNCHANGED <<playback_checkpointed, stream, io_error>>
  <2>1. ~IntactRow(stream)
    BY <1>1, <1>2, <1>4 DEF Intact, IntactRow, rows
  <2>2. ~Reproducible(tape)
    BY <1>1, <1>2, <2>1, Doomed
  <2> QED
    BY <1>1, <1>2, <1>4, <2>2, FailStep DEF PTypes
<1>5. CASE /\ Fail /\ pc' = "after" /\ io_error' = (stream < Len(tape.rows))
           /\ UNCHANGED <<playback_checkpointed, stream>>
  <2>1. /\ io_error' \in BOOLEAN /\ stream' \in 1..Len(rows)+1
        /\ extended_timing' \in BOOLEAN
    BY <1>1, <1>2, <1>5 DEF PTypes
  <2>2. io_error' \/ ~Reproducible(tape)
    <3>1. stream = Len(rows) => ~Reproducible(tape)
      BY <1>1, <1>2, NotCompleted
    <3>2. stream < Len(rows) \/ stream = Len(rows)
      BY <1>2
    <3>3. stream < Len(rows) => io_error'
      BY <1>5, Zenon DEF rows
    <3> QED
      BY <3>1, <3>2, <3>3
  <2> QED
    BY <1>1, <1>5, <2>1, <2>2, FailStep
<1> QED
  BY <1>3, <1>4, <1>5 DEF ReadCheckpoint

\* While nobody interferes, an input row is accepted exactly where it belongs.
LEMMA InputBelongs ==
  ASSUME PInv, pc = "input", ~disturbed
  PROVE  Accepted(Row) <=> Chained(tape, stream)
<1>1. Kinds /\ PTypes /\ Follows
  BY DEF PInv, Verdicts, Playing
<1>2. stream \in Nat /\ stream >= 1 /\ Row = rows[stream]
  BY <1>1, TapeRows DEF Row, rows
<1>3. Row.kind # "S" \/ Before("S")
  BY <1>1 DEF Kinds
<1>4. CASE Row.kind = "I"
  <2>1. Chained(tape, stream) <=> ChainedInput(tape, stream)
    BY <1>2, <1>4 DEF Chained, rows
  <2>2. CASE stream = 1
    BY <1>1, <1>4, <2>1, <2>2 DEF Kinds, Accepted, ChainedInput
  <2>3. CASE stream > 1
    <3>1. rows[stream - 1].kind \in {"S", "H"} /\ playback_checkpointed
      BY <1>1, <2>3 DEF Kinds, FrameBegins, Before
    <3>2. Described(tape, rows[stream - 1]).frame = snes_frame_counter
      BY <1>1, <2>3 DEF Follows, At
    <3> QED
      BY <1>2, <1>4, <2>1, <2>3, <3>1, <3>2 DEF Accepted, ChainedInput, rows
  <2> QED
    BY <1>2, <2>2, <2>3
<1>5. CASE Row.kind # "I"
  <2>1. ~Accepted(Row)
    BY <1>5 DEF Accepted
  <2>2. CASE Row.kind = "S"
    <3>1. stream > 1 /\ rows[stream - 1].kind = "S"
      BY <1>3, <2>2 DEF Before
    <3> QED
      BY <1>2, <2>1, <2>2, <3>1 DEF Chained, PlacedImage, rows
  <2>3. CASE Row.kind = "H"
    <3>1. stream = 1 \/ rows[stream - 1].kind \in {"S", "H"}
      BY <1>1 DEF Kinds, FrameBegins, Before
    <3> QED
      BY <1>2, <2>1, <2>3, <3>1 DEF Chained, ChainedHash, rows
  <2>4. CASE Row.kind \notin {"S", "I", "H"}
    BY <1>2, <2>1, <2>4 DEF Chained, rows
  <2> QED
    BY <1>5, <2>2, <2>3, <2>4
<1> QED
  BY <1>4, <1>5

\* The timing mode that a reproducible tape never asks to switch back.
LEMMA TimingBelongs ==
  ASSUME PTypes, Right(stream), ~AtEof, Row.kind = "I", extended_timing, ~Extended(Row.view)
  PROVE  ~Reproducible(tape)
<1>1. stream \in 1..Len(rows) /\ Row = rows[stream] /\ Len(rows) \in Nat
  BY TapeRows DEF Row, rows
<1>2. PICK i \in 1..stream-1 : Extends(i)
  BY DEF Right
<1>3. i \in 1..Len(rows) /\ i < stream
  BY <1>1, <1>2
<1> QED
  BY <1>1, <1>2, <1>3 DEF Reproducible, TimingOnlyExtends, Extends, rows

\* The input of the frame is used, or the tape is not reproducible.
LEMMA InputStep == ASSUME PInv, ReadInput PROVE PInv'
<1>1. /\ pc = "input" /\ ~AtEof /\ Playing /\ Kinds /\ PTypes /\ stream' = stream + 1
      /\ playback_loaded /\ tape.replay /\ Loadable
      /\ UNCHANGED <<tape, playback_rows, playback_loaded, disturbed, runahead, status,
                     finished, machine, snes_frame_counter, playback_checkpointed, io_error>>
  BY DEF PInv, Verdicts, Playing, ReadInput, fixedVars, Kinds
<1>2. /\ Len(rows) \in Nat /\ stream \in 1..Len(rows) /\ stream \in Nat
      /\ stream' \in 1..Len(rows)+1 /\ stream' - 1 = stream /\ stream' > 1
      /\ Row = rows[stream] /\ rows' = rows
  BY <1>1, TapeRows DEF Row, rows
<1>3. CASE ~Accepted(Row) /\ Fail /\ pc' = "after" /\ extended_timing' = extended_timing
  <2>1. ~disturbed => ~Reproducible(tape)
    BY <1>1, <1>2, <1>3, InputBelongs, Doomed
  <2> QED
    BY <1>1, <1>2, <1>3, <2>1, FailStep DEF PTypes
<1>4. CASE Accepted(Row) /\ view' = Row.view /\ extended_timing' = TimingAfter(Row)
  <2>1. Row.kind = "I" /\ Extended(Row.view) \in BOOLEAN /\ Row.frame = snes_frame_counter
    BY <1>1, <1>2, <1>4, TapeRows DEF Accepted
  <2>2. extended_timing \in BOOLEAN /\ TimingAfter(Row) \in BOOLEAN
    BY <1>1 DEF PTypes, TimingAfter
  <2>3. CASE TimingAfter(Row) # Extended(Row.view) /\ Fail /\ pc' = "after"
    <3>1. extended_timing /\ ~Extended(Row.view)
      BY <2>1, <2>2, <2>3 DEF TimingAfter
    <3>2. ~disturbed => ~Reproducible(tape)
      BY <1>1, <2>1, <3>1, TimingBelongs DEF PInv, Follows
    <3>3. extended_timing' \in BOOLEAN /\ io_error' \in BOOLEAN
      BY <1>1, <1>4, <2>2 DEF PTypes
    <3> QED
      BY <1>1, <1>2, <2>3, <3>2, <3>3, FailStep
  <2>4. CASE /\ TimingAfter(Row) = Extended(Row.view)
             /\ input' = Row.input /\ next_frame' = Row.frame + 1
             /\ pc' = "run" /\ failed' = failed
    <3>1. PTypes'
      BY <1>1, <1>2, <1>4, <2>2, <2>4 DEF PTypes
    <3>2. Verdicts'
      BY <1>1, <2>4 DEF PInv, Verdicts, Playing, Loadable
    <3>3. Kinds'
      <4>1. Before("I")'
        BY <1>2, <2>1 DEF Before
      <4>2. Hashes(stream)' = Hashes(stream)
        BY <1>1, <2>1, HashesNext
      <4>3. Allowed(Row, stream > 1 /\ rows[stream - 1].kind = "I")
        BY <1>1, <2>1 DEF Allowed, Kinds, FrameBegins, Before
      <4>4. (\A i \in 1..stream-1 : Allowed(rows[i], Unfinished(rows, i - 1)))'
        BY <1>1, <4>3, AllowedNext DEF Kinds
      <4>5. playback_checkpointed
        BY <1>4 DEF Accepted
      <4> QED
        BY <1>1, <1>2, <2>4, <4>1, <4>2, <4>4, <4>5 DEF Kinds
    <3>4. ASSUME ~disturbed PROVE Follows'
      <4>1. Follows /\ Chained(tape, stream)
        BY <1>1, <1>4, <3>4, InputBelongs DEF PInv
      <4>2. IntactRow(stream)
        BY <1>2, <2>1 DEF IntactRow
      <4>3. /\ extended_timing' <=> Extended(Row.view)
            /\ extended_timing => Extended(Row.view)
        BY <1>4, <2>1, <2>2, <2>4 DEF TimingAfter
      <4>4. Right(stream)'
        BY <1>1, <2>1, <4>1, <4>2, <4>3, RightNext DEF Follows
      <4>5. stream > 1 /\ At(stream - 1)
        BY <1>1, <1>2, <1>4, <4>1 DEF Follows, Accepted, Kinds
      <4>6. stream' > 2 /\ stream' - 2 = stream - 1
        BY <1>1, <1>2, <4>5
      <4>7. At(stream - 2)'
        BY <1>1, <1>2, <4>5, <4>6 DEF At, Described
      <4> QED
        BY <1>2, <1>4, <1>1, <2>1, <2>4, <4>4, <4>6, <4>7 DEF Follows
    <3> QED
      BY <1>1, <2>4, <3>1, <3>2, <3>3, <3>4 DEF PInv, Playing
  <2> QED
    BY <1>4, <2>3, <2>4 DEF ReadInput
<1> QED
  BY <1>3, <1>4 DEF ReadInput

-----------------------------------------------------------------------------
(***************************************************************************)
(* The frame and its verification.                                           *)
(***************************************************************************)
\* The frame runs from the machine and the input that the tape describes.
LEMMA RunStep == ASSUME PInv, RunFrame PROVE PInv'
<1>1. /\ pc = "run" /\ pc' = "end" /\ Playing /\ Kinds
      /\ machine' = Step(machine, input, view)
      /\ snes_frame_counter' = snes_frame_counter + 1
      /\ UNCHANGED <<tape, stream, playback_rows, playback_checkpointed, playback_loaded,
                     extended_timing, disturbed, runahead, status, finished, failed, view,
                     input, next_frame, io_error>>
  BY DEF PInv, Verdicts, Playing, RunFrame, stateVars, fixedVars
<1>2. PTypes'
  BY <1>1, Unmoved DEF PInv, PTypes
<1>3. Verdicts'
  BY <1>1, Unmoved DEF PInv, Verdicts, Playing, Loadable
<1>4. Kinds'
  BY <1>1, Unmoved DEF Kinds
<1>5. ASSUME ~disturbed PROVE Follows'
  <2>1. Follows
    BY <1>1, <1>5 DEF PInv
  <2>2. Described(tape, rows[stream - 2]).machine = machine
    BY <1>1, <2>1 DEF Follows, At
  <2>3. Right(stream)' /\ rows' = rows
    BY <1>1, <2>1, Unmoved DEF Follows
  <2> QED
    BY <1>1, <2>1, <2>2, <2>3 DEF Follows
<1> QED
  BY <1>1, <1>2, <1>3, <1>4, <1>5 DEF PInv, Playing

\* While nobody interferes, MmxReplayEnd() accepts exactly the row that belongs.
LEMMA HashBelongs ==
  ASSUME PInv, pc = "end", ~disturbed, ~AtEof
  PROVE  Recorded /\ Reproduced <=> Chained(tape, stream)
<1>1. Kinds /\ PTypes /\ Follows
  BY DEF PInv, Verdicts, Playing
<1>2. stream \in Nat /\ stream >= 1 /\ Row = rows[stream]
  BY <1>1, TapeRows DEF Row, rows
<1>3. /\ stream > 2 /\ rows[stream - 1].kind = "I"
      /\ next_frame = rows[stream - 1].frame + 1 /\ snes_frame_counter = next_frame
      /\ machine = Step(Described(tape, rows[stream - 2]).machine,
                        rows[stream - 1].input, rows[stream - 1].view)
  BY <1>1 DEF Follows, Kinds, Before
<1>4. CASE Row.kind = "H"
  <2>1. Chained(tape, stream) <=> ChainedHash(tape, stream)
    BY <1>2, <1>4 DEF Chained, rows
  <2> QED
    BY <1>2, <1>3, <1>4, <2>1 DEF Recorded, Reproduced, ChainedHash, rows
<1>5. CASE Row.kind # "H"
  <2>1. ~Recorded
    BY <1>5 DEF Recorded
  <2>2. ~Chained(tape, stream)
    BY <1>2, <1>3, <1>5 DEF Chained, PlacedImage, ChainedInput, rows
  <2> QED
    BY <2>1, <2>2
<1> QED
  BY <1>4, <1>5

\* LookAhead, but for pending.
LookedAhead ==
  \/ stream = Len(tape.rows) /\ finished' = TRUE /\ ClosedOrNot
  \/ stream < Len(tape.rows) /\ UNCHANGED <<finished, failed, io_error>>
  \/ failed' = TRUE /\ io_error' = TRUE /\ finished' = finished

\* MmxReplayEnd().
LEMMA VerifyStep == ASSUME PInv, VerifyFrame PROVE PInv'
<1>1. /\ pc = "end" /\ pc' = "after" /\ Playing /\ Kinds /\ PTypes
      /\ playback_loaded /\ tape.replay /\ Loadable
      /\ UNCHANGED <<tape, playback_checkpointed, playback_loaded, extended_timing,
                     disturbed, runahead, status, machine, snes_frame_counter>>
  BY DEF PInv, Verdicts, Playing, VerifyFrame, fixedVars, machineVars
<1>2. /\ Len(rows) \in Nat /\ stream \in Nat /\ stream >= 1
      /\ AtEof <=> stream = Len(rows) + 1
      /\ ~AtEof => stream \in 1..Len(rows)
      /\ Row = rows[stream] /\ rows' = rows
  BY <1>1, TapeRows DEF Row, rows
<1>3. Before("I")
  BY <1>1 DEF Kinds
<1>4. CASE AtEof /\ Fail /\ UNCHANGED <<finished, playback_rows, stream, io_error>>
  <2>1. rows[Len(rows)].kind = "I"
    BY <1>2, <1>3, <1>4 DEF Before
  <2> QED
    BY <1>1, <1>2, <1>4, <2>1, NotCompleted, FailStep DEF PTypes
<1>5. CASE /\ ~AtEof /\ ~(Recorded /\ Reproduced) /\ Fail
           /\ UNCHANGED <<finished, playback_rows, io_error>>
           /\ stream' \in {stream, stream + 1}
  <2>1. ~disturbed => ~Reproducible(tape)
    BY <1>1, <1>2, <1>5, HashBelongs, Doomed
  <2>2. /\ stream' \in 1..Len(rows)+1 /\ extended_timing' \in BOOLEAN
        /\ io_error' \in BOOLEAN
    BY <1>1, <1>2, <1>5 DEF PTypes
  <2> QED
    BY <1>1, <1>5, <2>1, <2>2, FailStep
<1>6. CASE /\ Recorded /\ Reproduced
           /\ playback_rows' = playback_rows + 1 /\ stream' = stream + 1
           /\ LookedAhead
  <2>1. ~AtEof /\ Row.kind = "H" /\ Row.frame = next_frame
    BY <1>6 DEF Recorded
  <2>2. /\ stream' \in 1..Len(rows)+1 /\ stream' - 1 = stream /\ stream' > 1
        /\ playback_rows \in Nat /\ playback_rows' \in Nat /\ playback_rows' > 0
    BY <1>1, <1>2, <1>6, <2>1 DEF PTypes
  <2>3. /\ finished' \in BOOLEAN /\ failed' \in BOOLEAN /\ io_error' \in BOOLEAN
        /\ finished' => stream = Len(rows)
        /\ failed' => io_error'
        /\ io_error' => failed'
        /\ ~finished' /\ ~failed' => stream < Len(rows)
    <3>1. finished = FALSE /\ failed = FALSE /\ io_error = FALSE
      BY <1>1 DEF PInv, Verdicts, Playing, PTypes
    <3>2. CASE stream = Len(tape.rows) /\ finished' = TRUE /\ ClosedOrNot
      <4>1. \/ failed' = FALSE /\ io_error' = FALSE
            \/ failed' = TRUE /\ io_error' = TRUE
        BY <3>1, <3>2 DEF ClosedOrNot
      <4> QED
        BY <3>2, <4>1 DEF rows
    <3>3. CASE stream < Len(tape.rows) /\ UNCHANGED <<finished, failed, io_error>>
      BY <3>1, <3>3 DEF rows
    <3>4. CASE failed' = TRUE /\ io_error' = TRUE /\ finished' = finished
      BY <3>1, <3>4
    <3> QED
      BY <1>6, <3>2, <3>3, <3>4 DEF LookedAhead
  <2>4. PTypes'
    BY <1>1, <1>2, <1>6, <2>2, <2>3 DEF PTypes
  <2>5. AtEof' <=> stream = Len(rows)
    BY <1>2, <1>6, <2>1, <2>2 DEF AtEof, rows
  <2>6. Verdicts'
    BY <1>1, <1>6, <2>2, <2>3, <2>5 DEF PInv, Verdicts, Playing, Loadable
  <2>7. Kinds'
    <3>1. Before("H")'
      BY <1>2, <2>1, <2>2 DEF Before
    <3>2. playback_rows' = Cardinality(Hashes(stream))'
      BY <1>1, <1>6, <2>1, HashesNext DEF Kinds
    <3>3. Allowed(Row, stream > 1 /\ rows[stream - 1].kind = "I")
      BY <1>3, <2>1 DEF Allowed, Before
    <3>4. (\A i \in 1..stream-1 : Allowed(rows[i], Unfinished(rows, i - 1)))'
      BY <1>1, <1>6, <2>1, <3>3, AllowedNext DEF Kinds
    <3>5. playback_checkpointed
      BY <1>1, <1>2, <1>3 DEF Kinds, Before
    <3>6. FrameBegins' /\ stream' # 1 /\ playback_rows' # 0 /\ playback_checkpointed'
      BY <1>1, <2>2, <3>1, <3>5 DEF FrameBegins
    <3>7. pc' = "after"
      BY <1>1
    <3> QED
      BY <3>2, <3>4, <3>6, <3>7 DEF Kinds
  <2>8. ASSUME ~disturbed PROVE Right(stream)' /\ At(stream - 1)'
    <3>1. Follows /\ Chained(tape, stream)
      BY <1>1, <1>6, <2>1, <2>8, HashBelongs DEF PInv
    <3>2. IntactRow(stream)
      BY <1>2, <2>1 DEF IntactRow
    <3>3. Right(stream)'
      BY <1>1, <1>6, <2>1, <3>1, <3>2, RightNext DEF Follows
    <3>4. At(stream - 1)'
      BY <1>1, <1>2, <1>6, <2>1, <2>2, <3>1 DEF At, Described, Follows, Reproduced
    <3> QED
      BY <3>3, <3>4
  <2>9. ASSUME ~disturbed, finished' PROVE Reproducible(tape) /\ ~runahead
    <3>1. Right(stream)' /\ stream = Len(rows)
      BY <2>3, <2>8, <2>9
    <3>2. Right(Len(rows) + 1)
      <4>1. tape' = tape /\ rows' = rows /\ extended_timing' = extended_timing
        BY <1>1, <1>2
      <4>2. stream' = Len(rows) + 1
        BY <1>6, <3>1
      <4> QED
        BY <3>1, <4>1, <4>2 DEF Right, Extends, IntactRow
    <3>3. rows # <<>> /\ rows[Len(rows)].kind = "H"
      BY <1>2, <2>1, <3>1
    <3> QED
      BY <1>1, <3>2, <3>3, ReadToTheEnd
  <2> QED
    BY <1>1, <1>6, <2>3, <2>4, <2>6, <2>7, <2>8, <2>9 DEF PInv, Playing, Follows
<1>7. LookAhead => LookedAhead
  BY DEF LookAhead, LookedAhead, Finish, Fail, ClosedOrNot
<1> QED
  BY <1>4, <1>5, <1>6, <1>7 DEF VerifyFrame, Recorded

-----------------------------------------------------------------------------
(***************************************************************************)
(* The theorems.                                                             *)
(***************************************************************************)
\* A fresh process has read nothing.
LEMMA PlayerStart == PlayerInit => PInv
<1> SUFFICES ASSUME PlayerInit PROVE PInv
  OBVIOUS
<1>1. /\ tape \in Tapes /\ stream = 1 /\ playback_rows = 0 /\ pc = "open" /\ status = -1
      /\ finished = FALSE /\ failed = FALSE /\ extended_timing = FALSE /\ io_error = FALSE
      /\ playback_loaded = FALSE /\ playback_checkpointed = FALSE
  BY DEF PlayerInit, FreshProcess
<1>2. Len(rows) \in Nat /\ 1 \in 1..Len(rows)+1
  <2>1. rows \in Seq({rows[i] : i \in DOMAIN rows})
    BY <1>1, TapesAssumption DEF rows
  <2> QED
    BY <2>1
<1>3. PTypes
  BY <1>1, <1>2 DEF PTypes
<1>4. Verdicts
  BY <1>1 DEF Verdicts, Playing
<1>5. Hashes(stream) = {} /\ 1..stream-1 = {}
  BY <1>1, <1>2 DEF Hashes, CompletedRows
<1>6. Cardinality({}) = 0
  BY FS_EmptySet
<1>7. Kinds
  BY <1>1, <1>5, <1>6 DEF Kinds, FrameBegins
<1>8. Right(stream)
  BY <1>1, <1>5 DEF Right
<1>9. Follows
  BY <1>1, <1>8 DEF Follows
<1> QED
  BY <1>1, <1>3, <1>4, <1>7, <1>9 DEF PInv, Playing

\* Every step keeps the invariant.
LEMMA PlayerSteps == PInv /\ [PlayerNext]_playerVars => PInv'
<1> SUFFICES ASSUME PInv, [PlayerNext]_playerVars PROVE PInv'
  OBVIOUS
<1>1. CASE OpenPlayback
  BY <1>1, OpenStep
<1>2. CASE LoadPlayback
  BY <1>2, LoadStep
<1>3. CASE NoMoreRows \/ ReadError
  BY <1>3, NoMoreStep, ReadErrorStep
<1>4. CASE ReadCheckpoint
  BY <1>4, CheckpointStep
<1>5. CASE ReadInput
  BY <1>5, InputStep
<1>6. CASE RunFrame
  BY <1>6, RunStep
<1>7. CASE VerifyFrame
  BY <1>7, VerifyStep
<1>8. CASE AfterFrame \/ CloseWindow \/ Exit \/ SkipCheckpoint \/ UNCHANGED playerVars
  BY <1>8, LoopStep
<1>9. CASE Disturb
  BY <1>9, DisturbStep
<1> QED
  BY <1>1, <1>2, <1>3, <1>4, <1>5, <1>6, <1>7, <1>8, <1>9
     DEF PlayerNext, PlaybackStep, Gone

\* Where the player is in its tape, what the rows before that are, and that the
\* machine is the one they describe.
THEOREM PlayerInvariant == PlayerSpec => []PInv
<1> QED
  BY PlayerStart, PlayerSteps, PTL DEF PlayerSpec

\* MmxReplayEnd() and MmxReplayBegin() give the right verdict on every tape:
\* "all recorded checkpoints matched" only of those that this build reproduces,
\* and a failure of these only for run-ahead or an error of a file, as long as
\* nobody loads a state in between.
THEOREM PlayerVerdict == PlayerSpec => []VerdictIsRight
<1>1. PInv => VerdictIsRight
  BY DEF PInv, VerdictIsRight
<1> QED
  BY <1>1, PlayerInvariant, PTL

\* mmx_diagnostics_host.h exits with 0 only when every recorded checkpoint was
\* compared and matched, and there was at least one, whatever the player does
\* and wherever a file fails.
THEOREM PlayerCheckpoints == PlayerSpec => []AllCheckpointsMatched
<1>1. PInv => AllCheckpointsMatched
  <2> SUFFICES ASSUME PInv, finished
               PROVE  /\ playback_rows = Cardinality(CompletedRows(tape.rows))
                      /\ playback_rows > 0
    BY DEF AllCheckpointsMatched, PInv, Verdicts
  <2>1. AtEof /\ playback_rows > 0
    BY DEF PInv, Verdicts
  <2>2. Kinds /\ PTypes
    BY <2>1 DEF PInv
  <2>3. stream = Len(rows) + 1 /\ Len(rows) \in Nat
    BY <2>1, <2>2, TapeRows
  <2>4. Hashes(stream) = CompletedRows(rows)
    BY <2>3 DEF Hashes, CompletedRows
  <2> QED
    BY <2>1, <2>2, <2>4 DEF Kinds, rows
<1> QED
  BY <1>1, PlayerInvariant, PTL

\* Of what the game reproduces tools/replay_diagnostic.py refuses exactly the
\* reports with another first line and those with fields that the game ignores:
\* as to order, number and kinds of the rows the two parsers, one of which never
\* sees a machine, cannot disagree that way round.
THEOREM PlayerInspection == PlayerSpec => []InspectionAgrees
<1>1. PInv => InspectionAgrees
  <2> SUFFICES ASSUME PInv, finished
               PROVE  Inspect(tape) <=> tape.banner /\ tape.loose = {}
    BY DEF InspectionAgrees
  <2>1. AtEof /\ Loadable
    BY DEF PInv, Verdicts
  <2>2. Kinds /\ PTypes
    BY <2>1 DEF PInv
  <2>3. stream - 1 = Len(rows) /\ DOMAIN rows = 1..Len(rows)
    BY <2>1, <2>2, TapeRows
  <2>4. \A i \in 1..Len(rows) : Allowed(rows[i], Unfinished(rows, i - 1))
    BY <2>2, <2>3 DEF Kinds
  <2>5. tape.loose \subseteq 1..Len(rows)
    BY <2>2, <2>3, TapesAssumption DEF PTypes, rows
  <2>6. Inspect(tape) <=> tape.banner /\ \A i \in 1..Len(rows) : i \notin tape.loose
    BY <2>1, <2>4 DEF Inspect, Loadable, rows
  <2> QED
    BY <2>5, <2>6
<1> QED
  BY <1>1, PlayerInvariant, PTL

-----------------------------------------------------------------------------
(***************************************************************************)
(* --until N.                                                                *)
(***************************************************************************)
\* Every number of completed frames that was reproduced is reached at a row.
UpTo(i) == {j \in CompletedRows(rows) : j <= i}
Counted == \A n \in 1..playback_rows : \E i \in CompletedRows(rows) : Cardinality(UpTo(i)) = n

\* Each step that reproduces a frame reads the H row that makes it one more.
LEMMA CountedSteps == PInv /\ Counted /\ [PlayerNext]_playerVars => Counted'
<1> SUFFICES ASSUME PInv, Counted, [PlayerNext]_playerVars PROVE Counted'
  OBVIOUS
<1>1. tape' = tape /\ rows' = rows /\ \A i : UpTo(i)' = UpTo(i)
  BY DEF PlayerNext, PlaybackStep, Gone, OpenPlayback, LoadPlayback, NoMoreRows,
     ReadError, ReadCheckpoint, SkipCheckpoint, ReadInput, RunFrame, VerifyFrame, AfterFrame,
     CloseWindow, Exit, Disturb, playerVars, fixedVars, rows, UpTo
<1>2. CASE playback_rows' = playback_rows
  BY <1>1, <1>2 DEF Counted
<1>3. CASE /\ Recorded /\ Reproduced /\ playback_rows' = playback_rows + 1
           /\ stream' = stream + 1 /\ Playing
  <2>1. Kinds /\ PTypes
    BY <1>3 DEF PInv, Playing
  <2>2. /\ stream \in CompletedRows(rows) /\ stream \in Nat /\ Len(rows) \in Nat
        /\ ~AtEof /\ Row.kind = "H"
    BY <1>3, <2>1, TapeRows DEF Recorded, Row, rows, CompletedRows
  <2>3. Hashes(stream)' = UpTo(stream)
    BY <1>1, <1>3, <2>2 DEF Hashes, UpTo, CompletedRows
  <2>4. Cardinality(UpTo(stream)) = playback_rows + 1
    BY <1>1, <1>3, <2>1, <2>2, <2>3, HashesNext DEF Kinds
  <2>5. playback_rows \in Nat
    BY <2>1 DEF PTypes
  <2>6. CompletedRows(rows)' = CompletedRows(rows)
    BY <1>1 DEF CompletedRows
  <2> SUFFICES ASSUME NEW n \in 1..playback_rows + 1
               PROVE  \E i \in CompletedRows(rows) : Cardinality(UpTo(i)) = n
    BY <1>1, <1>3, <2>6 DEF Counted
  <2>7. CASE n \in 1..playback_rows
    BY <2>7 DEF Counted
  <2>8. CASE n = playback_rows + 1
    BY <2>2, <2>4, <2>8
  <2> QED
    BY <2>5, <2>7, <2>8
<1> QED
  BY <1>2, <1>3 DEF PInv, Verdicts, PlayerNext, PlaybackStep, Gone, OpenPlayback, LoadPlayback,
     NoMoreRows, ReadError, ReadCheckpoint, SkipCheckpoint, ReadInput, RunFrame, VerifyFrame,
     AfterFrame, CloseWindow, Exit, Disturb, playerVars, stateVars

\* Reproducible, except that the last frame may be incomplete.
Unbroken(file) ==
  /\ file.replay /\ file.header /\ file.sav
  /\ IntactImages(file) /\ Faithful(file) /\ TimingOnlyExtends(file)

\* The tape up to an H row is reproducible when nothing in it is broken.
LEMMA PrefixReproducible ==
  ASSUME tape \in Tapes, Unbroken(tape), NEW cut \in CompletedRows(tape.rows)
  PROVE  Reproducible([tape EXCEPT !.rows = SubSeq(tape.rows, 1, cut)])
<1> DEFINE file == [tape EXCEPT !.rows = SubSeq(tape.rows, 1, cut)]
<1>1. tape.rows \in Seq({tape.rows[i] : i \in DOMAIN tape.rows}) /\ Len(tape.rows) \in Nat
  BY TapesAssumption
<1>2. cut \in 1..Len(tape.rows) /\ tape.rows[cut].kind = "H" /\ cut \in Nat
  BY <1>1 DEF CompletedRows
<1>3. /\ Len(SubSeq(tape.rows, 1, cut)) = cut
      /\ \A i \in 1..cut : SubSeq(tape.rows, 1, cut)[i] = tape.rows[i]
  BY <1>1, <1>2
<1>4. /\ file.rows = SubSeq(tape.rows, 1, cut)
      /\ file.replay = tape.replay /\ file.header = tape.header /\ file.sav = tape.sav
      /\ file.images = tape.images
  <2>1. tape = [replay |-> tape.replay, banner |-> tape.banner, header |-> tape.header,
                sav |-> tape.sav, rows |-> tape.rows, loose |-> tape.loose,
                images |-> tape.images]
    BY TapesAssumption
  <2>2. DOMAIN tape = {"replay", "banner", "header", "sav", "rows", "loose", "images"}
    BY <2>1
  <2> QED
    BY <2>2
<1> HIDE DEF file
<1>5. \A i \in 1..cut : file.rows[i] = tape.rows[i]
  BY <1>3, <1>4
<1>6. \A row : Described(file, row) = Described(tape, row)
  BY <1>4 DEF Described
<1>7. \A i \in 1..cut : Chained(file, i) <=> Chained(tape, i)
  <2> SUFFICES ASSUME NEW i \in 1..cut PROVE Chained(file, i) <=> Chained(tape, i)
    OBVIOUS
  <2>1. i > 1 => i - 1 \in 1..cut
    BY <1>2
  <2>2. i > 2 => i - 2 \in 1..cut
    BY <1>2
  <2>3. PlacedImage(file, i) <=> PlacedImage(tape, i)
    BY <1>2, <1>5, <2>1 DEF PlacedImage
  <2>4. ChainedInput(file, i) <=> ChainedInput(tape, i)
    BY <1>2, <1>5, <1>6, <2>1 DEF ChainedInput
  <2>5. ChainedHash(file, i) <=> ChainedHash(tape, i)
    <3>1. CASE i > 2
      <4>1. /\ file.rows[i] = tape.rows[i] /\ file.rows[i-1] = tape.rows[i-1]
            /\ file.rows[i-2] = tape.rows[i-2]
        BY <1>2, <1>5, <2>1, <2>2, <3>1
      <4>2. Described(file, tape.rows[i-2]) = Described(tape, tape.rows[i-2])
        BY <1>6
      <4> QED
        BY <4>1, <4>2, Zenon DEF ChainedHash
    <3>2. CASE ~(i > 2)
      BY <3>2, Zenon DEF ChainedHash
    <3> QED
      BY <3>1, <3>2
  <2> QED
    BY <1>5, <2>3, <2>4, <2>5 DEF Chained
<1>8. 1..cut \subseteq 1..Len(tape.rows) /\ Len(file.rows) = cut
  BY <1>1, <1>2, <1>3, <1>4
<1>9. Faithful(file)
  BY <1>7, <1>8 DEF Unbroken, Faithful
<1>10. IntactImages(file) /\ TimingOnlyExtends(file)
  BY <1>4, <1>5, <1>8 DEF Unbroken, IntactImages, TimingOnlyExtends
<1>11. Completed(file)
  <2>1. file.rows # <<>>
    BY <1>2, <1>8
  <2> QED
    BY <1>2, <1>5, <1>8, <2>1 DEF Completed
<1> QED
  BY <1>4, <1>9, <1>10, <1>11 DEF Unbroken, Reproducible, file

\* tools/replay_diagnostic.py --until N of a report that the game reproduced
\* leaves a report that the game reproduces, for every N it accepts.
THEOREM PlayerUntil == PlayerSpec => []UntilIsReproducible
<1>1. PlayerInit => Counted
  BY DEF PlayerInit, FreshProcess, Counted
<1>2. PInv /\ Counted => UntilIsReproducible
  <2> SUFFICES ASSUME PInv, Counted, finished, ~disturbed, NEW n \in 1..playback_rows
               PROVE  Reproducible(Until(tape, n))
    BY DEF UntilIsReproducible
  <2>1. Unbroken(tape) /\ tape \in Tapes
    BY DEF PInv, PTypes, Reproducible, Unbroken
  <2> DEFINE hs  == CompletedRows(tape.rows)
             cut == CHOOSE i \in hs : Cardinality({j \in hs : j <= i}) = n
  <2>2. cut \in hs
    BY DEF Counted, UpTo, rows
  <2>3. Until(tape, n) = [tape EXCEPT !.rows = SubSeq(tape.rows, 1, cut)]
    BY DEF Until
  <2> QED
    BY <2>1, <2>2, <2>3, PrefixReproducible
<1> QED
  BY <1>1, <1>2, CountedSteps, PlayerInvariant, PTL DEF PlayerSpec

=============================================================================

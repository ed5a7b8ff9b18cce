------------------------ MODULE RecorderArchiveProofs -----------------------
(***************************************************************************)
(* The recorder of mmx_replay.c implements Archive, for every machine, queue, *)
(* ring and budget, whatever the host, the writer and the process do: so     *)
(* every tape on disk replays.                                               *)
(*                                                                           *)
(* The game thread never sees the files.  It only knows what it has queued,  *)
(* so the invariant relates its variables to the files as they will be once  *)
(* the queue is empty (RecorderProofs): what the last row there describes is    *)
(* the machine that the game runs, as long as nothing it compares has changed. *)
(***************************************************************************)
EXTENDS RecorderProofs, DiagnosticReplay

-----------------------------------------------------------------------------
(***************************************************************************)
(* The invariant.                                                            *)
(***************************************************************************)
\* The types of the game thread's variables.
HostTypes ==
  /\ machine \in Machines /\ snes_frame_counter \in Nat
  /\ input \in Inputs /\ view \in Views
  /\ rtl_generation \in Nat /\ load_sequence \in Nat
  /\ generation \in Nat /\ recorded_load_sequence \in Nat /\ next_frame \in Nat
  /\ runahead \in BOOLEAN /\ enabled \in BOOLEAN
  /\ failed \in BOOLEAN /\ pending \in BOOLEAN
  /\ frames \in Nat /\ events \in Nat
  /\ segment <= MaxSegment /\ oldest_segment >= 1
  /\ pc \in BeginSteps \cup {"idle", "run", "end", "drain", "gone"}

\* What the steps of MmxReplayBegin may rely on.
Control ==
  /\ generation <= rtl_generation /\ recorded_load_sequence <= load_sequence
  /\ recording => enabled \/ EnvRecord
  /\ pc \in BeginSteps \ {"begin"} => enabled \/ EnvRecord
  /\ pc \in {"run", "end"} /\ recording => pending
  /\ pc \in {"create", "retire", "open"} => rows = 0
  /\ pc \in {"retire", "open"} => segment >= 1
  /\ recording => segment >= 1
  /\ pc = "drain" => ~recording

\* The last row describes the machine and the frame that the game runs next.
Describes(file) ==
  /\ file.rows # <<>> /\ LastRow(file).kind \in {"S", "H"}
  /\ Described(file, LastRow(file)) = [machine |-> machine, frame |-> Frame]

\* The tape waits for the H row of machine m at frame f.
Owes(file, f, m) ==
  Chained(Longer(file, [kind |-> "H", frame |-> f, machine |-> m]), Len(file.rows) + 1)

\* Nothing that record_begin() compares has changed since the last row.
Current(f) ==
  /\ next_frame = f /\ generation = rtl_generation
  /\ recorded_load_sequence = load_sequence

\* The tape being recorded, once everything queued is applied.
TapeAgrees(file) ==
  /\ file.replay /\ file.sav
  /\ pc \in {"idle", "begin", "start"} =>
       /\ file.rows # <<>> /\ LastRow(file).kind = "H"
       /\ LastRow(file).frame = next_frame
       /\ ~Discontinuity => LastRow(file).machine = machine
  /\ pc \in {"checkpoint", "room"} => AtFrame(file)
  /\ pc = "put" => Describes(file)
  /\ pc = "run" => Current(Frame + 1) /\ Owes(file, Frame + 1, Step(machine, input, view))
  /\ pc = "end" => Current(Frame) /\ Owes(file, Frame, machine)

\* The ledger is what will be on disk: in all, and segment by segment.
Booked(st) ==
  /\ DiskBytes(st.disk) = history_bytes
  /\ \A t \in SegmentIds : oldest_segment <= t /\ t <= Newest =>
       ImageBytes(st.disk[t].images) = history_sizes[Slot(t)]

\* All files, once everything queued is applied.
Unused(t) == t > segment \/ (t = segment /\ pc \in {"retire", "open"})
Agrees(st) ==
  /\ st.open = IF recording THEN segment ELSE 0
  /\ \A t \in SegmentIds : Unused(t) => st.disk[t] = NoFiles
  /\ \A t \in SegmentIds : t < oldest_segment => ~st.disk[t].replay
  /\ recording => TapeAgrees(st.disk[segment])
  /\ Booked(st)

Queued == \E st : Becomes(st) /\ (~writerError /\ pc # "gone" => Agrees(st))

RInv == IInv /\ FInv /\ HostTypes /\ Control /\ Queued

-----------------------------------------------------------------------------
(***************************************************************************)
(* How a tape grows.                                                         *)
(***************************************************************************)
\* The rows and images of a file with one more row.
LEMMA LongerParts ==
  ASSUME NEW file \in FileSet, NEW row \in RowSet
  PROVE  LET longer == Longer(file, row)
             n      == Len(file.rows)
         IN  /\ n \in Nat /\ longer \in FileSet
             /\ longer.replay = file.replay /\ longer.sav = file.sav
             /\ longer.images = file.images
             /\ longer.rows # <<>> /\ Len(longer.rows) = n + 1
             /\ longer.rows[n + 1] = row /\ LastRow(longer) = row
             /\ \A i \in 1..n : longer.rows[i] = file.rows[i]
<1> DEFINE n == Len(file.rows)
           rows1 == Append(file.rows, row)
<1>1. file.rows \in Seq(RowSet) /\ n \in Nat
  BY DEF FileSet
<1>2. /\ rows1 # <<>> /\ Len(rows1) = n + 1 /\ rows1[n + 1] = row
      /\ \A i \in 1..n : rows1[i] = file.rows[i]
  BY <1>1
<1>3. /\ Longer(file, row).rows = rows1
      /\ Longer(file, row).replay = file.replay /\ Longer(file, row).sav = file.sav
      /\ Longer(file, row).images = file.images
  <2>1. Longer(file, row) = [file EXCEPT !.rows = rows1]
    BY DEF Longer
  <2>2. \E A, B, C, D : file \in [replay : A, sav : B, rows : C, images : D]
    BY DEF FileSet
  <2> HIDE DEF rows1
  <2> QED
    BY <2>1, <2>2
<1> HIDE DEF rows1
<1> QED
  BY <1>1, <1>2, <1>3, LongerTyped DEF LastRow

\* The rows and images of a file with one more image and its row.
LEMMA ImageParts ==
  ASSUME NEW file \in FileSet, NEW image \in ImageSet
  PROVE  LET longer == ApplySnapshot(file, image)
             n      == Len(file.rows)
             k      == Len(file.images) + 1
         IN  /\ n \in Nat /\ longer \in FileSet
             /\ longer.replay = file.replay /\ longer.sav = file.sav
             /\ k \in Nat /\ longer.images = Append(file.images, image)
             /\ longer.images[k] = image
             /\ longer.rows = Append(file.rows, [kind |-> "S", image |-> k])
             /\ longer.rows # <<>> /\ Len(longer.rows) = n + 1
             /\ longer.rows[n + 1] = [kind |-> "S", image |-> k]
             /\ LastRow(longer) = [kind |-> "S", image |-> k]
             /\ \A i \in 1..n : longer.rows[i] = file.rows[i]
<1> DEFINE n == Len(file.rows)
           k == Len(file.images) + 1
           row == [kind |-> "S", image |-> k]
           rows1 == Append(file.rows, row)
           images1 == Append(file.images, image)
<1>1. file.rows \in Seq(RowSet) /\ n \in Nat /\ file.images \in Seq(ImageSet) /\ k \in Nat
  BY DEF FileSet
<1>2. images1[k] = image
  BY <1>1
<1>3. row \in RowSet
  BY <1>1 DEF RowSet
<1>4. /\ rows1 # <<>> /\ Len(rows1) = n + 1 /\ rows1[n + 1] = row
      /\ \A i \in 1..n : rows1[i] = file.rows[i]
  <2> HIDE DEF row
  <2> QED
    BY <1>1, <1>3
<1>5. /\ ApplySnapshot(file, image).rows = rows1
      /\ ApplySnapshot(file, image).replay = file.replay
      /\ ApplySnapshot(file, image).sav = file.sav
      /\ ApplySnapshot(file, image).images = images1
  <2>1. ApplySnapshot(file, image) = [file EXCEPT !.images = images1, !.rows = rows1]
    BY DEF ApplySnapshot
  <2>2. \E A, B, C, D : file \in [replay : A, sav : B, rows : C, images : D]
    BY DEF FileSet
  <2> HIDE DEF rows1, images1
  <2> QED
    BY <2>1, <2>2
<1> HIDE DEF rows1, images1, row
<1>6. LastRow(ApplySnapshot(file, image)) = row
  BY <1>1, <1>4, <1>5 DEF LastRow
<1> QED
  BY <1>1, <1>2, <1>4, <1>5, <1>6, LongerTyped DEF row, rows1, images1

\* An image may follow wherever a frame may begin, and describes its machine.
LEMMA ImageFollows ==
  ASSUME NEW file \in FileSet, AtFrame(file), NEW image \in ImageSet
  PROVE  LET longer == ApplySnapshot(file, image)
         IN  /\ Chained(longer, Len(file.rows) + 1)
             /\ longer.rows # <<>> /\ LastRow(longer).kind = "S"
             /\ Described(longer, LastRow(longer)) =
                  [machine |-> image.machine, frame |-> image.frame]
<1> DEFINE longer == ApplySnapshot(file, image)
           n == Len(file.rows)
           k == Len(file.images) + 1
<1>1. /\ n \in Nat /\ longer.images[k] = image /\ longer.rows # <<>>
      /\ longer.rows[n + 1] = [kind |-> "S", image |-> k]
      /\ LastRow(longer) = [kind |-> "S", image |-> k]
      /\ \A i \in 1..n : longer.rows[i] = file.rows[i]
  BY ImageParts
<1>2. file.rows \in Seq(RowSet)
  BY DEF FileSet
<1>3. PlacedImage(longer, n + 1)
  <2>1. CASE file.rows = <<>>
    BY <1>1, <2>1 DEF PlacedImage
  <2>2. CASE file.rows # <<>>
    <3>1. n >= 1 /\ n \in 1..n /\ (n + 1) - 1 = n
      BY <1>1, <1>2, <2>2
    <3> QED
      BY <1>1, <2>2, <3>1 DEF PlacedImage, AtFrame, LastRow
  <2> QED
    BY <2>1, <2>2
<1> HIDE DEF longer
<1>4. Chained(longer, n + 1)
  BY <1>1, <1>3 DEF Chained
<1>5. Described(longer, LastRow(longer)) =
        [machine |-> image.machine, frame |-> image.frame]
  BY <1>1 DEF Described
<1> QED
  BY <1>1, <1>4, <1>5 DEF longer

\* The input of a frame follows the row that describes its machine, and is
\* followed by the machine it leads to.
LEMMA InputFollows ==
  ASSUME NEW file \in FileSet, NEW f \in Nat, NEW m \in Machines,
         NEW in \in Inputs, NEW v \in Views,
         file.rows # <<>>, LastRow(file).kind \in {"S", "H"},
         Described(file, LastRow(file)) = [machine |-> m, frame |-> f]
  PROVE  LET row    == [kind |-> "I", frame |-> f, input |-> in, view |-> v]
             longer == Longer(file, row)
         IN  /\ row \in RowSet /\ Chained(longer, Len(file.rows) + 1)
             /\ Owes(longer, f + 1, Step(m, in, v))
<1> DEFINE row == [kind |-> "I", frame |-> f, input |-> in, view |-> v]
           longer == Longer(file, row)
           n == Len(file.rows)
           next == Step(m, in, v)
           hash == [kind |-> "H", frame |-> f + 1, machine |-> next]
           both == Longer(longer, hash)
<1>1. row \in RowSet /\ row.kind = "I" /\ row.frame = f /\ row.input = in /\ row.view = v
  BY DEF RowSet
<1>2. hash \in RowSet /\ hash.kind = "H" /\ hash.frame = f + 1 /\ hash.machine = next
  BY StepAssumption DEF RowSet
<1> HIDE DEF row, hash, next
<1>3. /\ n \in Nat /\ longer \in FileSet /\ longer.images = file.images
      /\ Len(longer.rows) = n + 1 /\ longer.rows[n + 1] = row
      /\ \A i \in 1..n : longer.rows[i] = file.rows[i]
  BY <1>1, LongerParts
<1>4. /\ both.images = longer.images
      /\ both.rows[n + 2] = hash
      /\ \A i \in 1..n+1 : both.rows[i] = longer.rows[i]
  <2>1. (n + 1) + 1 = n + 2
    BY <1>3
  <2> HIDE DEF longer
  <2> QED
    BY <1>2, <1>3, <2>1, LongerParts
<1>5. n >= 1 /\ n \in 1..n /\ n \in 1..n+1 /\ n + 1 \in 1..n+1
  BY <1>3 DEF FileSet
<1> HIDE DEF longer, both
<1>6. longer.rows[n] = LastRow(file) /\ both.rows[n] = LastRow(file)
  BY <1>3, <1>4, <1>5 DEF LastRow
<1>7. /\ Described(longer, longer.rows[n]) = [machine |-> m, frame |-> f]
      /\ Described(both, both.rows[n]) = [machine |-> m, frame |-> f]
  BY <1>3, <1>4, <1>6 DEF Described
<1>8. Chained(longer, n + 1)
  <2>1. n + 1 > 1 /\ (n + 1) - 1 = n
    BY <1>3, <1>5
  <2>2. ChainedInput(longer, n + 1)
    BY <1>1, <1>3, <1>6, <1>7, <2>1 DEF ChainedInput
  <2> QED
    BY <1>1, <1>3, <2>2 DEF Chained
<1>9. Chained(both, n + 2)
  <2>1. n + 2 > 2 /\ (n + 2) - 1 = n + 1 /\ (n + 2) - 2 = n
    BY <1>3, <1>5
  <2>2. both.rows[n + 1] = row
    BY <1>3, <1>4, <1>5
  <2>3. ChainedHash(both, n + 2)
    BY <1>1, <1>2, <1>4, <1>7, <2>1, <2>2 DEF ChainedHash, next
  <2> QED
    BY <1>2, <1>4, <2>3 DEF Chained
<1>10. Owes(longer, f + 1, next)
  <2>1. Len(longer.rows) + 1 = n + 2
    BY <1>3
  <2> QED
    BY <1>9, <2>1 DEF Owes, both, hash
<1> QED
  BY <1>1, <1>8, <1>10 DEF row, longer, next

-----------------------------------------------------------------------------
(***************************************************************************)
(* What a step leaves promised.                                              *)
(***************************************************************************)
\* A writer that has failed, or a process that is gone, promises nothing more.
LEMMA NothingPromised ==
  ASSUME NEW st, Becomes(st)', writerError' \/ pc' = "gone"
  PROVE  Queued'
  BY DEF Queued

\* What is promised and agrees.
LEMMA Promised ==
  ASSUME NEW st, Becomes(st)', ~writerError' /\ pc' # "gone" => Agrees(st)'
  PROVE  Queued'
  BY DEF Queued

\* The conditions under which no tape that was unused comes into use, and the
\* ledger stays as it is.
Settled ==
  /\ UNCHANGED <<segment, oldest_segment, history_bytes, history_sizes>>
  /\ pc \in {"retire", "open"} \/ pc' \in {"retire", "open"} => pc' = pc \/ pc' = "run"
  /\ pc = "retire" => pc' = pc

\* Books that are not touched still are what will be on disk.
LEMMA SameBooks ==
  ASSUME NEW st, Booked(st), NEW s2, s2.disk = st.disk, Settled
  PROVE  Booked(s2)'
<1>1. Newest' = Newest
  BY DEF Settled, Newest, TooManySegments
<1> QED
  BY <1>1 DEF Booked, Settled, Slot

\* Once no tape is open, only the unused and the evicted ones matter.
LEMMA ClosedAgrees ==
  ASSUME NEW st, NEW s2, Agrees(st), s2.disk = st.disk, s2.open = 0,
         recording' = FALSE, Settled
  PROVE  Agrees(s2)'
  BY SameBooks DEF Agrees, Unused, Settled

\* A step that queues nothing agrees if what it does to the open tape agrees.
LEMMA QuietAgrees ==
  ASSUME NEW st, Agrees(st), recording' = recording, Settled,
         recording => TapeAgrees(st.disk[segment])'
  PROVE  Agrees(st)'
  BY SameBooks DEF Agrees, Unused, Settled

\* error() and MmxReplayClose(): the tape ends, if one is open.
LEMMA Stopping ==
  ASSUME RInv, pc # "gone", Settled, recording' = FALSE,
         recording => pc \in {"idle", "begin", "start", "checkpoint"},
         IF recording THEN Offer(EndCmd) ELSE UNCHANGED writerVars
  PROVE  Queued'
<1>1. writerError \in BOOLEAN
  BY DEF RInv, IInv, Numbers
<1>2. PICK st : Becomes(st) /\ (~writerError => Agrees(st))
  BY DEF RInv, Queued
<1>3. CASE recording
  <2>1. EndCmd \in CmdSet /\ (~writerError => Legal(st, EndCmd))
    <3>1. EndCmd \in CmdSet /\ EndCmd.op = "end"
      BY DEF EndCmd, CmdSet
    <3>2. ASSUME ~writerError PROVE st.open # 0 /\ AtFrame(Written(st))
      <4>1. st.open = segment /\ segment # 0 /\ TapeAgrees(st.disk[segment])
        BY <1>2, <1>3, <3>2 DEF Agrees, RInv, Control
      <4> QED
        BY <1>3, <4>1 DEF TapeAgrees, AtFrame, Written
    <3> QED
      BY <3>1, <3>2 DEF Legal, SegmentCmds
  <2>2. OfferAll(<<EndCmd>>)
    BY <1>3 DEF Offer
  <2>3. CASE Accepts(1)
    <3>1. ~writerError /\ Becomes(Did(st, EndCmd))'
      BY <1>1, <1>2, <2>1, <2>2, <2>3, AcceptedOne DEF Accepts
    <3>2. Did(st, EndCmd).disk = st.disk /\ Did(st, EndCmd).open = 0
      BY DEF Did, Applied, OpenThen, EndCmd
    <3>3. Agrees(Did(st, EndCmd))'
      BY <1>2, <3>1, <3>2, ClosedAgrees
    <3> QED
      BY <3>1, <3>3, Promised
  <2>4. CASE ~Accepts(1)
    BY <1>1, <1>2, <2>2, <2>4, RefusedOne, NothingPromised
  <2> QED
    BY <2>3, <2>4
<1>4. CASE ~recording
  <2>1. Becomes(st)' /\ writerError' = writerError
    BY <1>2, <1>4, Still DEF writerVars
  <2>2. ~writerError => Agrees(st)'
    BY <1>2, <1>4, ClosedAgrees DEF Agrees
  <2> QED
    BY <2>1, <2>2, Promised
<1> QED
  BY <1>3, <1>4

\* A command is refused: its error ends the recording without a command.
LEMMA Refused ==
  ASSUME RInv, NEW cmd, RefusedWith(<<cmd>>)
  PROVE  Queued'
<1>1. writerError \in BOOLEAN /\ Len(<<cmd>>) = 1
  BY DEF RInv, IInv, Numbers
<1>2. PICK st : Becomes(st)
  BY DEF RInv, Queued
<1>3. ~Accepts(1) /\ OfferAll(<<cmd>>)
  BY <1>1 DEF RefusedWith
<1> QED
  BY <1>1, <1>2, <1>3, RefusedOne, NothingPromised

\* Nothing is queued.
LEMMA QuietQueued ==
  ASSUME RInv, pc # "gone", UNCHANGED writerVars, recording' = recording, Settled,
         \A file : recording /\ TapeAgrees(file) => TapeAgrees(file)'
  PROVE  Queued'
<1>1. PICK st : Becomes(st) /\ (~writerError => Agrees(st))
  BY DEF RInv, Queued
<1>2. Becomes(st)' /\ writerError' = writerError
  BY <1>1, Still DEF writerVars
<1>3. ASSUME ~writerError PROVE Agrees(st)'
  <2>1. recording => TapeAgrees(st.disk[segment])
    BY <1>1, <1>3 DEF Agrees
  <2>2. recording => TapeAgrees(st.disk[segment])'
    BY <2>1 DEF Settled
  <2> QED
    BY <1>1, <1>3, <2>2, QuietAgrees
<1> QED
  BY <1>2, <1>3, Promised

-----------------------------------------------------------------------------
(***************************************************************************)
(* The steps of MmxReplayBegin.                                              *)
(***************************************************************************)
\* While recording, record_begin() never finds capture off.
LEMMA RecordingIsOn == ASSUME RInv, recording PROVE ~Off
  BY DEF RInv, FInv, FailureStopsCapture, Control, Off

\* record_begin() decides.
LEMMA QRecordBegin == ASSUME RInv, RecordBegin PROVE Queued'
<1>1. pc = "begin" /\ UNCHANGED <<segment, oldest_segment, history_bytes, history_sizes>>
  BY DEF RecordBegin, storageVars
<1>2. CASE Off /\ pc' = "run" /\ UNCHANGED <<writerVars, flagVars, rows>>
  <2>1. ~recording /\ Settled /\ recording' = recording /\ UNCHANGED writerVars
    BY <1>1, <1>2, RecordingIsOn DEF Settled, flagVars
  <2> QED
    BY <1>1, <2>1, QuietQueued
<1>3. CASE Error /\ pc' = "run"
  BY <1>1, <1>3, Stopping DEF Error, Settled
<1>4. CASE Close /\ pc' = "run"
  <2>1. recording' = FALSE /\ IF recording THEN Offer(EndCmd) ELSE UNCHANGED writerVars
    BY <1>4, CloseStops DEF Close, EndSegment
  <2> QED
    BY <1>1, <1>4, <2>1, Stopping DEF Settled
<1>5. CASE /\ pc' = CASE NeedsSegment -> "start"
                      [] ~NeedsSegment /\ NeedsSnapshot -> "checkpoint"
                      [] OTHER -> "put"
           /\ UNCHANGED <<writerVars, flagVars, rows>>
  <2>1. /\ pc' \in {"start", "checkpoint", "put"}
        /\ pc' = "put" => ~Discontinuity
    BY <1>5 DEF NeedsSnapshot
  <2>2. Settled /\ recording' = recording /\ UNCHANGED writerVars
    BY <1>1, <1>5, <2>1 DEF Settled, flagVars
  <2>3. UNCHANGED <<machine, Frame, next_frame, generation, rtl_generation,
                    recorded_load_sequence, load_sequence>>
    BY DEF RecordBegin, hostVars, Frame
  <2>4. ASSUME NEW file, TapeAgrees(file) PROVE TapeAgrees(file)'
    <3>1. /\ file.replay /\ file.sav /\ file.rows # <<>> /\ LastRow(file).kind = "H"
          /\ LastRow(file).frame = next_frame
          /\ ~Discontinuity => LastRow(file).machine = machine
      BY <1>1, <2>4 DEF TapeAgrees
    <3>2. CASE pc' = "start"
      BY <2>3, <3>1, <3>2 DEF TapeAgrees, Discontinuity
    <3>3. CASE pc' = "checkpoint"
      BY <3>1, <3>3 DEF TapeAgrees, AtFrame
    <3>4. CASE pc' = "put"
      <4>1. LastRow(file).machine = machine /\ LastRow(file).frame = Frame
        BY <2>1, <3>1, <3>4 DEF Discontinuity
      <4>2. Describes(file)'
        BY <2>3, <3>1, <4>1 DEF Describes, Described
      <4> QED
        BY <3>1, <3>4, <4>2 DEF TapeAgrees
    <3> QED
      BY <2>1, <3>2, <3>3, <3>4
  <2> QED
    BY <1>1, <2>2, <2>4, QuietQueued
<1> QED
  BY <1>2, <1>3, <1>4, <1>5 DEF RecordBegin

\* start_segment() closes the old segment, or cannot begin at all.
LEMMA QStart == ASSUME RInv, StartSegment \/ CannotStart PROVE Queued'
<1>1. CASE StartSegment
  <2>1. recording' = FALSE /\ IF recording THEN Offer(EndCmd) ELSE UNCHANGED writerVars
    BY <1>1, CloseStops DEF StartSegment, Close, EndSegment
  <2>2. pc # "gone" /\ Settled
    BY <1>1 DEF StartSegment, Settled, storageVars
  <2> QED
    BY <1>1, <2>1, <2>2, Stopping DEF StartSegment
<1>2. CASE CannotStart
  <2>1. /\ pc = "create" /\ pc' = "run" /\ Error
        /\ UNCHANGED <<segment, oldest_segment, history_bytes, history_sizes>>
    BY <1>2 DEF CannotStart, tapeVars, storageVars
  <2>2. ~recording
    BY <2>1 DEF RInv, IInv, Live, RingHasRoom
  <2> QED
    BY <2>1, <2>2, Stopping DEF Error, Settled
<1> QED
  BY <1>1, <1>2

\* A number that no tape has yet.
LEMMA QCreate == ASSUME RInv, CreateSegment PROVE Queued'
<1>1. /\ pc = "create" /\ pc' = "retire" /\ segment' = segment + 1 /\ segment \in Nat
      /\ ~recording /\ UNCHANGED <<writerVars, recording, oldest_segment>>
      /\ UNCHANGED <<history_bytes, history_sizes>> /\ ~TooManySegments
  BY DEF CreateSegment, flagVars, storageVars, RInv, IInv, Numbers, Live, RingHasRoom
<1>2. PICK st : Becomes(st) /\ (~writerError => Agrees(st))
  BY <1>1 DEF RInv, Queued
<1>3. Becomes(st)' /\ writerError' = writerError
  BY <1>1, <1>2, Still DEF writerVars
<1>4. \A t \in SegmentIds : Unused(t)' => Unused(t)
  BY <1>1 DEF Unused, SegmentIds
<1>5. Newest' = Newest
  BY <1>1 DEF Newest
<1>6. Booked(st) => Booked(st)'
  BY <1>1, <1>5 DEF Booked, Slot
<1>7. ~writerError => Agrees(st)'
  BY <1>1, <1>2, <1>4, <1>6 DEF Agrees
<1> QED
  BY <1>3, <1>7, Promised

\* What the two commands of an eviction do to the files.
LEMMA EvictedFiles ==
  ASSUME NEW st \in States, NEW s \in SegmentIds
  PROVE  LET bare == Did(st, RemoveReplayCmd(s))
             gone == Did(bare, RemoveSavCmd(s))
         IN  /\ bare.open = st.open /\ gone.open = st.open
             /\ ~bare.disk[s].replay /\ ~gone.disk[s].replay
             /\ \A t \in SegmentIds \ {s} : gone.disk[t] = st.disk[t]
<1> DEFINE bare == Did(st, RemoveReplayCmd(s))
           gone == Did(bare, RemoveSavCmd(s))
           file == st.disk[s]
           none == [file EXCEPT !.replay = FALSE, !.rows = <<>>]
           nothing == [none EXCEPT !.sav = FALSE, !.images = <<>>]
<1>1. st.disk \in [SegmentIds -> FileSet] /\ file \in FileSet
  BY DEF States
<1>2. none \in FileSet /\ nothing \in FileSet
  BY <1>1, ShorterTyped
<1>3. \E A, B, C, D : file \in [replay : A, sav : B, rows : C, images : D]
  BY <1>1 DEF FileSet
<1>4. ~none.replay /\ ~nothing.replay
  BY <1>3
<1>5. bare.disk = [st.disk EXCEPT ![s] = none] /\ bare.open = st.open
  BY <1>1 DEF Did, Applied, OpenThen, RemoveReplayCmd
<1>6. bare.disk[s] = none /\ \A t \in SegmentIds \ {s} : bare.disk[t] = st.disk[t]
  BY <1>1, <1>5
<1>7. bare.disk \in [SegmentIds -> FileSet]
  BY <1>1, <1>2, <1>5
<1> HIDE DEF bare, none
<1>8. gone.disk = [bare.disk EXCEPT ![s] = nothing] /\ gone.open = bare.open
  BY <1>6, <1>7 DEF Did, Applied, OpenThen, RemoveSavCmd
<1>9. gone.disk[s] = nothing /\ \A t \in SegmentIds \ {s} : gone.disk[t] = bare.disk[t]
  BY <1>7, <1>8
<1> QED
  BY <1>4, <1>5, <1>6, <1>8, <1>9 DEF bare

\* evict_segment(): the tape goes before its images, and it is the oldest one.
LEMMA QEvict ==
  ASSUME RInv, pc # "gone", Evict, oldest_segment < segment,
         UNCHANGED <<segment, machine, snes_frame_counter, next_frame, generation,
                     rtl_generation, recorded_load_sequence, load_sequence>>,
         pc \in {"retire", "room"}
  PROVE  Queued'
<1>0. PICK s : s = oldest_segment
  OBVIOUS
<1> DEFINE c == RemoveReplayCmd(s)
           d == RemoveSavCmd(s)
<1>1. /\ writerError \in BOOLEAN /\ oldest_segment \in Nat /\ segment \in Nat
      /\ s \in SegmentIds /\ s \in Nat /\ s >= 1 /\ recording \in BOOLEAN
  BY <1>0, WriterAssumption DEF RInv, IInv, Numbers, HostTypes, SegmentIds
<1>2. c \in CmdSet /\ d \in CmdSet
  BY <1>1 DEF CmdSet, RemoveReplayCmd, RemoveSavCmd
<1>3. PICK st : Becomes(st) /\ (~writerError => Agrees(st))
  BY DEF RInv, Queued
<1>4. st \in States
  BY <1>3, PromiseTyped
<1> DEFINE s2 == Did(Did(st, c), d)
<1>5. /\ s2.open = st.open /\ Did(st, c).open = st.open
      /\ ~Did(st, c).disk[s].replay /\ ~s2.disk[s].replay
      /\ \A t \in SegmentIds \ {s} : s2.disk[t] = st.disk[t]
  BY <1>1, <1>4, EvictedFiles
<1>6. ASSUME ~writerError PROVE Legal(st, c) /\ Legal(Did(st, c), d)
  <2>1. Agrees(st) /\ st.open # s
    BY <1>0, <1>1, <1>3, <1>6 DEF Agrees
  <2>2. c.op = "remove_replay" /\ c.seg = s
    BY DEF RemoveReplayCmd
  <2>3. d.op = "remove_sav" /\ d.seg = s
    BY DEF RemoveSavCmd
  <2>4. Legal(st, c)
    <3> HIDE DEF c
    <3> QED
      BY <1>0, <2>1, <2>2 DEF Legal, Agrees, SegmentCmds
  <2>5. Legal(Did(st, c), d)
    <3> HIDE DEF c, d
    <3> QED
      BY <1>5, <2>1, <2>3 DEF Legal, SegmentCmds
  <2> QED
    BY <2>4, <2>5
<1>7. OfferAll(<<c, d>>)
  BY <1>0 DEF Evict, RefusedWith, Eviction
<1> HIDE DEF c, d
<1>8. Len(Eviction) = 2
  BY DEF Eviction
<1>9. /\ Accepts(2) => ~writerError' /\ Becomes(s2)'
      /\ ~Accepts(2) => writerError' /\ \E r : Becomes(r)'
  BY <1>1, <1>2, <1>3, <1>6, <1>7, OfferTwo
<1>10. CASE ~Accepts(2)
  BY <1>9, <1>10, NothingPromised
<1>11. CASE Accepts(2)
  <2>1. ForgetOldest /\ UNCHANGED <<flagVars, pc>>
    BY <1>8, <1>11 DEF Evict, RefusedWith
  <2>2. oldest_segment' = oldest_segment + 1 /\ recording' = recording /\ pc' = pc
    BY <2>1 DEF ForgetOldest, flagVars
  <2>3. Agrees(st)
    BY <1>3, <1>11 DEF Accepts
  <2>4. \A t \in SegmentIds : Unused(t)' => Unused(t) /\ t # s
    BY <1>0, <1>1, <2>2 DEF Unused, SegmentIds
  <2>5. ASSUME NEW t \in SegmentIds, t < oldest_segment + 1 PROVE ~s2.disk[t].replay
    <3>1. CASE t = s
      BY <1>5, <3>1
    <3>2. CASE t # s
      <4>1. t < oldest_segment /\ t \in SegmentIds \ {s}
        BY <1>0, <1>1, <2>5, <3>2 DEF SegmentIds
      <4> QED
        BY <1>5, <2>3, <4>1 DEF Agrees
    <3> QED
      BY <3>1, <3>2
  <2>6. ASSUME recording PROVE TapeAgrees(s2.disk[segment])'
    <3>1. segment \in SegmentIds \ {s}
      BY <1>0, <1>1, <2>6, WriterAssumption DEF SegmentIds, RInv, Control, HostTypes
    <3>2. TapeAgrees(st.disk[segment]) /\ s2.disk[segment] = st.disk[segment]
      BY <1>5, <2>3, <2>6, <3>1 DEF Agrees
    <3>3. pc = "room"
      BY <2>6 DEF RInv, IInv, Live, RingHasRoom
    <3>4. TapeAgrees(st.disk[segment])'
      BY <2>2, <3>2, <3>3 DEF TapeAgrees
    <3> HIDE DEF s2
    <3> QED
      BY <3>2, <3>4
  <2>8. Booked(s2)'
    <3>1. ~writerError /\ Legal(st, c) /\ Legal(Did(st, c), d) /\ Did(st, c) \in States
      BY <1>2, <1>4, <1>6, <1>11, DidTyped DEF Accepts
    <3>2. Booked(st) /\ oldest_segment <= Newest /\ Newest' = Newest
      BY <1>1, <2>2, <2>3, RecorderAssumption DEF Agrees, Newest, TooManySegments, RInv, IInv,
         Live, RingHasRoom
    <3>3. /\ \A t \in oldest_segment+1..Newest :
               history_sizes'[Slot(t)] = history_sizes[Slot(t)]
          /\ history_bytes' = history_bytes - history_sizes[Slot(s)]
      BY <1>0, <2>1, <3>2, EvictLedger DEF RInv, IInv, Live, ForgetOldest
    <3>4. ImageBytes(Did(st, c).disk[s].images) = history_sizes[Slot(s)]
      <4>1. c.op = "remove_replay" /\ Touched(st, c) = s /\ st.disk[s] \in FileSet
        BY <1>1, <1>4 DEF c, RemoveReplayCmd, Touched, SegmentCmds, States
      <4>2. Did(st, c).disk[s].images = st.disk[s].images
        BY <1>2, <1>4, <3>1, <4>1, OneTouched, RewrittenParts
      <4> QED
        BY <1>0, <1>1, <3>2, <4>2 DEF Booked
    <3>5. DiskBytes(s2.disk) = history_bytes'
      <4>1. c.op = "remove_replay" /\ d.op = "remove_sav" /\ d.seg = s
        BY DEF c, d, RemoveReplayCmd, RemoveSavCmd
      <4>2. DiskBytes(Did(st, c).disk) = DiskBytes(st.disk)
        BY <1>2, <1>4, <3>1, <4>1, BytesDid
      <4>3. DiskBytes(s2.disk)
              = DiskBytes(Did(st, c).disk) - ImageBytes(Did(st, c).disk[s].images)
        BY <1>2, <3>1, <4>1, BytesDid
      <4> QED
        BY <3>2, <3>3, <3>4, <4>2, <4>3 DEF Booked
    <3> HIDE DEF s2
    <3>6. ASSUME NEW t \in SegmentIds, oldest_segment' <= t, t <= Newest'
          PROVE  ImageBytes(s2.disk[t].images) = history_sizes'[Slot(t)]
      <4>1. t \in SegmentIds \ {s} /\ t \in oldest_segment+1..Newest /\ oldest_segment <= t
        BY <1>0, <1>1, <2>2, <3>2, <3>6 DEF SegmentIds, Newest
      <4> QED
        BY <1>5, <3>2, <3>3, <4>1 DEF Booked
    <3> QED
      BY <3>5, <3>6 DEF Booked, Slot
  <2>7. Agrees(s2)'
    <3> HIDE DEF s2
    <3>1. s2.open = IF recording' THEN segment' ELSE 0
      BY <1>5, <2>2, <2>3 DEF Agrees
    <3>2. \A t \in SegmentIds : Unused(t)' => s2.disk[t] = NoFiles
      BY <1>5, <2>3, <2>4 DEF Agrees
    <3>3. \A t \in SegmentIds : t < oldest_segment' => ~s2.disk[t].replay
      BY <2>2, <2>5
    <3>4. recording' => TapeAgrees(s2.disk[segment])'
      BY <2>2, <2>6
    <3> QED
      BY <2>8, <3>1, <3>2, <3>3, <3>4 DEF Agrees
  <2> QED
    BY <1>9, <1>11, <2>7, Promised
<1> QED
  BY <1>10, <1>11

\* Retiring old segments, and making room for an image.
LEMMA QRetire == ASSUME RInv, RetireSegments \/ MakeRoom PROVE Queued'
<1>1. /\ pc # "gone" /\ segment \in Nat /\ oldest_segment \in Nat
      /\ UNCHANGED <<segment, machine, snes_frame_counter, next_frame, generation,
                     rtl_generation, recorded_load_sequence, load_sequence>>
  BY DEF RetireSegments, MakeRoom, hostVars, RInv, IInv, Numbers
<1>2. CASE Evict /\ pc \in {"retire", "room"} /\ oldest_segment < segment
  BY <1>1, <1>2, QEvict
<1>3. CASE /\ pc = "retire" /\ pc' = "open"
           /\ UNCHANGED <<writerVars, flagVars, oldest_segment, history_bytes, history_sizes>>
           /\ RetireSegments
  <2>1. ~recording /\ recording' = recording /\ UNCHANGED writerVars
    BY <1>1, <1>3 DEF RInv, IInv, Live, RingHasRoom, flagVars
  <2>3. PICK st : Becomes(st) /\ (~writerError => Agrees(st))
    BY <1>1 DEF RInv, Queued
  <2>4. Becomes(st)' /\ writerError' = writerError
    BY <2>1, <2>3, Still DEF writerVars
  <2>5. Newest = segment - 1 /\ (Newest' = segment \/ Newest' = segment - 1)
    BY <1>1, <1>3 DEF Newest
  <2>6. history_sizes[Slot(segment)] = 0
    <3>1. IInv'
      BY <1>3, RetireStep DEF RInv
    <3> QED
      BY <1>1, <1>3, <3>1 DEF IInv, Live, CurrentBytes, Slot
  <2>7. ASSUME Agrees(st) PROVE Booked(st)'
    <3>1. segment \in SegmentIds => ImageBytes(st.disk[segment].images) = 0
      <4>1. segment \in SegmentIds => st.disk[segment] = NoFiles
        BY <1>3, <2>7 DEF Agrees, Unused
      <4> QED
        BY <4>1, ImageBytesGrow DEF NoFiles
    <3>2. ASSUME NEW t \in SegmentIds, oldest_segment <= t, t <= segment
          PROVE  ImageBytes(st.disk[t].images) = history_sizes[Slot(t)]
      <4>1. CASE t = segment
        BY <2>6, <3>1, <4>1
      <4>2. CASE t # segment
        <5>1. t <= Newest
          BY <1>1, <2>5, <3>2, <4>2 DEF SegmentIds
        <5> QED
          BY <2>7, <3>2, <5>1 DEF Agrees, Booked
      <4> QED
        BY <4>1, <4>2
    <3>3. \A t \in SegmentIds : t <= Newest' => t <= segment
      BY <1>1, <2>5 DEF SegmentIds
    <3> QED
      BY <1>1, <1>3, <2>7, <3>2, <3>3 DEF Agrees, Booked, Slot
  <2>8. Agrees(st) => Agrees(st)'
    BY <1>1, <1>3, <2>1, <2>7 DEF Agrees, Unused
  <2> QED
    BY <2>3, <2>4, <2>8, Promised
<1>4. TooManySegments => oldest_segment < segment
  BY <1>1, RecorderAssumption DEF TooManySegments
<1> QED
  BY <1>2, <1>3, <1>4 DEF RetireSegments, MakeRoom, NoRoom

\* The new segment is opened above all that are kept.
LEMMA QOpen == ASSUME RInv, OpenSegment PROVE Queued'
<1>1. /\ pc = "open" /\ UNCHANGED <<segment, oldest_segment, rows>> /\ ~recording
      /\ UNCHANGED <<history_bytes, history_sizes>> /\ ~TooManySegments
      /\ rows = 0 /\ segment \in Nat /\ oldest_segment \in Nat
      /\ oldest_segment <= segment /\ segment \in SegmentIds /\ writerError \in BOOLEAN
  BY WriterAssumption DEF OpenSegment, RInv, IInv, Numbers, Live, RingHasRoom, Control,
     HostTypes, SegmentIds
<1>2. CASE /\ Accepts(1) /\ Offer(BeginCmd(segment)) /\ recording' = TRUE
           /\ pc' = IF NeedsSnapshot THEN "checkpoint" ELSE "put"
  <2>0. PICK new : new = segment
    OBVIOUS
  <2> DEFINE cmd == BeginCmd(new)
             blank == [replay |-> TRUE, sav |-> TRUE, rows |-> <<>>, images |-> <<>>]
  <2>1. cmd \in CmdSet /\ cmd.op = "begin" /\ cmd.seg = new
    BY <2>0, <1>1 DEF BeginCmd, CmdSet
  <2>2. pc' = "checkpoint"
    BY <1>1, <1>2 DEF NeedsSnapshot
  <2>3. PICK st : Becomes(st) /\ Agrees(st)
    BY <1>1, <1>2 DEF RInv, Queued, Accepts
  <2>4. st.disk \in [SegmentIds -> FileSet]
    BY <2>3, PromiseTyped DEF States
  <2>5. Legal(st, cmd)
    <3>1. \A t \in SegmentIds : t >= new => Unused(t)
      BY <1>1, <2>0 DEF Unused, SegmentIds
    <3>2. st.open = 0 /\ \A t \in SegmentIds : t >= cmd.seg => st.disk[t] = NoFiles
      BY <1>1, <2>1, <2>3, <3>1 DEF Agrees
    <3>3. Cardinality(Taped(st.disk)) < SEGMENTS
      <4>1. Taped(st.disk) \subseteq oldest_segment..segment-1
        <5>1. \A t \in SegmentIds : t < oldest_segment \/ t >= segment => ~st.disk[t].replay
          BY <1>1, <2>3 DEF Agrees, Unused, SegmentIds, NoFiles
        <5> QED
          BY <1>1, <5>1 DEF Taped, SegmentIds
      <4>2. /\ IsFiniteSet(oldest_segment..segment-1)
            /\ Cardinality(oldest_segment..segment-1) = segment - oldest_segment
        <5>1. oldest_segment \in Int /\ segment - 1 \in Int
          BY <1>1
        <5>2. IF oldest_segment > segment - 1
              THEN Cardinality(oldest_segment..segment-1) = 0
              ELSE Cardinality(oldest_segment..segment-1) = segment - oldest_segment
          BY <1>1, <5>1, FS_Interval
        <5> QED
          BY <1>1, <5>1, <5>2, FS_Interval
      <4>3. /\ Cardinality(Taped(st.disk)) <= segment - oldest_segment
            /\ Cardinality(Taped(st.disk)) \in Nat
        BY <4>1, <4>2, FS_Subset, FS_CardinalityType
      <4> QED
        BY <1>1, <4>3, RecorderAssumption DEF TooManySegments
    <3> HIDE DEF cmd
    <3> QED
      BY <2>1, <3>2, <3>3 DEF Legal, SegmentCmds
  <2> DEFINE s2 == Did(st, cmd)
  <2>6. s2.open = new /\ s2.disk = [st.disk EXCEPT ![new] = blank]
    BY DEF Did, Applied, OpenThen, BeginCmd
  <2>7. s2.disk[new] = blank /\ \A t \in SegmentIds \ {new} : s2.disk[t] = st.disk[t]
    BY <1>1, <2>0, <2>4, <2>6
  <2> HIDE DEF cmd
  <2>8. Becomes(s2)'
    BY <1>1, <1>2, <2>0, <2>1, <2>3, <2>5, AcceptedOne DEF Offer, cmd
  <2> HIDE DEF s2
  <2>9. TapeAgrees(blank)'
    BY <2>2 DEF TapeAgrees, AtFrame
  <2>10. \A t \in SegmentIds : Unused(t)' => t # new /\ Unused(t)
    BY <1>1, <2>0, <2>2 DEF Unused, SegmentIds
  <2>11. \A t \in SegmentIds : t < oldest_segment => t # new
    BY <1>1, <2>0 DEF SegmentIds
  <2>13. Booked(s2)'
    <3>1. st \in States /\ cmd.op \notin {"snapshot", "remove_sav"}
      BY <2>1, <2>3, PromiseTyped
    <3>2. DiskBytes(s2.disk) = DiskBytes(st.disk)
      BY <2>1, <2>5, <3>1, BytesDid DEF s2
    <3>3. \A t \in SegmentIds : s2.disk[t].images = st.disk[t].images
      <4>1. new \in SegmentIds /\ Unused(new)
        BY <1>1, <2>0 DEF Unused
      <4>2. st.disk[new].images = s2.disk[new].images
        BY <2>3, <2>7, <4>1 DEF Agrees, NoFiles
      <4> QED
        BY <2>7, <4>2
    <3>4. Newest' = Newest
      BY <1>1, <2>2 DEF Newest, TooManySegments
    <3> QED
      BY <1>1, <2>3, <3>2, <3>3, <3>4 DEF Agrees, Booked, Slot
  <2>12. Agrees(s2)'
    <3>1. s2.open = IF recording' THEN segment' ELSE 0
      BY <1>1, <1>2, <2>0, <2>6
    <3>2. \A t \in SegmentIds : Unused(t)' => s2.disk[t] = NoFiles
      BY <2>3, <2>7, <2>10 DEF Agrees
    <3>3. \A t \in SegmentIds : t < oldest_segment' => ~s2.disk[t].replay
      BY <1>1, <2>3, <2>7, <2>11 DEF Agrees
    <3>4. TapeAgrees(s2.disk[segment])'
      BY <1>1, <2>0, <2>7, <2>9
    <3> QED
      BY <2>13, <3>1, <3>2, <3>3, <3>4 DEF Agrees
  <2> QED
    BY <2>8, <2>12, Promised
<1>3. CASE RefusedWith(<<BeginCmd(segment)>>)
  BY <1>3, Refused
<1>4. CASE Error /\ pc' = "run"
  BY <1>1, <1>4, Stopping DEF Error, Settled
<1> QED
  BY <1>2, <1>3, <1>4 DEF OpenSegment

\* What a command for the open tape does to the files.
LEMMA WrittenFiles ==
  ASSUME NEW st \in States, NEW cmd \in CmdSet, cmd.op \in SegmentCmds,
         st.open \in SegmentIds
  PROVE  LET s2 == Did(st, cmd)
         IN  /\ s2.open = st.open
             /\ \A t \in SegmentIds \ {st.open} : s2.disk[t] = st.disk[t]
             /\ cmd.op = "snapshot" =>
                  s2.disk[st.open] = ApplySnapshot(Written(st), cmd.image)
             /\ cmd.op \in {"line", "frame"} =>
                  s2.disk[st.open] = Longer(Written(st), cmd.row)
<1> DEFINE s2 == Did(st, cmd)
<1>1. st.disk \in [SegmentIds -> FileSet]
  BY DEF States
<1>2. s2.open = st.open
  BY DEF Did, OpenThen, SegmentCmds
<1>3. CASE cmd.op = "snapshot"
  <2>1. s2.disk = [st.disk EXCEPT ![st.open] = ApplySnapshot(Written(st), cmd.image)]
    BY <1>3 DEF Did, Applied, Written
  <2> QED
    BY <1>1, <1>2, <1>3, <2>1
<1>4. CASE cmd.op \in {"line", "frame"}
  <2>1. s2.disk = [st.disk EXCEPT ![st.open] = Longer(Written(st), cmd.row)]
    BY <1>4 DEF Did, Applied, Written, Longer
  <2> QED
    BY <1>1, <1>2, <1>4, <2>1
<1> QED
  BY <1>3, <1>4 DEF SegmentCmds

\* While a segment is recorded its tape is the open one, with its two files.
LEMMA OpenTape ==
  ASSUME RInv, recording, pc # "gone", NEW st \in States, Agrees(st)
  PROVE  /\ segment \in SegmentIds /\ segment \in Nat /\ oldest_segment \in Nat
         /\ oldest_segment <= segment /\ st.open = segment /\ st.open # 0
         /\ Written(st) \in FileSet /\ Written(st).replay /\ TapeAgrees(Written(st))
<1>1. /\ segment \in SegmentIds /\ segment \in Nat /\ oldest_segment \in Nat
      /\ segment # 0
  BY WriterAssumption DEF RInv, IInv, Numbers, Control, HostTypes, SegmentIds
<1>2. oldest_segment <= segment
  BY DEF RInv, IInv, Live, RingHasRoom
<1>3. st.open = segment /\ TapeAgrees(st.disk[segment])
  BY DEF Agrees
<1>4. st.disk[segment] \in FileSet
  BY <1>1 DEF States
<1> QED
  BY <1>1, <1>2, <1>3, <1>4 DEF Written, TapeAgrees

\* A command for the open tape is taken.
LEMMA Grown ==
  ASSUME RInv, recording, recording' = TRUE, pc # "gone",
         UNCHANGED <<segment, oldest_segment>>, pc' \notin {"retire", "open"},
         NEW st, Becomes(st), Agrees(st),
         NEW cmd \in CmdSet, cmd.op \in SegmentCmds, Legal(st, cmd),
         OfferAll(<<cmd>>), Accepts(1),
         TapeAgrees(Did(st, cmd).disk[st.open])', Booked(Did(st, cmd))'
  PROVE  Queued'
<1> DEFINE s2 == Did(st, cmd)
<1>1. st \in States /\ writerError \in BOOLEAN
  BY PromiseTyped DEF RInv, IInv, Numbers
<1>2. /\ segment \in SegmentIds /\ segment \in Nat /\ oldest_segment \in Nat
      /\ oldest_segment <= segment /\ st.open = segment
  BY <1>1, OpenTape
<1>3. Becomes(s2)'
  BY <1>1, AcceptedOne
<1>4. s2.open = st.open /\ \A t \in SegmentIds \ {st.open} : s2.disk[t] = st.disk[t]
  BY <1>1, <1>2, WrittenFiles
<1>5. TapeAgrees(s2.disk[st.open])' /\ Booked(s2)'
  OBVIOUS
<1> HIDE DEF s2
<1>6. \A t \in SegmentIds : Unused(t)' => t # segment /\ Unused(t)
  BY <1>2 DEF Unused, SegmentIds
<1>7. \A t \in SegmentIds : t < oldest_segment => t # segment
  BY <1>2 DEF SegmentIds
<1>8. Agrees(s2)'
  <2>1. s2.open = IF recording' THEN segment' ELSE 0
    BY <1>2, <1>4
  <2>2. \A t \in SegmentIds : Unused(t)' => s2.disk[t] = NoFiles
    BY <1>2, <1>4, <1>6 DEF Agrees
  <2>3. \A t \in SegmentIds : t < oldest_segment' => ~s2.disk[t].replay
    BY <1>2, <1>4, <1>7 DEF Agrees
  <2>4. TapeAgrees(s2.disk[segment])'
    BY <1>2, <1>5
  <2> QED
    BY <1>5, <2>1, <2>2, <2>3, <2>4 DEF Agrees
<1> QED
  BY <1>3, <1>8, Promised

\* A row is not booked.
LEMMA RowBooked ==
  ASSUME RInv, recording, pc # "gone", Settled, NEW st \in States, Agrees(st),
         NEW cmd \in CmdSet, cmd.op \in {"line", "frame"}, Legal(st, cmd)
  PROVE  Booked(Did(st, cmd))'
<1> DEFINE s2 == Did(st, cmd)
<1>1. DiskBytes(s2.disk) = DiskBytes(st.disk)
  BY BytesDid
<1>2. \A t \in SegmentIds : s2.disk[t].images = st.disk[t].images
  <2>1. /\ Touched(st, cmd) \in SegmentIds
        /\ s2.disk[Touched(st, cmd)] = Rewritten(st.disk[Touched(st, cmd)], cmd)
        /\ \A t \in SegmentIds : t # Touched(st, cmd) => s2.disk[t] = st.disk[t]
    BY OneTouched
  <2>2. st.disk[Touched(st, cmd)] \in FileSet
    BY <2>1 DEF States
  <2>3. s2.disk[Touched(st, cmd)].images = st.disk[Touched(st, cmd)].images
    BY <2>1, <2>2, RewrittenParts
  <2> HIDE DEF s2
  <2> QED
    BY <2>1, <2>3
<1>3. Booked(st)'
  BY SameBooks DEF Agrees
<1> HIDE DEF s2
<1> QED
  BY <1>1, <1>2, <1>3 DEF Booked, s2

\* write_snapshot() serialises the machine.
LEMMA QTake == ASSUME RInv, NEW n \in SnapshotSizes, TakeSnapshot(n) PROVE Queued'
<1>1. /\ pc = "checkpoint"
      /\ UNCHANGED <<segment, oldest_segment, history_bytes, history_sizes>>
  BY DEF TakeSnapshot, tapeVars, storageVars
<1>2. CASE pc' = "room" /\ UNCHANGED <<writerVars, flagVars>>
  <2>1. Settled /\ recording' = recording /\ UNCHANGED writerVars
    BY <1>1, <1>2 DEF Settled, flagVars
  <2>2. \A file : TapeAgrees(file) => TapeAgrees(file)'
    BY <1>1, <1>2 DEF TapeAgrees
  <2> QED
    BY <1>1, <2>1, <2>2, QuietQueued
<1>3. CASE Error /\ pc' = "run"
  BY <1>1, <1>3, Stopping DEF Error, Settled
<1> QED
  BY <1>2, <1>3 DEF TakeSnapshot

\* The image of the machine that the game runs next.
LEMMA QPutSnapshot == ASSUME RInv, PutSnapshot PROVE Queued'
<1>1. /\ pc = "room" /\ recording
      /\ UNCHANGED <<segment, oldest_segment, machine, snes_frame_counter>>
  BY DEF PutSnapshot, tapeVars, hostVars, RInv, FInv
<1>2. CASE RefusedWith(<<SnapshotCmd(Image)>>)
  BY <1>2, Refused
<1>3. CASE /\ Accepts(1) /\ Offer(SnapshotCmd(Image)) /\ CountSnapshot
           /\ pc' = "put" /\ UNCHANGED flagVars
  <2>0. PICK image : image = Image
    OBVIOUS
  <2> DEFINE cmd == SnapshotCmd(image)
  <2>1. /\ image \in ImageSet /\ image.machine = machine /\ image.frame = Frame
    BY <2>0 DEF Image, ImageSet, Frame, RInv, HostTypes, IInv, Numbers
  <2>2. cmd \in CmdSet /\ cmd.op = "snapshot" /\ cmd.image = image
    BY <2>1 DEF SnapshotCmd, CmdSet
  <2>3. PICK st : Becomes(st) /\ Agrees(st)
    BY <1>1, <1>3 DEF RInv, Queued, Accepts
  <2>4. /\ st \in States /\ st.open \in SegmentIds /\ st.open # 0
        /\ Written(st) \in FileSet /\ Written(st).replay /\ TapeAgrees(Written(st))
    BY <1>1, <2>3, OpenTape, PromiseTyped
  <2>5. AtFrame(Written(st))
    BY <1>1, <2>4 DEF TapeAgrees
  <2> DEFINE longer == ApplySnapshot(Written(st), image)
  <2>6. /\ Chained(longer, Len(Written(st).rows) + 1)
        /\ longer.rows # <<>> /\ LastRow(longer).kind = "S"
        /\ Described(longer, LastRow(longer)) =
             [machine |-> image.machine, frame |-> image.frame]
    BY <2>1, <2>4, <2>5, ImageFollows
  <2>7. /\ longer.replay = Written(st).replay /\ longer.sav = Written(st).sav
        /\ longer.images = Append(Written(st).images, image)
    BY <2>1, <2>4, ImageParts
  <2> HIDE DEF cmd
  <2>13. /\ DiskBytes(st.disk) = history_bytes /\ image.size = size
         /\ history_bytes' = history_bytes + size /\ history_bytes' <= HISTORY_LIMIT
    <3>1. HistoryWithinLimit'
      BY PutSnapshotStep DEF RInv, IInv
    <3> QED
      BY <1>3, <2>0, <2>3, <3>1 DEF Agrees, Booked, Image, CountSnapshot, HistoryWithinLimit
  <2>8. Legal(st, cmd)
    BY <2>2, <2>4, <2>6, <2>13 DEF Legal, SegmentCmds
  <2>9. OfferAll(<<cmd>>)
    BY <1>3, <2>0 DEF Offer, cmd
  <2>10. Did(st, cmd).disk[st.open] = longer
    BY <2>2, <2>4, WrittenFiles DEF SegmentCmds
  <2> HIDE DEF longer
  <2>11. TapeAgrees(longer)'
    <3>1. Describes(longer)'
      BY <1>1, <2>1, <2>6 DEF Describes, Frame
    <3>2. longer.replay /\ longer.sav
      BY <2>4, <2>7 DEF TapeAgrees
    <3> QED
      BY <1>3, <3>1, <3>2 DEF TapeAgrees
  <2>12. recording' = TRUE /\ pc' \notin {"retire", "open"} /\ cmd.op \in SegmentCmds
    BY <1>1, <1>3, <2>2 DEF flagVars, RInv, IInv, Numbers, SegmentCmds
  <2>14. Booked(Did(st, cmd))'
    <3> DEFINE s2 == Did(st, cmd)
    <3>1. DiskBytes(s2.disk) = history_bytes'
      BY <2>2, <2>4, <2>8, <2>13, BytesDid
    <3>2. /\ segment \in SegmentIds /\ st.open = segment /\ segment \in Nat
          /\ oldest_segment \in Nat /\ oldest_segment <= segment
      BY <1>1, <2>3, <2>4, OpenTape
    <3>3. Newest = segment /\ Newest' = segment
      BY <1>1, <1>3 DEF Newest, TooManySegments, RInv, IInv, Live, RingHasRoom
    <3>4. \A t \in SegmentIds : t # segment => s2.disk[t] = st.disk[t]
      BY <2>2, <2>4, <3>2, WrittenFiles DEF SegmentCmds
    <3>5. s2.disk[segment].images = Append(st.disk[segment].images, image)
      BY <2>7, <2>10, <3>2 DEF Written
    <3>6. st.disk[segment].images \in Seq(ImageSet) /\ Booked(st)
      BY <2>3, <2>4, <3>2 DEF Written, FileSet, Agrees
    <3> HIDE DEF s2
    <3>7. history_sizes' = [history_sizes EXCEPT ![Slot(segment)] = @ + size]
      BY <1>3 DEF CountSnapshot
    <3>8. /\ history_sizes \in [0..SEGMENTS-1 -> Nat] /\ Slot(segment) \in 0..SEGMENTS-1
          /\ segment - oldest_segment < SEGMENTS
      BY <1>1, <3>2, <3>3, SlotInRing DEF RInv, IInv, Numbers, Live, Ledger
    <3>9. ASSUME NEW t \in SegmentIds, oldest_segment <= t, t <= segment
          PROVE  ImageBytes(s2.disk[t].images) = history_sizes'[Slot(t)]
      <4>1. ImageBytes(st.disk[t].images) = history_sizes[Slot(t)]
        BY <3>3, <3>6, <3>9 DEF Booked
      <4>2. CASE t = segment
        BY <2>1, <2>13, <3>5, <3>6, <3>7, <3>8, <4>1, <4>2, ImageBytesGrow
      <4>3. CASE t # segment
        <5>1. Slot(t) # Slot(segment) /\ Slot(t) \in 0..SEGMENTS-1
          <6>1. t \in Nat /\ t < segment /\ segment - t < SEGMENTS
            BY <3>2, <3>8, <3>9, <4>3, RecorderAssumption DEF SegmentIds
          <6> QED
            BY <3>2, <6>1, SlotsDiffer, SlotInRing
        <5> QED
          BY <3>4, <3>7, <3>8, <4>1, <4>3, <5>1
      <4> QED
        BY <4>2, <4>3
    <3> QED
      BY <1>1, <3>1, <3>3, <3>9 DEF Booked, Slot, s2
  <2> QED
    BY <1>1, <1>3, <2>2, <2>3, <2>8, <2>9, <2>10, <2>11, <2>12, <2>14, Grown
<1> QED
  BY <1>2, <1>3 DEF PutSnapshot

\* The input row of the frame.
LEMMA QPutInput == ASSUME RInv, PutInput PROVE Queued'
<1>1. /\ pc = "put" /\ pc' = "run" /\ recording
      /\ UNCHANGED <<history_bytes, history_sizes>>
      /\ UNCHANGED <<segment, oldest_segment, machine, snes_frame_counter, view,
                     input, rtl_generation, load_sequence>>
      /\ generation' = rtl_generation /\ recorded_load_sequence' = load_sequence
  BY DEF PutInput, localVars, hostVars, storageVars, RInv, FInv
<1>2. CASE RefusedWith(<<LineCmd(InputRow)>>)
  BY <1>2, Refused
<1>3. CASE /\ Accepts(1) /\ Offer(LineCmd(InputRow)) /\ next_frame' = Frame + 1
           /\ UNCHANGED <<failed, recording>>
  <2>0. PICK row : row = InputRow
    OBVIOUS
  <2> DEFINE cmd == LineCmd(row)
  <2>1. PICK st : Becomes(st) /\ Agrees(st)
    BY <1>1, <1>3 DEF RInv, Queued, Accepts
  <2>2. /\ st \in States /\ st.open \in SegmentIds /\ st.open # 0
        /\ Written(st) \in FileSet /\ Written(st).replay /\ TapeAgrees(Written(st))
    BY <1>1, <2>1, OpenTape, PromiseTyped
  <2>3. Describes(Written(st))
    BY <1>1, <2>2 DEF TapeAgrees
  <2> DEFINE longer == Longer(Written(st), row)
  <2>4. /\ row \in RowSet /\ Chained(longer, Len(Written(st).rows) + 1)
        /\ Owes(longer, Frame + 1, Step(machine, input, view))
    <3>1. /\ Frame \in Nat /\ machine \in Machines /\ input \in Inputs /\ view \in Views
      BY DEF RInv, HostTypes, Frame
    <3> QED
      BY <2>0, <2>2, <2>3, <3>1, InputFollows DEF Describes, InputRow
  <2>5. row.kind # "S"
    BY <2>0 DEF InputRow
  <2>6. cmd \in CmdSet /\ cmd.op = "line" /\ cmd.row = row
    BY <2>4 DEF LineCmd, CmdSet
  <2>7. longer.replay = Written(st).replay /\ longer.sav = Written(st).sav
    BY <2>2, <2>4, LongerParts
  <2> HIDE DEF cmd
  <2>8. Legal(st, cmd)
    BY <2>2, <2>4, <2>5, <2>6 DEF Legal, SegmentCmds
  <2>9. OfferAll(<<cmd>>)
    BY <1>3, <2>0 DEF Offer, cmd
  <2>10. Did(st, cmd).disk[st.open] = longer
    BY <2>2, <2>6, WrittenFiles DEF SegmentCmds
  <2> HIDE DEF longer
  <2>11. TapeAgrees(longer)'
    <3>1. Frame' = Frame /\ Step(machine, input, view)' = Step(machine, input, view)
      BY <1>1 DEF Frame
    <3>2. Owes(longer, Frame + 1, Step(machine, input, view))'
      BY <2>4, <3>1 DEF Owes
    <3>3. Current(Frame + 1)'
      BY <1>1, <1>3, <3>1 DEF Current
    <3>4. longer.replay /\ longer.sav
      BY <2>2, <2>7 DEF TapeAgrees
    <3> QED
      BY <1>1, <3>2, <3>3, <3>4 DEF TapeAgrees
  <2>12. recording' = TRUE /\ cmd.op \in SegmentCmds
    BY <1>1, <1>3, <2>6 DEF RInv, IInv, Numbers, SegmentCmds
  <2>13. Booked(Did(st, cmd))'
    <3>1. Settled
      BY <1>1 DEF Settled
    <3> QED
      BY <1>1, <2>1, <2>2, <2>6, <2>8, <3>1, RowBooked
  <2> QED
    BY <1>1, <1>3, <2>1, <2>6, <2>8, <2>9, <2>10, <2>11, <2>12, <2>13, Grown
<1> QED
  BY <1>2, <1>3 DEF PutInput

-----------------------------------------------------------------------------
(***************************************************************************)
(* The frame and its end.                                                    *)
(***************************************************************************)
\* The frame leads to the machine that the tape waits for.
LEMMA QRunFrame == ASSUME RInv, RunFrame PROVE Queued'
<1>1. /\ pc = "run" /\ pc' = "end" /\ machine' = Step(machine, input, view)
      /\ snes_frame_counter' = Frame + 1
      /\ UNCHANGED <<writerVars, recording, segment, oldest_segment, next_frame,
                     generation, rtl_generation, recorded_load_sequence, load_sequence,
                     history_bytes, history_sizes>>
  BY DEF RunFrame, flagVars, tapeVars, storageVars
<1>2. Settled
  BY <1>1 DEF Settled
<1>3. ASSUME NEW file, TapeAgrees(file) PROVE TapeAgrees(file)'
  <2>1. /\ file.replay /\ file.sav /\ Current(Frame + 1)
        /\ Owes(file, Frame + 1, Step(machine, input, view))
    BY <1>1, <1>3 DEF TapeAgrees
  <2>2. Frame' = Frame + 1
    BY <1>1 DEF Frame
  <2>3. Current(Frame)'
    BY <1>1, <2>1, <2>2 DEF Current
  <2>4. Owes(file, Frame, machine)'
    BY <1>1, <2>1, <2>2 DEF Owes
  <2> QED
    BY <1>1, <2>1, <2>3, <2>4 DEF TapeAgrees
<1> QED
  BY <1>1, <1>2, <1>3, QuietQueued

\* The H row of the frame.
LEMMA QFrameEnd == ASSUME RInv, FrameEnd PROVE Queued'
<1>1. /\ pc = "end" /\ pc' = "idle"
      /\ UNCHANGED <<segment, oldest_segment, machine, snes_frame_counter, next_frame,
                     generation, rtl_generation, recorded_load_sequence, load_sequence,
                     history_bytes, history_sizes>>
  BY DEF FrameEnd, hostVars, storageVars
<1>2. recording => pending /\ ~failed
  BY <1>1 DEF RInv, Control, FInv, FailureStopsCapture
<1>3. CASE ~recording /\ UNCHANGED <<writerVars, recording>>
  <2>1. Settled
    BY <1>1 DEF Settled
  <2> QED
    BY <1>1, <1>3, <2>1, QuietQueued
<1>4. CASE RefusedWith(<<FrameCmd(HashRow)>>)
  BY <1>4, Refused
<1>5. CASE recording /\ Accepts(1) /\ Offer(FrameCmd(HashRow)) /\ recording' = recording
  <2>0. PICK row : row = HashRow
    OBVIOUS
  <2> DEFINE cmd == FrameCmd(row)
  <2>1. PICK st : Becomes(st) /\ Agrees(st)
    BY <1>1, <1>5 DEF RInv, Queued, Accepts
  <2>2. /\ st \in States /\ st.open \in SegmentIds /\ st.open # 0
        /\ Written(st) \in FileSet /\ Written(st).replay /\ TapeAgrees(Written(st))
    BY <1>1, <1>5, <2>1, OpenTape, PromiseTyped
  <2>3. Current(Frame) /\ Owes(Written(st), Frame, machine)
    BY <1>1, <2>2 DEF TapeAgrees
  <2> DEFINE longer == Longer(Written(st), row)
  <2>4. /\ row \in RowSet /\ row.kind = "H" /\ row.frame = Frame /\ row.machine = machine
    BY <2>0 DEF HashRow, RowSet, RInv, HostTypes, Frame
  <2>5. Chained(longer, Len(Written(st).rows) + 1)
    BY <2>0, <2>3 DEF Owes, HashRow
  <2>6. cmd \in CmdSet /\ cmd.op = "frame" /\ cmd.row = row
    BY <2>4 DEF FrameCmd, CmdSet
  <2>7. /\ longer.replay = Written(st).replay /\ longer.sav = Written(st).sav
        /\ longer.rows # <<>> /\ LastRow(longer) = row
    BY <2>2, <2>4, LongerParts
  <2> HIDE DEF cmd
  <2>8. Legal(st, cmd)
    BY <2>2, <2>4, <2>5, <2>6 DEF Legal, SegmentCmds
  <2>9. OfferAll(<<cmd>>)
    BY <1>5, <2>0 DEF Offer, cmd
  <2>10. Did(st, cmd).disk[st.open] = longer
    BY <2>2, <2>6, WrittenFiles DEF SegmentCmds
  <2> HIDE DEF longer
  <2>11. TapeAgrees(longer)'
    <3>1. next_frame' = Frame /\ machine' = machine
      BY <1>1, <2>3 DEF Current
    <3>2. longer.replay /\ longer.sav
      BY <2>2, <2>7 DEF TapeAgrees
    <3> QED
      BY <1>1, <2>4, <2>7, <3>1, <3>2 DEF TapeAgrees
  <2>12. recording' = TRUE /\ cmd.op \in SegmentCmds
    BY <1>5, <2>6 DEF RInv, IInv, Numbers, SegmentCmds
  <2>13. Booked(Did(st, cmd))'
    <3>1. Settled
      BY <1>1 DEF Settled
    <3> QED
      BY <1>1, <1>5, <2>1, <2>2, <2>6, <2>8, <3>1, RowBooked
  <2> QED
    BY <1>1, <1>5, <2>1, <2>6, <2>8, <2>9, <2>10, <2>11, <2>12, <2>13, Grown
<1> QED
  BY <1>2, <1>3, <1>4, <1>5 DEF FrameEnd, RecordEnd, flagVars

-----------------------------------------------------------------------------
(***************************************************************************)
(* What the host, the worker and the end of the process leave promised.      *)
(***************************************************************************)
\* A host event after which a tape that is being recorded waits, or is cut.
LEMMA HostQueued ==
  ASSUME RInv, pc = "idle", pc' \in {"idle", "begin"},
         UNCHANGED <<writerVars, recording, segment, oldest_segment, next_frame,
                     history_bytes, history_sizes>>,
         Discontinuity' \/ (machine' = machine /\ ~Discontinuity)
           \/ (machine' = machine /\ Discontinuity' = Discontinuity)
  PROVE  Queued'
<1>1. Settled
  BY DEF Settled
<1>2. ASSUME NEW file, TapeAgrees(file) PROVE TapeAgrees(file)'
  <2>1. /\ file.replay /\ file.sav /\ file.rows # <<>> /\ LastRow(file).kind = "H"
        /\ LastRow(file).frame = next_frame
        /\ ~Discontinuity => LastRow(file).machine = machine
    BY <1>2 DEF TapeAgrees
  <2> QED
    BY <2>1 DEF TapeAgrees
<1> QED
  BY <1>1, <1>2, QuietQueued

\* The host starts a frame, loads, resets, toggles or resizes.
LEMMA QEvents ==
  ASSUME RInv,
         \/ \E in \in Inputs : BeginFrame(in)
         \/ \E saved \in SavedStates, rollback \in BOOLEAN : Load(saved, rollback)
         \/ Reset \/ ToggleRunahead \/ \E v \in Views : ChangeView(v)
  PROVE  Queued'
<1>1. ASSUME NEW in \in Inputs, BeginFrame(in) PROVE Queued'
  <2>1. Discontinuity' = Discontinuity
    BY <1>1 DEF BeginFrame, tapeVars, Discontinuity, Frame
  <2> QED
    BY <1>1, <2>1, HostQueued DEF BeginFrame, tapeVars, flagVars, storageVars
<1>2. ASSUME NEW saved \in SavedStates, NEW rollback \in BOOLEAN, Load(saved, rollback)
      PROVE  Queued'
  <2>1. recorded_load_sequence' < load_sequence' /\ load_sequence' \in Nat
    BY <1>2 DEF Load, quiet, RInv, Control, HostTypes
  <2>2. recorded_load_sequence' # load_sequence'
    BY <1>2, <2>1 DEF Load, quiet, RInv, HostTypes
  <2>3. Discontinuity'
    BY <2>2 DEF Discontinuity
  <2> QED
    BY <1>2, <2>3, HostQueued DEF Load, HostEvent, quiet, flagVars, storageVars
<1>3. CASE Reset
  <2>1. generation' # rtl_generation'
    BY <1>3 DEF Reset, quiet, RInv, Control, HostTypes
  <2>2. Discontinuity'
    BY <2>1 DEF Discontinuity
  <2> QED
    BY <1>3, <2>2, HostQueued DEF Reset, HostEvent, quiet, flagVars, storageVars
<1>4. CASE ToggleRunahead \/ \E v \in Views : ChangeView(v)
  <2>1. Discontinuity' = Discontinuity
    BY <1>4 DEF ToggleRunahead, ChangeView, quiet, Discontinuity, Frame
  <2> QED
    BY <1>4, <2>1, HostQueued DEF ToggleRunahead, ChangeView, HostEvent, quiet, flagVars,
         storageVars
<1> QED
  BY <1>1, <1>2, <1>3, <1>4

\* MmxReplayEnable() and MmxReplayShutdown().
LEMMA QClose ==
  ASSUME RInv, Shutdown \/ \E on \in BOOLEAN : Enable(on)
  PROVE  Queued'
<1>1. /\ pc = "idle" /\ pc' \in {"idle", "drain"}
      /\ UNCHANGED <<segment, oldest_segment, history_bytes, history_sizes>>
  BY DEF Shutdown, Enable, HostEvent, quiet, storageVars
<1>2. CASE Close
  <2>1. recording' = FALSE /\ IF recording THEN Offer(EndCmd) ELSE UNCHANGED writerVars
    BY <1>2, CloseStops DEF Close, EndSegment
  <2> QED
    BY <1>1, <2>1, Stopping DEF Settled
<1>3. CASE /\ UNCHANGED <<writerVars, recording>>
           /\ \E on \in BOOLEAN : Enable(on)
  <2>1. Discontinuity' = Discontinuity
    BY <1>3 DEF Enable, quiet, Discontinuity, Frame
  <2> QED
    BY <1>3, <2>1, HostQueued DEF Enable, HostEvent, quiet, storageVars
<1> QED
  BY <1>2, <1>3 DEF Shutdown, Enable

\* The worker takes a command, or fails with it and all others.
LEMMA QWorker == ASSUME RInv, Worker PROVE Queued'
<1>1. /\ UNCHANGED <<machine, snes_frame_counter, view, input, recording, segment,
                     oldest_segment, next_frame, generation, rtl_generation,
                     recorded_load_sequence, load_sequence, pc,
                     history_bytes, history_sizes>>
      /\ pc # "gone" /\ (WorkerStep \/ WorkerFail)
  BY DEF Worker, hostVars, localVars, tapeVars, flagVars, storageVars
<1>2. PICK st : Becomes(st) /\ (~writerError => Agrees(st))
  BY <1>1 DEF RInv, Queued
<1>3. CASE WorkerStep
  <2>1. Becomes(st)' /\ writerError' = writerError
    BY <1>2, <1>3, Taken DEF WorkerStep
  <2>2. Agrees(st) => Agrees(st)'
    <3>1. TapeAgrees(st.disk[segment]) => TapeAgrees(st.disk[segment])'
      BY <1>1 DEF TapeAgrees, Describes, Current, Discontinuity, Frame
    <3> QED
      BY <1>1, <3>1, QuietAgrees DEF Settled, Agrees
  <2> QED
    BY <1>2, <2>1, <2>2, Promised
<1>4. CASE WorkerFail
  <2>1. writerError' = TRUE /\ queue' = <<>> /\ openSeg' = 0 /\ disk' = disk
    BY <1>4 DEF WorkerFail
  <2>2. PICK s : s = Now'
    OBVIOUS
  <2>3. s \in States
    <3>1. disk \in [SegmentIds -> FileSet]
      BY <1>2, PromiseTyped DEF States, Now
    <3> QED
      BY <2>1, <2>2, <3>1, WriterAssumption DEF States, Now
  <2>4. Becomes(s)'
    BY <2>1, <2>2, <2>3, NoCommands, WriterAssumption DEF Becomes
  <2> QED
    BY <2>1, <2>4, NothingPromised
<1> QED
  BY <1>1, <1>3, <1>4

\* What is left when the process ends.
LEMMA QEnd ==
  ASSUME RInv, Drained \/ Crash \/ Gone \/ UNCHANGED vars
  PROVE  Queued'
<1>1. PICK st : Becomes(st) /\ (~writerError /\ pc # "gone" => Agrees(st))
  BY DEF RInv, Queued
<1>2. CASE Drained
  BY <1>1, <1>2, Still, NothingPromised DEF Drained, writerVars
<1>3. CASE Crash
  <2>1. pc' = "gone" /\ queue' = <<>> /\ UNCHANGED <<openSeg, disk>>
    BY <1>3 DEF Crash
  <2>2. PICK s : s = Now
    OBVIOUS
  <2>3. s \in States /\ s = Now'
    BY <1>1, <2>1, <2>2, PromiseTyped DEF Now
  <2>4. Becomes(s)'
    BY <2>1, <2>3, NoCommands, WriterAssumption DEF Becomes
  <2> QED
    BY <2>1, <2>4, NothingPromised
<1>4. CASE UNCHANGED vars
  <2>1. Becomes(st)'
    BY <1>1, <1>4, Still DEF vars, writerVars
  <2>2. CASE pc = "gone"
    BY <1>4, <2>1, <2>2, NothingPromised DEF vars
  <2>3. CASE pc # "gone"
    <3>1. Agrees(st) => Agrees(st)'
      BY <1>4 DEF vars, flagVars, tapeVars, hostVars, localVars, storageVars, Agrees,
           Unused, TapeAgrees, Describes, Current, Discontinuity, Frame, Booked, Newest,
           TooManySegments
    <3> QED
      BY <1>1, <1>4, <2>1, <2>3, <3>1, Promised DEF vars, writerVars
  <2> QED
    BY <2>2, <2>3
<1> QED
  BY <1>2, <1>3, <1>4 DEF Gone

-----------------------------------------------------------------------------
(***************************************************************************)
(* Types and control.                                                        *)
(***************************************************************************)
TInv == HostTypes /\ Control

\* What error(), a refused command and MmxReplayClose() do to the flags.
LEMMA Stops ==
  ASSUME Error \/ Close \/ \E cmds : RefusedWith(cmds)
  PROVE  ~recording' /\ pending' = FALSE /\ failed' \in {TRUE, FALSE, failed}
<1>1. CASE Error \/ \E cmds : RefusedWith(cmds)
  BY <1>1 DEF Error, RefusedWith
<1>2. CASE Close
  <2>1. (failed \/ ~Accepts(1)) \in {TRUE, FALSE}
    OBVIOUS
  <2>2. failed' \in {TRUE, FALSE, failed}
    BY <1>2, <2>1, Zenon DEF Close, EndSegment
  <2> QED
    BY <1>2, <2>2, CloseStops DEF Close, EndSegment
<1> QED
  BY <1>1, <1>2

\* A step after which nothing is recorded, and the frame comes next.
LEMMA StopTypes ==
  ASSUME TInv, ~recording', pending' = FALSE, failed' \in BOOLEAN,
         pc' \in {"run", "drain", "idle"},
         UNCHANGED <<hostVars, input, segment, next_frame, generation,
                     recorded_load_sequence>>,
         oldest_segment' >= 1
  PROVE  TInv'
  BY DEF TInv, HostTypes, Control, hostVars, BeginSteps

\* The steps of record_begin() that decide, and those of start_segment().
LEMMA TypesBegin ==
  ASSUME RInv, RecordBegin \/ StartSegment \/ CreateSegment \/ CannotStart
  PROVE  TInv'
<1>1. TInv /\ RInv /\ segment \in Nat
  BY DEF RInv, TInv, IInv, Numbers
<1>2. CASE RecordBegin
  <2>1. /\ pc = "begin"
        /\ UNCHANGED <<hostVars, input, segment, oldest_segment, next_frame, generation,
                       recorded_load_sequence>>
    BY <1>2 DEF RecordBegin, localVars
  <2>2. CASE Off /\ pc' = "run" /\ UNCHANGED <<writerVars, flagVars, rows>>
    <3>1. ~recording
      BY <2>2, RecordingIsOn
    <3> QED
      BY <1>1, <2>1, <2>2, <3>1 DEF TInv, HostTypes, Control, hostVars, flagVars, BeginSteps
  <2>3. CASE (Error \/ Close) /\ pc' = "run"
    BY <1>1, <2>1, <2>3, Stops, StopTypes DEF TInv, HostTypes
  <2>4. CASE ~Off /\ pc' \in {"start", "checkpoint", "put"} /\ UNCHANGED flagVars
    BY <1>1, <2>1, <2>4 DEF TInv, HostTypes, Control, hostVars, flagVars, BeginSteps, Off
  <2> QED
    BY <1>2, <2>2, <2>3, <2>4 DEF RecordBegin
<1>3. CASE StartSegment
  <2>1. /\ pc = "start" /\ pc' \in {"run", "create"} /\ rows' = 0
        /\ UNCHANGED <<hostVars, input, segment, oldest_segment, next_frame, generation,
                       recorded_load_sequence>>
    BY <1>3 DEF StartSegment, Close, localVars
  <2>2. ~recording' /\ pending' = FALSE /\ failed' \in BOOLEAN
    BY <1>1, <1>3, Stops DEF StartSegment, TInv, HostTypes
  <2> QED
    BY <1>1, <2>1, <2>2 DEF TInv, HostTypes, Control, hostVars, BeginSteps
<1>4. CASE CreateSegment
  BY <1>1, <1>4, WriterAssumption
  DEF CreateSegment, TInv, HostTypes, Control, hostVars, flagVars, localVars, BeginSteps
<1>5. CASE CannotStart
  BY <1>1, <1>5, Stops, StopTypes DEF CannotStart, tapeVars, localVars, TInv, HostTypes
<1> QED
  BY <1>2, <1>3, <1>4, <1>5

\* The steps that open a segment and write its image and its input row.
LEMMA TypesWrite ==
  ASSUME RInv,
         \/ RetireSegments \/ MakeRoom \/ OpenSegment \/ PutSnapshot \/ PutInput
         \/ \E n \in SnapshotSizes : TakeSnapshot(n)
  PROVE  TInv'
<1>1. TInv /\ segment \in Nat /\ oldest_segment \in Nat /\ recording \in BOOLEAN
  BY DEF RInv, TInv, IInv, Numbers
<1>2. CASE RetireSegments \/ MakeRoom
  <2>1. /\ pc \in {"retire", "room"}
        /\ UNCHANGED <<hostVars, input, segment, rows, next_frame, generation,
                       recorded_load_sequence>>
    BY <1>2 DEF RetireSegments, MakeRoom, localVars
  <2>2. CASE Evict /\ UNCHANGED <<flagVars, pc>>
    <3>1. oldest_segment' >= 1
      BY <1>1, <2>2 DEF Evict, ForgetOldest, TInv, HostTypes
    <3> QED
      BY <1>1, <2>1, <2>2, <3>1 DEF TInv, HostTypes, Control, hostVars, flagVars
  <2>3. CASE RefusedWith(Eviction) /\ pc' = "run" /\ UNCHANGED oldest_segment
    <3>1. recording' = FALSE /\ pending' = FALSE /\ failed' \in BOOLEAN
      BY <2>3 DEF RefusedWith
    <3> QED
      BY <1>1, <2>1, <2>3, <3>1, StopTypes DEF TInv, HostTypes
  <2>4. CASE pc = "retire" /\ pc' = "open" /\ UNCHANGED <<flagVars, oldest_segment>>
    BY <1>1, <2>1, <2>4 DEF TInv, HostTypes, Control, hostVars, flagVars, BeginSteps
  <2> QED
    BY <1>2, <2>2, <2>3, <2>4 DEF RetireSegments, MakeRoom, Evict
<1>3. CASE OpenSegment
  <2>1. /\ pc = "open" /\ next_frame' = Frame /\ generation' = rtl_generation
        /\ UNCHANGED <<hostVars, input, segment, oldest_segment, rows,
                       recorded_load_sequence>>
    BY <1>3 DEF OpenSegment, NewSegment, localVars
  <2>2. CASE /\ recording' = TRUE /\ pc' \in {"checkpoint", "put"}
             /\ UNCHANGED <<failed, pending>>
    BY <1>1, <2>1, <2>2 DEF TInv, HostTypes, Control, hostVars, Frame, BeginSteps
  <2>3. CASE (Error \/ RefusedWith(<<BeginCmd(segment)>>)) /\ pc' = "run"
    <3>1. ~recording' /\ pending' = FALSE /\ failed' = TRUE /\ pc' = "run"
      BY <2>3 DEF Error, RefusedWith
    <3>2. HostTypes'
      BY <1>1, <2>1, <3>1 DEF TInv, HostTypes, hostVars, Frame
    <3>3. Control'
      BY <1>1, <2>1, <3>1 DEF TInv, HostTypes, Control, hostVars, BeginSteps
    <3> QED
      BY <3>2, <3>3 DEF TInv
  <2> QED
    BY <1>3, <2>2, <2>3 DEF OpenSegment
<1>4. ASSUME NEW n \in SnapshotSizes, TakeSnapshot(n) PROVE TInv'
  <2>1. pc = "checkpoint" /\ UNCHANGED <<hostVars, input, tapeVars>>
    BY <1>4 DEF TakeSnapshot
  <2>2. CASE pc' = "room" /\ UNCHANGED flagVars
    BY <1>1, <2>1, <2>2 DEF TInv, HostTypes, Control, hostVars, tapeVars, flagVars, BeginSteps
  <2>3. CASE Error /\ pc' = "run"
    BY <1>1, <2>1, <2>3, Stops, StopTypes DEF TInv, HostTypes, tapeVars
  <2> QED
    BY <1>4, <2>2, <2>3 DEF TakeSnapshot
<1>5. CASE PutSnapshot
  <2>1. pc = "room" /\ UNCHANGED <<hostVars, input, tapeVars>>
    BY <1>5 DEF PutSnapshot, localVars
  <2>2. CASE pc' = "put" /\ UNCHANGED flagVars
    BY <1>1, <2>1, <2>2 DEF TInv, HostTypes, Control, hostVars, tapeVars, flagVars, BeginSteps
  <2>3. CASE RefusedWith(<<SnapshotCmd(Image)>>) /\ pc' = "run"
    <3>1. recording' = FALSE /\ pending' = FALSE /\ failed' \in BOOLEAN
      BY <2>3 DEF RefusedWith
    <3> QED
      BY <1>1, <2>1, <2>3, <3>1, StopTypes DEF TInv, HostTypes, tapeVars
  <2> QED
    BY <1>5, <2>2, <2>3 DEF PutSnapshot
<1>6. CASE PutInput
  <2>1. /\ pc = "put" /\ pc' = "run" /\ generation' = rtl_generation
        /\ recorded_load_sequence' = load_sequence
        /\ UNCHANGED <<hostVars, input, segment, oldest_segment, rows>>
    BY <1>6 DEF PutInput, localVars
  <2>2. CASE pending' = TRUE /\ next_frame' = Frame + 1 /\ UNCHANGED <<failed, recording>>
    BY <1>1, <2>1, <2>2 DEF TInv, HostTypes, Control, hostVars, Frame, BeginSteps
  <2>3. CASE RefusedWith(<<LineCmd(InputRow)>>) /\ UNCHANGED next_frame
    <3>1. ~recording' /\ pending' = FALSE /\ failed' = TRUE /\ next_frame' = next_frame
      BY <2>3 DEF RefusedWith
    <3>2. HostTypes'
      BY <1>1, <2>1, <3>1 DEF TInv, HostTypes, hostVars
    <3>3. Control'
      BY <1>1, <2>1, <3>1 DEF TInv, HostTypes, Control, hostVars, BeginSteps
    <3> QED
      BY <3>2, <3>3 DEF TInv
  <2> QED
    BY <1>6, <2>2, <2>3 DEF PutInput
<1> QED
  BY <1>2, <1>3, <1>4, <1>5, <1>6

\* The frame and its end.
LEMMA TypesFrame == ASSUME RInv, RunFrame \/ FrameEnd PROVE TInv'
<1>1. TInv
  BY DEF RInv, TInv
<1>2. CASE RunFrame
  <2>1. machine' \in Machines /\ snes_frame_counter' \in Nat
    BY <1>1, <1>2, StepAssumption DEF RunFrame, TInv, HostTypes, Frame
  <2> QED
    BY <1>1, <1>2, <2>1
    DEF RunFrame, tapeVars, flagVars, localVars, TInv, HostTypes, Control, BeginSteps
<1>3. CASE FrameEnd
  <2>1. /\ pc = "end" /\ pc' = "idle"
        /\ UNCHANGED <<hostVars, input, segment, oldest_segment, next_frame, generation,
                       recorded_load_sequence>>
    BY <1>3 DEF FrameEnd, localVars
  <2>2. /\ recording' = TRUE => recording = TRUE
        /\ recording' = recording \/ recording' = FALSE
        /\ pending' \in BOOLEAN /\ failed' \in BOOLEAN
    BY <1>1, <1>3 DEF FrameEnd, RecordEnd, RefusedWith, flagVars, TInv, HostTypes
  <2> QED
    BY <1>1, <2>1, <2>2 DEF TInv, HostTypes, Control, hostVars, BeginSteps
<1> QED
  BY <1>2, <1>3

\* The host.
LEMMA TypesHost == ASSUME RInv, HostStep PROVE TInv'
<1>1. TInv
  BY DEF RInv, TInv
<1>2. ASSUME NEW in \in Inputs, BeginFrame(in) PROVE TInv'
  BY <1>1, <1>2 DEF BeginFrame, tapeVars, flagVars, TInv, HostTypes, Control, BeginSteps
<1>3. ASSUME NEW on \in BOOLEAN, Enable(on) PROVE TInv'
  <2>1. /\ pc = "idle" /\ pc' = "idle" /\ enabled' = on /\ events' \in Nat
        /\ UNCHANGED <<machine, snes_frame_counter, input, view, rtl_generation,
                       load_sequence, generation, recorded_load_sequence, next_frame,
                       runahead, frames, segment, oldest_segment>>
    BY <1>1, <1>3 DEF Enable, HostEvent, quiet, localVars, TInv, HostTypes
  <2>2. CASE on /\ failed' = (failed /\ enabled) /\ UNCHANGED <<recording, pending>>
    <3>1. (failed /\ enabled) \in BOOLEAN
      OBVIOUS
    <3>2. failed' \in BOOLEAN
      BY <2>2, <3>1, Zenon
    <3> QED
      BY <1>1, <2>1, <2>2, <3>2 DEF TInv, HostTypes, Control, BeginSteps
  <2>3. CASE Close
    <3>1. ~recording' /\ pending' = FALSE /\ failed' \in BOOLEAN
      BY <1>1, <2>3, Stops DEF TInv, HostTypes
    <3> QED
      BY <1>1, <2>1, <3>1 DEF TInv, HostTypes, Control, BeginSteps
  <2> QED
    BY <1>3, <2>2, <2>3 DEF Enable
<1>4. ASSUME NEW saved \in SavedStates, NEW rollback \in BOOLEAN, Load(saved, rollback)
      PROVE  TInv'
  <2>1. machine' \in Machines /\ snes_frame_counter' \in Nat
    BY <1>4, MachineAssumption DEF Load
  <2> QED
    BY <1>1, <1>4, <2>1
    DEF Load, HostEvent, quiet, localVars, flagVars, TInv, HostTypes, Control, BeginSteps
<1>5. CASE Reset
  BY <1>1, <1>5, MachineAssumption
  DEF Reset, HostEvent, quiet, localVars, flagVars, TInv, HostTypes, Control, BeginSteps
<1>6. CASE ToggleRunahead
  <2>1. runahead' \in BOOLEAN
    BY <1>6 DEF ToggleRunahead
  <2> QED
    BY <1>1, <1>6, <2>1
    DEF ToggleRunahead, HostEvent, quiet, localVars, flagVars, TInv, HostTypes, Control,
        BeginSteps
<1>7. ASSUME NEW v \in Views, ChangeView(v) PROVE TInv'
  BY <1>1, <1>7
  DEF ChangeView, HostEvent, quiet, localVars, flagVars, TInv, HostTypes, Control, BeginSteps
<1>8. CASE Shutdown
  <2>1. ~recording' /\ pending' = FALSE /\ failed' \in BOOLEAN
    BY <1>1, <1>8, Stops DEF TInv, HostTypes, Shutdown
  <2> QED
    BY <1>1, <1>8, <2>1, StopTypes DEF Shutdown, localVars, TInv, HostTypes
<1> QED
  BY <1>2, <1>3, <1>4, <1>5, <1>6, <1>7, <1>8 DEF HostStep

\* The worker and the end of the process.
LEMMA TypesOther ==
  ASSUME RInv, Worker \/ Drained \/ Crash \/ Gone \/ UNCHANGED vars
  PROVE  TInv'
<1>1. TInv
  BY DEF RInv, TInv
<1>2. UNCHANGED <<hostVars, localVars, tapeVars, flagVars>> /\ pc' \in {pc, "gone"}
  BY DEF Worker, Drained, Crash, Gone, vars
<1> QED
  BY <1>1, <1>2 DEF hostVars, localVars, tapeVars, flagVars, TInv, HostTypes, Control, BeginSteps

-----------------------------------------------------------------------------
(***************************************************************************)
(* The invariant is inductive.                                               *)
(***************************************************************************)
\* A session starts with no files, no commands and nothing to owe.
LEMMA StartsPromised == RecorderInit => RInv
<1> SUFFICES ASSUME RecorderInit PROVE RInv
  OBVIOUS
<1>1. IInv /\ FInv
  BY Initially DEF RecorderInit, FInv, FailureStopsCapture
<1>2. HostTypes
  <2>1. /\ machine \in Machines /\ input \in Inputs /\ view \in Views
        /\ segment <= MaxSegment /\ pc = "idle"
    BY MachineAssumption, WriterAssumption DEF RecorderInit
  <2>2. /\ snes_frame_counter = 0 /\ rtl_generation = 0 /\ load_sequence = 0
        /\ generation = 0 /\ recorded_load_sequence = 0 /\ next_frame = 0
        /\ frames = 0 /\ events = 0 /\ oldest_segment = 1
    BY DEF RecorderInit
  <2>3. /\ runahead \in BOOLEAN /\ enabled \in BOOLEAN
        /\ failed \in BOOLEAN /\ pending \in BOOLEAN
    BY DEF RecorderInit
  <2> QED
    BY <2>1, <2>2, <2>3 DEF HostTypes
<1>3. Control
  BY DEF RecorderInit, Control, BeginSteps
<1>4. Queued
  <2>1. PICK s : s = Now
    OBVIOUS
  <2>2. /\ queue = <<>> /\ openSeg = 0 /\ disk = [t \in SegmentIds |-> NoFiles]
        /\ recording = FALSE
    BY DEF RecorderInit, WriterInit
  <2>3. s \in States
    <3>1. disk \in [SegmentIds -> FileSet]
      BY <2>2, EmptyTyped
    <3> QED
      BY <2>1, <2>2, <3>1, WriterAssumption DEF States, Now
  <2>4. Becomes(s)
    BY <2>1, <2>2, <2>3, NoCommands, WriterAssumption DEF Becomes
  <2>5. Agrees(s)
    <3>1. s.open = 0 /\ s.disk = disk
      BY <2>1, <2>2 DEF Now
    <3>2. \A t \in SegmentIds : s.disk[t] = NoFiles /\ ~s.disk[t].replay
      BY <2>2, <3>1 DEF NoFiles
    <3>3. Booked(s)
      <4>1. \A t \in SegmentIds : ImageBytes(s.disk[t].images) = 0
        BY <3>2, ImageBytesGrow DEF NoFiles
      <4>2. DiskBytes(s.disk) = 0
        BY <2>3, <4>1, NoBytes DEF States
      <4>3. history_bytes = 0 /\ \A t \in SegmentIds : 1 <= t /\ t <= Newest => FALSE
        BY RecorderAssumption DEF RecorderInit, Newest, TooManySegments, SegmentIds
      <4>4. oldest_segment = 1
        BY DEF RecorderInit
      <4> QED
        BY <4>2, <4>3, <4>4 DEF Booked
    <3> QED
      BY <2>2, <3>1, <3>2, <3>3 DEF Agrees
  <2> QED
    BY <2>4, <2>5 DEF Queued
<1> QED
  BY <1>1, <1>2, <1>3, <1>4 DEF RInv

\* Every step keeps what is promised.
LEMMA StepPromised == ASSUME RInv, [RecorderNext]_vars PROVE RInv'
<1>1. IInv' /\ FInv'
  BY Inductive, FlagsGame, FlagsOther DEF RInv, RecorderNext
<1>2. TInv'
  BY TypesBegin, TypesWrite, TypesFrame, TypesHost, TypesOther DEF RecorderNext, GameStep
<1>3. Queued'
  <2>1. CASE GameStep
    BY <2>1, QRecordBegin, QStart, QCreate, QRetire, QOpen, QTake, QPutSnapshot,
       QPutInput, QRunFrame, QFrameEnd DEF GameStep
  <2>2. CASE HostStep
    BY <2>2, QEvents, QClose DEF HostStep
  <2>3. CASE Worker
    BY <2>3, QWorker
  <2>4. CASE Drained \/ Crash \/ Gone \/ UNCHANGED vars
    BY <2>4, QEnd
  <2> QED
    BY <2>1, <2>2, <2>3, <2>4 DEF RecorderNext
<1> QED
  BY <1>1, <1>2, <1>3 DEF RInv, TInv

\* RInv holds in every state of every behaviour.
THEOREM RecorderPromise == RecorderSpec => []RInv
  BY StartsPromised, StepPromised, PTL DEF RecorderSpec

\* Every variable has its type, the queue never exceeds its capacity, and what
\* lies on the disk is rows and images.
THEOREM RecorderTypeOK == RecorderSpec => []TypeOK
<1>1. ASSUME RInv PROVE TypeOK
  <2>1. PICK st : Becomes(st)
    BY <1>1 DEF RInv, Queued
  <2>2. /\ queue \in Seq(CmdSet) /\ Len(queue) <= QueueCap
        /\ disk \in [SegmentIds -> FileSet] /\ openSeg \in 0..MaxSegment
    BY <2>1, PromiseTyped DEF Becomes, States, Now
  <2>3. segment \in 0..MaxSegment
    BY <1>1, WriterAssumption DEF RInv, IInv, Numbers, HostTypes
  <2> QED
    BY <1>1, <2>2, <2>3 DEF TypeOK, RInv, IInv, Numbers, HostTypes
<1> QED
  BY <1>1, RecorderPromise, PTL

-----------------------------------------------------------------------------
(***************************************************************************)
(* The refinement.                                                           *)
(***************************************************************************)
\* The game thread, the host and the end of the process touch no file.
LEMMA FilesKept ==
  ASSUME GameStep \/ HostStep \/ Drained \/ Crash \/ Gone \/ UNCHANGED vars
  PROVE  UNCHANGED <<disk, openSeg>>
<1>1. \A cmds : OfferAll(cmds) => UNCHANGED <<disk, openSeg>>
  BY DEF OfferAll
<1>2. Error \/ Close \/ Evict \/ (\E cmds : RefusedWith(cmds)) \/ UNCHANGED writerVars
        => UNCHANGED <<disk, openSeg>>
  BY <1>1 DEF Error, Close, EndSegment, Evict, RefusedWith, Offer, writerVars
<1>3. CASE GameStep
  <2>1. CASE RecordBegin \/ StartSegment \/ CreateSegment \/ CannotStart
             \/ RetireSegments \/ MakeRoom \/ RunFrame
    BY <1>2, <2>1 DEF RecordBegin, StartSegment, CreateSegment, CannotStart,
         RetireSegments, MakeRoom, RunFrame
  <2>2. CASE OpenSegment
    BY <1>1, <1>2, <2>2 DEF OpenSegment, Offer
  <2>3. CASE \E n \in SnapshotSizes : TakeSnapshot(n)
    BY <1>2, <2>3 DEF TakeSnapshot
  <2>4. CASE PutSnapshot
    BY <1>1, <1>2, <2>4 DEF PutSnapshot, Offer
  <2>5. CASE PutInput
    BY <1>1, <1>2, <2>5 DEF PutInput, Offer
  <2>6. CASE FrameEnd
    BY <1>1, <1>2, <2>6 DEF FrameEnd, RecordEnd, Offer
  <2> QED
    BY <1>3, <2>1, <2>2, <2>3, <2>4, <2>5, <2>6 DEF GameStep
<1>4. CASE HostStep
  BY <1>2, <1>4 DEF HostStep, BeginFrame, Enable, Load, Reset, ToggleRunahead, ChangeView,
       Shutdown
<1>5. CASE Drained \/ Crash \/ Gone \/ UNCHANGED vars
  BY <1>2, <1>5 DEF Drained, Crash, Gone, vars, writerVars
<1> QED
  BY <1>3, <1>4, <1>5

\* Archive speaks of the same rows and tapes.
LEMMA SameTapes ==
  /\ Archive!RowSet = RowSet /\ Archive!ImageSet = ImageSet
  /\ Archive!Absent = NoFiles
  /\ \A file, n : Archive!Chained(file, n) <=> Chained(file, n)
  BY DEF Archive!RowSet, RowSet, Archive!ImageSet, ImageSet, Archive!Absent, NoFiles,
     Archive!Chained, Chained, Archive!PlacedImage, PlacedImage, Archive!ChainedInput,
     ChainedInput, Archive!ChainedHash, ChainedHash, Archive!Described, Described

\* A row or an image that continues the tape extends it.
LEMMA RowsExtend ==
  ASSUME NEW file \in FileSet
  PROVE  /\ \A row \in RowSet :
              row.kind # "S" /\ Chained(Longer(file, row), Len(file.rows) + 1)
                => Archive!Extends(file, Longer(file, row))
         /\ \A image \in ImageSet :
              Chained(ApplySnapshot(file, image), Len(file.rows) + 1)
                => Archive!Extends(file, ApplySnapshot(file, image))
<1>1. ASSUME NEW row \in RowSet, row.kind # "S",
             Chained(Longer(file, row), Len(file.rows) + 1)
      PROVE  Archive!Extends(file, Longer(file, row))
  <2>1. PICK longer : longer = Longer(file, row)
    OBVIOUS
  <2>2. /\ longer.rows = Append(file.rows, row) /\ longer.images = file.images
        /\ longer = [file EXCEPT !.rows = longer.rows, !.images = longer.images]
    <3>1. longer.rows = Append(file.rows, row)
      BY <2>1 DEF Longer, FileSet
    <3>2. longer.images = file.images
      BY <2>1, LongerParts
    <3>3. longer = [file EXCEPT !.rows = Append(file.rows, row)]
      BY <2>1 DEF Longer
    <3>4. \E A, B, C, D : file \in [replay : A, sav : B, rows : C, images : D]
      BY DEF FileSet
    <3> QED
      BY <3>1, <3>2, <3>3, <3>4
  <2>3. Len(longer.rows) = Len(file.rows) + 1 /\ longer.rows[Len(file.rows) + 1] = row
    BY <2>1, LongerParts
  <2>4. Archive!Chained(longer, Len(file.rows) + 1) /\ row \in Archive!RowSet
    BY <1>1, <2>1, SameTapes
  <2> QED
    BY <1>1, <2>1, <2>2, <2>3, <2>4 DEF Archive!Extends
<1>2. ASSUME NEW image \in ImageSet,
             Chained(ApplySnapshot(file, image), Len(file.rows) + 1)
      PROVE  Archive!Extends(file, ApplySnapshot(file, image))
  <2> DEFINE k == Len(file.images) + 1
  <2>1. PICK longer : longer = ApplySnapshot(file, image)
    OBVIOUS
  <2>2. PICK row : row = [kind |-> "S", image |-> k]
    OBVIOUS
  <2>3. row.kind = "S" /\ row.image = k
    BY <2>2
  <2>4. /\ longer.rows = Append(file.rows, row)
        /\ longer.images = Append(file.images, image)
        /\ longer.images[k] = image /\ k \in Nat
        /\ Len(longer.rows) = Len(file.rows) + 1
        /\ longer.rows[Len(file.rows) + 1] = row
    BY <2>1, <2>2, ImageParts
  <2>5. longer = [file EXCEPT !.rows = longer.rows, !.images = longer.images]
    <3>1. longer = [file EXCEPT !.images = Append(file.images, image),
                                !.rows = Append(file.rows, row)]
      BY <2>1, <2>2 DEF ApplySnapshot
    <3>2. \E A, B, C, D : file \in [replay : A, sav : B, rows : C, images : D]
      BY DEF FileSet
    <3> QED
      BY <2>4, <3>1, <3>2
  <2>6. row \in RowSet
    BY <2>2, <2>4 DEF RowSet
  <2>7. /\ Archive!Chained(longer, Len(file.rows) + 1)
        /\ row \in Archive!RowSet /\ image \in Archive!ImageSet
    BY <1>2, <2>1, <2>6, SameTapes
  <2> HIDE DEF k
  <2>8. Archive!Extends(file, longer)
    BY <2>3, <2>4, <2>5, <2>7 DEF Archive!Extends, k
  <2> QED
    BY <2>1, <2>8
<1> QED
  BY <1>1, <1>2

\* A legal command is a step of the archive.
LEMMA WorkerWrites ==
  ASSUME RInv, Worker
  PROVE  Archive!ArchiveNext
<1>1. PICK st : Becomes(st)
  BY DEF RInv, Queued
<1>2. disk \in [SegmentIds -> FileSet] /\ openSeg \in 0..MaxSegment
  BY <1>1, PromiseTyped DEF States, Now
<1>3. CASE WorkerStep
  <2>1. PICK cmd : cmd = Head(queue)
    OBVIOUS
  <2>2. /\ cmd \in CmdSet /\ Legal(Now, cmd)
        /\ disk' = Applied(disk, openSeg, cmd) /\ openSeg' = OpenThen(openSeg, cmd)
    BY <1>1, <1>3, <2>1, Taken DEF WorkerStep
  <2>3. CASE cmd.op = "begin"
    <3>1. /\ cmd.seg \in SegmentIds /\ openSeg = 0
          /\ \A t \in SegmentIds : t >= cmd.seg => disk[t] = NoFiles
      BY <2>2, <2>3, CmdParts DEF Legal, Now
    <3>2. openSeg' = cmd.seg /\ disk' = [disk EXCEPT ![cmd.seg] = Archive!Blank]
      BY <2>2, <2>3 DEF Applied, OpenThen, Archive!Blank
    <3>3. Archive!Create(cmd.seg)
      BY <3>1, <3>2, SameTapes DEF Archive!Create
    <3> QED
      BY <3>1, <3>3 DEF Archive!ArchiveNext
  <2>4. CASE cmd.op = "end"
    BY <2>2, <2>4 DEF Applied, OpenThen, Archive!ArchiveNext, Archive!Finished
  <2>5. CASE cmd.op \in SegmentCmds
    <3>1. /\ openSeg # 0 /\ openSeg \in SegmentIds
          /\ disk[openSeg] \in FileSet /\ disk[openSeg].replay
      BY <1>2, <2>2, <2>5, WriterAssumption DEF Legal, Now, Written, SegmentIds
    <3>2. openSeg' = openSeg
      BY <2>2, <2>5 DEF OpenThen, SegmentCmds
    <3>3. PICK longer : /\ disk' = [disk EXCEPT ![openSeg] = longer]
                        /\ Archive!Extends(disk[openSeg], longer)
      <4>1. CASE cmd.op = "snapshot"
        <5>1. disk' = [disk EXCEPT ![openSeg] = ApplySnapshot(disk[openSeg], cmd.image)]
          BY <2>2, <4>1 DEF Applied
        <5>2. /\ cmd.image \in ImageSet
              /\ Chained(ApplySnapshot(disk[openSeg], cmd.image), Len(disk[openSeg].rows) + 1)
          BY <2>2, <4>1, CmdParts DEF Legal, Now, Written
        <5> QED
          BY <3>1, <5>1, <5>2, RowsExtend
      <4>2. CASE cmd.op \in {"line", "frame"}
        <5>1. disk' = [disk EXCEPT ![openSeg] = Longer(disk[openSeg], cmd.row)]
          BY <2>2, <4>2 DEF Applied, Longer
        <5>2. /\ cmd.row \in RowSet /\ cmd.row.kind # "S"
              /\ Chained(Longer(disk[openSeg], cmd.row), Len(disk[openSeg].rows) + 1)
          BY <2>2, <4>2, CmdParts DEF Legal, Now, Written
        <5> QED
          BY <3>1, <5>1, <5>2, RowsExtend
      <4> QED
        BY <2>5, <4>1, <4>2 DEF SegmentCmds
    <3>4. disk'[openSeg] = longer
      BY <1>2, <3>1, <3>3
    <3>5. Archive!Write
      BY <3>1, <3>2, <3>3, <3>4 DEF Archive!Write
    <3> QED
      BY <3>5 DEF Archive!ArchiveNext
  <2>6. CASE cmd.op = "remove_replay"
    <3>1. /\ cmd.seg \in SegmentIds /\ cmd.seg # openSeg
          /\ \A t \in SegmentIds : t < cmd.seg => ~disk[t].replay
      BY <2>2, <2>6, CmdParts DEF Legal, Now
    <3>2. openSeg' = openSeg
          /\ disk' = [disk EXCEPT ![cmd.seg].replay = FALSE, ![cmd.seg].rows = <<>>]
      BY <2>2, <2>6 DEF Applied, OpenThen
    <3>3. Archive!DropReplay(cmd.seg)
      BY <3>1, <3>2 DEF Archive!DropReplay
    <3> QED
      BY <3>1, <3>3 DEF Archive!ArchiveNext
  <2>7. CASE cmd.op = "remove_sav"
    <3>1. cmd.seg \in SegmentIds /\ cmd.seg # openSeg /\ ~disk[cmd.seg].replay
      BY <2>2, <2>7, CmdParts DEF Legal, Now
    <3>2. openSeg' = openSeg
          /\ disk' = [disk EXCEPT ![cmd.seg].sav = FALSE, ![cmd.seg].images = <<>>]
      BY <2>2, <2>7 DEF Applied, OpenThen
    <3>3. Archive!DropSav(cmd.seg)
      BY <3>1, <3>2 DEF Archive!DropSav
    <3> QED
      BY <3>1, <3>3 DEF Archive!ArchiveNext
  <2> QED
    BY <2>2, <2>3, <2>4, <2>5, <2>6, <2>7, CmdParts DEF SegmentCmds
<1>4. CASE WorkerFail
  BY <1>4 DEF WorkerFail, Archive!ArchiveNext, Archive!Finished
<1> QED
  BY <1>3, <1>4 DEF Worker

\* Init maps to Init, and every step to a step of the archive or to none.
LEMMA ArchiveMapped ==
  /\ RecorderInit => Archive!ArchiveInit
  /\ RInv /\ [RecorderNext]_vars => [Archive!ArchiveNext]_(Archive!archive)
<1>1. RecorderInit => Archive!ArchiveInit
  BY SameTapes DEF RecorderInit, WriterInit, Archive!ArchiveInit
<1>2. ASSUME RInv, [RecorderNext]_vars
      PROVE  [Archive!ArchiveNext]_(Archive!archive)
  <2>1. CASE Worker
    BY <1>2, <2>1, WorkerWrites
  <2>2. CASE ~Worker
    BY <1>2, <2>2, FilesKept DEF RecorderNext, Archive!archive
  <2> QED
    BY <2>1, <2>2
<1> QED
  BY <1>1, <1>2

\* The recorder, its queue and its worker implement the archive: every file
\* operation of the worker, in every interleaving with the game thread, with
\* failed writers and with a dying process, is one that Archive allows.
THEOREM RecorderImplementsArchive == RecorderSpec => ArchiveSpec
  BY ArchiveMapped, RecorderPromise, PTL DEF RecorderSpec, ArchiveSpec, Archive!ArchiveSpec

-----------------------------------------------------------------------------
(***************************************************************************)
(* An archive that is written as Archive says holds only tapes that replay,  *)
(* at every moment and for every machine.                                    *)
(***************************************************************************)
\* Every S row names an image that is there.
ImagesThere(file) ==
  \A i \in 1..Len(file.rows) :
    file.rows[i].kind = "S" => file.rows[i].image \in 1..Len(file.images)

Sound(file) == file.replay => file.sav /\ ImagesThere(file) /\ Faithful(file)

\* Beside TapesFaithful: the types, and that the images which S rows name are
\* there.
AInv ==
  /\ disk \in [SegmentIds -> FileSet]
  /\ openSeg \in SegmentIds \cup {0}
  /\ \A s \in SegmentIds : Sound(disk[s])

\* A tape that is not there promises nothing.
LEMMA AbsentSound == Archive!Absent \in FileSet /\ Sound(Archive!Absent)
  BY DEF Archive!Absent, FileSet, Sound

\* A tape without rows replays.
LEMMA BlankSound == Archive!Blank \in FileSet /\ Sound(Archive!Blank)
  BY DEF Archive!Blank, FileSet, Sound, ImagesThere, Faithful

\* Appending keeps a sequence and every element before the new one.
LEMMA Appended ==
  ASSUME NEW T, NEW s \in Seq(T), NEW e \in T
  PROVE  /\ Append(s, e) \in Seq(T)
         /\ Len(s) \in Nat /\ Len(Append(s, e)) = Len(s) + 1
         /\ \A i \in 1..Len(s) : Append(s, e)[i] = s[i]
         /\ Append(s, e)[Len(s) + 1] = e
  OBVIOUS

\* What extending a tape appends, and where.
LEMMA ExtendsRows ==
  ASSUME NEW file \in FileSet, NEW longer, Archive!Extends(file, longer)
  PROVE  /\ file.rows \in Seq(RowSet) /\ Len(file.rows) \in Nat
         /\ longer.rows \in Seq(RowSet) /\ Len(longer.rows) = Len(file.rows) + 1
         /\ \A i \in 1..Len(file.rows) : longer.rows[i] = file.rows[i]
         /\ Chained(longer, Len(file.rows) + 1)
<1> DEFINE n   == Len(file.rows) + 1
           row == longer.rows[n]
<1>1. file.rows \in Seq(RowSet)
  BY DEF FileSet
<1>2. row \in RowSet /\ longer.rows = Append(file.rows, row) /\ Chained(longer, n)
  BY SameTapes DEF Archive!Extends
<1> HIDE DEF row
<1> QED
  BY <1>1, <1>2, Appended

\* What a tape that grows by a row does with its images.
LEMMA ExtendsImages ==
  ASSUME NEW file \in FileSet, NEW longer, Archive!Extends(file, longer)
  PROVE  /\ file.images \in Seq(ImageSet) /\ Len(file.images) \in Nat
         /\ longer.images \in Seq(ImageSet) /\ Len(longer.images) \in Nat
         /\ Len(longer.images) >= Len(file.images)
         /\ \A k \in 1..Len(file.images) : longer.images[k] = file.images[k]
         /\ LET row == longer.rows[Len(file.rows) + 1]
            IN  row.kind = "S" => row.image \in 1..Len(longer.images)
<1> DEFINE row == longer.rows[Len(file.rows) + 1]
           img == longer.images[row.image]
<1>1. file.images \in Seq(ImageSet)
  BY DEF FileSet
<1>2. CASE row.kind = "S"
  <2>1. /\ row.image = Len(file.images) + 1
        /\ longer.images = Append(file.images, img)
        /\ img \in ImageSet
    BY <1>2, SameTapes DEF Archive!Extends
  <2> HIDE DEF img, row
  <2>2. /\ longer.images \in Seq(ImageSet)
        /\ Len(longer.images) = Len(file.images) + 1 /\ Len(file.images) \in Nat
        /\ \A k \in 1..Len(file.images) : longer.images[k] = file.images[k]
    BY <1>1, <2>1, Appended
  <2>3. row.image \in 1..Len(longer.images)
    BY <2>1, <2>2
  <2> QED
    BY <1>1, <2>2, <2>3 DEF row
<1>3. CASE row.kind # "S"
  <2>1. longer.images = file.images
    BY <1>3 DEF Archive!Extends
  <2> QED
    BY <1>1, <1>3, <2>1
<1> QED
  BY <1>2, <1>3

\* What is appended has its type.
LEMMA ExtendsTyped ==
  ASSUME NEW file \in FileSet, NEW longer, Archive!Extends(file, longer)
  PROVE  longer \in FileSet
<1>1. /\ file.rows \in Seq(RowSet) /\ file.images \in Seq(ImageSet)
      /\ file.replay \in BOOLEAN /\ file.sav \in BOOLEAN
  BY DEF FileSet
<1>2. longer = [file EXCEPT !.rows = longer.rows, !.images = longer.images]
  BY DEF Archive!Extends
<1>3. longer.rows \in Seq(RowSet) /\ longer.images \in Seq(ImageSet)
  BY ExtendsRows, ExtendsImages
<1> QED
  BY <1>1, <1>2, <1>3 DEF FileSet

\* A tape that is no longer there may have lost anything else.
LEMMA Dropped ==
  ASSUME NEW t \in FileSet
  PROVE  LET gone == [t EXCEPT !.replay = FALSE, !.rows = <<>>]
             bare == [t EXCEPT !.sav = FALSE, !.images = <<>>]
         IN  /\ gone \in FileSet /\ ~gone.replay
             /\ bare \in FileSet /\ bare.replay = t.replay
<1>1. <<>> \in Seq(RowSet) /\ <<>> \in Seq(ImageSet)
  OBVIOUS
<1> DEFINE SR == Seq(RowSet)
           SI == Seq(ImageSet)
<1>2. t \in [replay : BOOLEAN, sav : BOOLEAN, rows : SR, images : SI]
  BY DEF FileSet
<1>3. <<>> \in SR /\ <<>> \in SI
  BY <1>1
<1> HIDE DEF SR, SI
<1> QED
  BY <1>2, <1>3 DEF FileSet, SR, SI

\* A tape that is extended by a chained row stays sound: the rows before it
\* still describe what they described.
LEMMA ExtendsSound ==
  ASSUME NEW file \in FileSet, NEW longer \in FileSet,
         file.replay, Sound(file), Archive!Extends(file, longer)
  PROVE  Sound(longer)
<1> DEFINE n   == Len(file.rows) + 1
           row == longer.rows[n]
<1>1. /\ file.rows \in Seq(RowSet) /\ longer.rows \in Seq(RowSet)
      /\ Len(file.rows) \in Nat
  BY ExtendsRows
<1>2. /\ Len(longer.rows) = n
      /\ n = Len(file.rows) + 1
      /\ Chained(longer, n)
      /\ longer.replay = file.replay /\ longer.sav = file.sav
  <2>1. /\ longer.replay = file.replay /\ longer.sav = file.sav
    BY DEF Archive!Extends, FileSet
  <2> QED
    BY <2>1, ExtendsRows
<1>3. \A i \in 1..Len(file.rows) : longer.rows[i] = file.rows[i]
  BY ExtendsRows
<1>4. /\ Len(file.images) \in Nat /\ Len(longer.images) \in Nat
      /\ Len(longer.images) >= Len(file.images)
      /\ \A k \in 1..Len(file.images) : longer.images[k] = file.images[k]
      /\ row.kind = "S" => row.image \in 1..Len(longer.images)
  BY ExtendsImages
<1>5. ImagesThere(longer)
  <2> SUFFICES ASSUME NEW i \in 1..Len(longer.rows), longer.rows[i].kind = "S"
               PROVE  longer.rows[i].image \in 1..Len(longer.images)
    BY DEF ImagesThere
  <2>1. CASE i = n
    BY <1>4, <2>1
  <2>2. CASE i # n
    <3>1. i \in 1..Len(file.rows)
      BY <1>1, <1>2, <2>2
    <3>2. file.rows[i].image \in 1..Len(file.images)
      BY <1>3, <3>1 DEF Sound, ImagesThere
    <3> QED
      BY <1>3, <1>4, <3>1, <3>2
  <2> QED
    BY <2>1, <2>2
<1>6. ASSUME NEW i \in 1..Len(file.rows)
      PROVE  Described(longer, longer.rows[i]) = Described(file, file.rows[i])
  <2>1. longer.rows[i] = file.rows[i]
    BY <1>3
  <2>2. file.rows[i].kind = "S" =>
          longer.images[file.rows[i].image] = file.images[file.rows[i].image]
    BY <1>4 DEF Sound, ImagesThere
  <2> QED
    BY <2>1, <2>2 DEF Described
<1>7. Faithful(longer)
  <2> SUFFICES ASSUME NEW i \in 1..Len(longer.rows) PROVE Chained(longer, i)
    BY DEF Faithful
  <2>1. CASE i = n
    BY <1>2, <2>1
  <2>2. CASE i # n
    <3>1. i \in 1..Len(file.rows) /\ Len(file.rows) \in Nat
      BY <1>1, <1>2, <2>2
    <3>2. Chained(file, i)
      BY <3>1 DEF Sound, Faithful
    <3>3. /\ longer.rows[i] = file.rows[i]
          /\ i > 1 => /\ longer.rows[i-1] = file.rows[i-1]
                      /\ Described(longer, longer.rows[i-1]) =
                         Described(file, file.rows[i-1])
          /\ i > 2 => Described(longer, longer.rows[i-2]) =
                      Described(file, file.rows[i-2])
      <4>1. i > 1 => i-1 \in 1..Len(file.rows)
        BY <3>1
      <4>2. i > 2 => i-2 \in 1..Len(file.rows)
        BY <3>1
      <4> QED
        BY <1>3, <1>6, <3>1, <4>1, <4>2
    <3>4. CASE file.rows[i].kind = "S"
      <4>1. PlacedImage(file, i)
        BY <3>2, <3>4 DEF Chained
      <4>2. PlacedImage(longer, i)
        BY <3>1, <3>3, <4>1 DEF PlacedImage
      <4> QED
        BY <3>3, <3>4, <4>2 DEF Chained
    <3>5. CASE file.rows[i].kind = "I"
      <4>1. ChainedInput(file, i)
        BY <3>2, <3>5 DEF Chained
      <4>2. ChainedInput(longer, i)
        BY <3>1, <3>3, <4>1 DEF ChainedInput
      <4> QED
        BY <3>3, <3>5, <4>2 DEF Chained
    <3>6. CASE file.rows[i].kind = "H"
      <4>1. ChainedHash(file, i)
        BY <3>2, <3>6 DEF Chained
      <4>2. i > 2 /\ i > 1
        BY <3>1, <4>1 DEF ChainedHash
      <4>3. ChainedHash(longer, i)
        BY <3>1, <3>3, <4>1, <4>2 DEF ChainedHash
      <4> QED
        BY <3>3, <3>6, <4>3 DEF Chained
    <3> QED
      BY <3>2, <3>4, <3>5, <3>6 DEF Chained
  <2> QED
    BY <2>1, <2>2
<1> QED
  BY <1>2, <1>5, <1>7 DEF Sound

\* An archive starts sound.
LEMMA ArchiveInitially == Archive!ArchiveInit => AInv
  BY AbsentSound DEF Archive!ArchiveInit, AInv

\* Changing one tape into another that is sound keeps the invariant.
LEMMA OneTape ==
  ASSUME AInv, NEW s \in SegmentIds, NEW file \in FileSet, Sound(file),
         disk' = [disk EXCEPT ![s] = file], openSeg' \in SegmentIds \cup {0}
  PROVE  AInv'
<1>1. disk' \in [SegmentIds -> FileSet]
  BY DEF AInv
<1>2. \A t \in SegmentIds : disk'[t] = IF t = s THEN file ELSE disk[t]
  BY DEF AInv
<1>3. \A t \in SegmentIds : Sound(disk'[t])
  BY <1>2 DEF AInv
<1> QED
  BY <1>1, <1>3 DEF AInv

\* Every step of the archive keeps its tapes sound.
LEMMA ArchiveStep == AInv /\ [Archive!ArchiveNext]_(Archive!archive) => AInv'
<1> SUFFICES ASSUME AInv, [Archive!ArchiveNext]_(Archive!archive) PROVE AInv'
  OBVIOUS
<1>1. ASSUME NEW s \in SegmentIds, Archive!Create(s) PROVE AInv'
  <2>1. disk' = [disk EXCEPT ![s] = Archive!Blank] /\ openSeg' = s
    BY <1>1 DEF Archive!Create
  <2> QED
    BY <2>1, BlankSound, OneTape
<1>2. ASSUME NEW s \in SegmentIds, Archive!DropReplay(s) PROVE AInv'
  <2> DEFINE file == [disk[s] EXCEPT !.replay = FALSE, !.rows = <<>>]
  <2>1. disk' = [disk EXCEPT ![s] = file] /\ openSeg' = openSeg
    BY <1>2 DEF Archive!DropReplay
  <2>2. disk[s] \in FileSet /\ openSeg \in SegmentIds \cup {0}
    BY DEF AInv
  <2>3. file \in FileSet /\ ~file.replay
    BY <2>2, Dropped
  <2>4. Sound(file)
    BY <2>3 DEF Sound
  <2> HIDE DEF file
  <2> QED
    BY <2>1, <2>2, <2>3, <2>4, OneTape
<1>3. ASSUME NEW s \in SegmentIds, Archive!DropSav(s) PROVE AInv'
  <2> DEFINE file == [disk[s] EXCEPT !.sav = FALSE, !.images = <<>>]
  <2>1. /\ disk' = [disk EXCEPT ![s] = file] /\ openSeg' = openSeg
        /\ ~disk[s].replay
    BY <1>3 DEF Archive!DropSav
  <2>2. disk[s] \in FileSet /\ openSeg \in SegmentIds \cup {0}
    BY DEF AInv
  <2>3. file \in FileSet /\ ~file.replay
    BY <2>1, <2>2, Dropped
  <2>4. Sound(file)
    BY <2>3 DEF Sound
  <2> HIDE DEF file
  <2> QED
    BY <2>1, <2>2, <2>3, <2>4, OneTape
<1>4. ASSUME Archive!Write PROVE AInv'
  <2> DEFINE longer == disk'[openSeg]
  <2>1. /\ openSeg \in SegmentIds /\ disk[openSeg].replay
        /\ Archive!Extends(disk[openSeg], longer)
        /\ disk' = [disk EXCEPT ![openSeg] = longer] /\ openSeg' = openSeg
    BY <1>4 DEF Archive!Write, AInv
  <2>2. disk[openSeg] \in FileSet /\ Sound(disk[openSeg])
    BY <2>1 DEF AInv
  <2> HIDE DEF longer
  <2>3. longer \in FileSet
    BY <2>1, <2>2, ExtendsTyped
  <2>4. Sound(longer)
    BY <2>1, <2>2, <2>3, ExtendsSound
  <2> QED
    BY <2>1, <2>3, <2>4, OneTape
<1>5. ASSUME Archive!Finished PROVE AInv'
  BY <1>5 DEF Archive!Finished, AInv
<1>6. ASSUME UNCHANGED Archive!archive PROVE AInv'
  BY <1>6 DEF Archive!archive, AInv
<1> QED
  BY <1>1, <1>2, <1>3, <1>4, <1>5, <1>6 DEF Archive!ArchiveNext

\* Whatever the writer has written, dropped or left unfinished, a tape that is
\* in the logs folder has its images and replays.
THEOREM ArchiveFaithful == ArchiveSpec => []Archive!TapesFaithful
<1>1. AInv => Archive!TapesFaithful
  BY SameTapes DEF AInv, Sound, Archive!TapesFaithful, Faithful, Archive!Faithful
<1> QED
  BY <1>1, ArchiveInitially, ArchiveStep, PTL DEF ArchiveSpec, Archive!ArchiveSpec

\* So every tape on the player's disk replays, at every moment of every session
\* and after it: its images are there, and its rows follow from each other.
THEOREM RecorderTapesFaithful == RecorderSpec => []Archive!TapesFaithful
  BY RecorderImplementsArchive, ArchiveFaithful, PTL

-----------------------------------------------------------------------------
(***************************************************************************)
(* The budget on disk.                                                       *)
(***************************************************************************)
\* The images fit the budget, the tapes fit the ring, and until the writer
\* fails only the tape that the worker writes may end inside a frame.
OnDisk ==
  /\ DiskBytes(disk) <= HISTORY_LIMIT
  /\ Cardinality(Taped(disk)) <= SEGMENTS
  /\ ~writerError => \A s \in SegmentIds : s # openSeg => AtFrame(disk[s])

\* The writer's error is never cleared.
LEMMA ErrorLatched ==
  ASSUME [RecorderNext]_vars, writerError
  PROVE  writerError'
<1>1. \A cmds : OfferAll(cmds) => writerError'
  BY DEF OfferAll
<1>2. Error \/ Close \/ Evict \/ (\E cmds : RefusedWith(cmds)) \/ UNCHANGED writerVars
        => writerError'
  BY <1>1 DEF Error, Close, EndSegment, Evict, RefusedWith, Offer, writerVars
<1>3. CASE GameStep
  <2>1. CASE RecordBegin \/ StartSegment \/ CreateSegment \/ CannotStart
             \/ RetireSegments \/ MakeRoom \/ RunFrame
    BY <1>2, <2>1 DEF RecordBegin, StartSegment, CreateSegment, CannotStart,
         RetireSegments, MakeRoom, RunFrame
  <2>2. CASE OpenSegment
    BY <1>1, <1>2, <2>2 DEF OpenSegment, Offer
  <2>3. CASE \E n \in SnapshotSizes : TakeSnapshot(n)
    BY <1>2, <2>3 DEF TakeSnapshot
  <2>4. CASE PutSnapshot
    BY <1>1, <1>2, <2>4 DEF PutSnapshot, Offer
  <2>5. CASE PutInput
    BY <1>1, <1>2, <2>5 DEF PutInput, Offer
  <2>6. CASE FrameEnd
    BY <1>1, <1>2, <2>6 DEF FrameEnd, RecordEnd, Offer
  <2> QED
    BY <1>3, <2>1, <2>2, <2>3, <2>4, <2>5, <2>6 DEF GameStep
<1>4. CASE HostStep
  BY <1>2, <1>4 DEF HostStep, BeginFrame, Enable, Load, Reset, ToggleRunahead, ChangeView,
       Shutdown
<1>5. CASE Worker \/ Drained \/ Crash \/ Gone \/ UNCHANGED vars
  BY <1>2, <1>5 DEF Worker, WorkerStep, WorkerFail, Drained, Crash, Gone, vars, writerVars
<1> QED
  BY <1>3, <1>4, <1>5 DEF RecorderNext

\* Taking a command keeps the files within the budget: that is what the game
\* thread has made room for before it queued the command.
LEMMA WorkerOnDisk ==
  ASSUME RInv, OnDisk, WorkerStep
  PROVE  OnDisk'
<1>1. PICK st : Becomes(st)
  BY DEF RInv, Queued
<1>2. PICK cmd : cmd = Head(queue)
  OBVIOUS
<1>3. cmd \in CmdSet /\ Legal(Now, cmd) /\ Now \in States
  BY <1>1, <1>2, Taken, PromiseTyped
<1>4. PICK files : files = Did(Now, cmd).disk
  OBVIOUS
<1>5. disk' = files /\ openSeg' = OpenThen(openSeg, cmd) /\ writerError' = writerError
  BY <1>2, <1>4 DEF WorkerStep, Did, Now
<1>6. disk \in [SegmentIds -> FileSet] /\ files \in [SegmentIds -> FileSet]
  BY <1>3, <1>4, DidTyped DEF States, Now
<1>7. PICK s : s = Touched(Now, cmd)
  OBVIOUS
<1>8. /\ s \in SegmentIds /\ files[s] = Rewritten(disk[s], cmd) /\ disk[s] \in FileSet
      /\ \A t \in SegmentIds : t # s => files[t] = disk[t]
  BY <1>3, <1>4, <1>6, <1>7, OneTouched DEF Now
<1>9. DiskBytes(files) <= HISTORY_LIMIT
  <2>1. PICK old, new : old = DiskBytes(disk) /\ new = DiskBytes(files)
    OBVIOUS
  <2>2. /\ old \in Nat /\ new \in Nat /\ old <= HISTORY_LIMIT
        /\ cmd.op = "snapshot" => new = old + cmd.image.size
        /\ cmd.op = "remove_sav" => new = old - ImageBytes(disk[cmd.seg].images)
        /\ cmd.op \notin {"snapshot", "remove_sav"} => new = old
    BY <1>3, <1>4, <2>1, BytesDid DEF Now, OnDisk
  <2>3. CASE cmd.op = "snapshot"
    <3>1. old + cmd.image.size <= HISTORY_LIMIT
      BY <1>3, <2>1, <2>3 DEF Legal, Now
    <3> QED
      BY <2>1, <2>2, <2>3, <3>1
  <2>4. CASE cmd.op = "remove_sav"
    <3>1. cmd.seg \in SegmentIds
      BY <1>3, <2>4, CmdParts
    <3>2. ImageBytes(disk[cmd.seg].images) \in Nat
      BY <1>6, <3>1, ImageBytesGrow DEF FileSet
    <3> QED
      BY <2>1, <2>2, <2>4, <3>2, RecorderAssumption
  <2> QED
    BY <2>1, <2>2, <2>3, <2>4
<1>10. Cardinality(Taped(files)) <= SEGMENTS
  <2>1. PICK T, U : T = Taped(disk) /\ U = Taped(files)
    OBVIOUS
  <2>2. IsFiniteSet(SegmentIds) /\ T \subseteq SegmentIds /\ U \subseteq SegmentIds
    BY <2>1, WriterAssumption, FS_Interval DEF SegmentIds, Taped
  <2>3. /\ IsFiniteSet(T) /\ Cardinality(T) \in Nat /\ Cardinality(T) <= SEGMENTS
        /\ SEGMENTS \in Nat
    BY <2>1, <2>2, FS_Subset, FS_CardinalityType, RecorderAssumption DEF OnDisk
  <2>4. CASE cmd.op = "begin"
    <3>1. Cardinality(T) < SEGMENTS
      BY <1>3, <2>1, <2>4 DEF Legal, Now
    <3>2. U \subseteq T \cup {s}
      BY <1>8, <2>1 DEF Taped
    <3>3. /\ IsFiniteSet(T \cup {s})
          /\ Cardinality(T \cup {s}) = IF s \in T THEN Cardinality(T) ELSE Cardinality(T) + 1
      BY <2>3, FS_AddElement
    <3>4. Cardinality(U) <= Cardinality(T \cup {s}) /\ Cardinality(U) \in Nat
      BY <3>2, <3>3, FS_Subset, FS_CardinalityType
    <3> QED
      BY <2>1, <2>3, <3>1, <3>3, <3>4
  <2>5. CASE cmd.op # "begin"
    <3>1. files[s].replay => disk[s].replay
      BY <1>3, <1>8, <2>5, RewrittenParts, CmdParts
    <3>2. U \subseteq T
      BY <1>8, <2>1, <3>1 DEF Taped
    <3>3. Cardinality(U) <= Cardinality(T) /\ Cardinality(U) \in Nat
      BY <2>3, <3>2, FS_Subset, FS_CardinalityType
    <3> QED
      BY <2>1, <2>3, <3>3
  <2> QED
    BY <2>4, <2>5
<1>11. ASSUME ~writerError, NEW t \in SegmentIds, t # OpenThen(openSeg, cmd)
       PROVE  AtFrame(files[t])
  <2>1. t # openSeg => AtFrame(disk[t])
    BY <1>11 DEF OnDisk
  <2>2. CASE cmd.op = "begin"
    <3>1. t # s /\ openSeg = 0
      BY <1>3, <1>7, <1>11, <2>2 DEF Touched, SegmentCmds, OpenThen, Legal, Now
    <3> QED
      BY <1>8, <2>1, <3>1 DEF SegmentIds
  <2>3. CASE cmd.op = "end"
    <3>1. files[t] = disk[t] /\ s = openSeg
      BY <1>3, <1>7, <1>8, <2>3, RewrittenParts DEF Touched, SegmentCmds, Now
    <3>2. AtFrame(disk[s])
      BY <1>3, <2>3, <3>1 DEF Legal, Written, Now
    <3> QED
      BY <2>1, <3>1, <3>2
  <2>4. CASE cmd.op \in SegmentCmds
    <3>1. s = openSeg /\ t # openSeg
      BY <1>7, <1>11, <2>4 DEF Touched, SegmentCmds, OpenThen, Now
    <3> QED
      BY <1>8, <2>1, <3>1
  <2>5. CASE cmd.op \in {"remove_replay", "remove_sav"}
    <3>1. t # openSeg /\ s = cmd.seg
      BY <1>7, <1>11, <2>5 DEF Touched, SegmentCmds, OpenThen
    <3>2. files[t].rows = disk[t].rows \/ files[t].rows = <<>>
      BY <1>3, <1>8, <2>5, RewrittenParts
    <3> QED
      BY <2>1, <3>1, <3>2 DEF AtFrame, LastRow
  <2> QED
    BY <1>3, <2>2, <2>3, <2>4, <2>5, CmdParts DEF SegmentCmds
<1> QED
  BY <1>5, <1>9, <1>10, <1>11 DEF OnDisk

\* OnDisk is an invariant, too.
LEMMA OnDiskSteps ==
  /\ RecorderInit => OnDisk
  /\ RInv /\ OnDisk /\ [RecorderNext]_vars => OnDisk'
<1>1. ASSUME RecorderInit PROVE OnDisk
  <2>1. disk = [t \in SegmentIds |-> NoFiles] /\ disk \in [SegmentIds -> FileSet]
    BY <1>1, EmptyTyped DEF RecorderInit, WriterInit
  <2>2. \A t \in SegmentIds : ImageBytes(disk[t].images) = 0
    BY <2>1, ImageBytesGrow DEF NoFiles
  <2>3. DiskBytes(disk) = 0
    BY <2>1, <2>2, NoBytes
  <2>4. Taped(disk) = {}
    BY <2>1 DEF Taped, NoFiles
  <2>5. Cardinality(Taped(disk)) = 0
    BY <2>4, FS_EmptySet
  <2>6. \A t \in SegmentIds : AtFrame(disk[t])
    BY <2>1 DEF AtFrame, NoFiles
  <2> QED
    BY <2>3, <2>5, <2>6, RecorderAssumption DEF OnDisk
<1>2. ASSUME RInv, OnDisk, [RecorderNext]_vars PROVE OnDisk'
  <2>1. CASE Worker
    <3>1. CASE WorkerStep
      BY <1>2, <3>1, WorkerOnDisk
    <3>2. CASE WorkerFail
      BY <1>2, <3>2 DEF WorkerFail, OnDisk
    <3> QED
      BY <2>1, <3>1, <3>2 DEF Worker
  <2>2. CASE ~Worker
    <3>1. UNCHANGED <<disk, openSeg>>
      BY <1>2, <2>2, FilesKept DEF RecorderNext
    <3>2. writerError => writerError'
      BY <1>2, ErrorLatched
    <3> QED
      BY <1>2, <3>1, <3>2 DEF OnDisk
  <2> QED
    BY <2>1, <2>2
<1> QED
  BY <1>1, <1>2

\* OnDisk holds in every state of every behaviour.
LEMMA RecorderOnDisk == RecorderSpec => []OnDisk
  BY OnDiskSteps, RecorderPromise, PTL DEF RecorderSpec

\* The promise to the player's disk holds in every state of the worker, between
\* any two of its file operations, and after the process has died: no more
\* images than the budget, no more tapes than SEGMENTS.
THEOREM RecorderDiskWithinLimit == RecorderSpec => []DiskWithinLimit
<1>1. OnDisk => DiskWithinLimit
  BY DEF OnDisk, DiskWithinLimit, Taped
<1> QED
  BY <1>1, RecorderOnDisk, PTL

\* Once the worker has caught up, the bytes that the game thread has counted are
\* those on disk.
THEOREM RecorderLedgerMatchesDisk == RecorderSpec => []LedgerMatchesDisk
<1>1. ASSUME RInv, queue = <<>>, ~writerError, pc # "gone"
      PROVE  history_bytes = DiskBytes(disk)
  <2>1. PICK st : Becomes(st) /\ Agrees(st)
    BY <1>1 DEF RInv, Queued
  <2>2. PICK F : Path(F, Now, queue) /\ F[Len(queue)] = st
    BY <2>1 DEF Becomes, Leads
  <2>3. st = Now
    BY <1>1, <2>2 DEF Path
  <2> QED
    BY <2>1, <2>3 DEF Agrees, Booked, Now
<1> QED
  BY <1>1, RecorderPromise, PTL DEF LedgerMatchesDisk

\* The ring says where the bytes of a live recorder are.
RingUsed ==
  /\ recording => Cardinality(Retained) <= SEGMENTS
  /\ \A k \in (0..SEGMENTS-1) \ {Slot(s) : s \in Retained} : history_sizes[k] = 0

\* That follows from the invariant of the ring.
LEMMA RingExact == IInv /\ pc # "gone" => RingUsed
<1> SUFFICES ASSUME IInv, pc # "gone" PROVE RingUsed
  OBVIOUS
<1>1. segment \in Nat /\ oldest_segment \in Nat /\ SEGMENTS \in Nat \ {0}
  BY RecorderAssumption DEF IInv, Numbers
<1>2. ASSUME recording PROVE Cardinality(Retained) <= SEGMENTS
  <2>1. segment - oldest_segment < SEGMENTS
    BY <1>1, <1>2 DEF IInv, Live, RingHasRoom, TooManySegments
  <2>2. Cardinality(Retained) =
          IF oldest_segment > segment THEN 0 ELSE segment - oldest_segment + 1
    BY <1>1, FS_Interval DEF Retained
  <2> QED
    BY <1>1, <2>1, <2>2
<1>3. ASSUME NEW k \in (0..SEGMENTS-1) \ {Slot(s) : s \in Retained}
      PROVE  history_sizes[k] = 0
  <2>1. Newest \in Int /\ Newest <= segment
    BY <1>1 DEF Newest
  <2>2. \A s \in oldest_segment..Newest : s \in Retained
    BY <1>1, <2>1 DEF Retained
  <2>3. \A s \in oldest_segment..Newest : Slot(s) # k
    BY <1>3, <2>2
  <2> QED
    BY <1>3, <2>3 DEF IInv, Live, Ledger
<1> QED
  BY <1>2, <1>3 DEF RingUsed

\* Only evictions and new images touch the ring and its sum.
LEMMA RingKept ==
  ASSUME [RecorderNext]_vars
  PROVE  ForgetOldest \/ CountSnapshot \/ UNCHANGED <<history_bytes, history_sizes>>
<1>1. CASE RetireSegments \/ MakeRoom
  BY <1>1 DEF RetireSegments, MakeRoom, Evict
<1>2. CASE PutSnapshot
  BY <1>2 DEF PutSnapshot, storageVars
<1>3. CASE RecordBegin \/ StartSegment \/ CreateSegment \/ CannotStart \/ OpenSegment
           \/ (\E n \in SnapshotSizes : TakeSnapshot(n)) \/ PutInput \/ RunFrame \/ FrameEnd
  BY <1>3 DEF RecordBegin, StartSegment, CreateSegment, CannotStart, OpenSegment,
     TakeSnapshot, PutInput, RunFrame, FrameEnd, storageVars
<1>4. CASE HostStep
  BY <1>4 DEF HostStep, BeginFrame, Enable, Load, Reset, ToggleRunahead, ChangeView,
     Shutdown, storageVars, quiet
<1>5. CASE Worker \/ Drained \/ Crash \/ Gone \/ UNCHANGED vars
  BY <1>5 DEF Worker, Drained, Crash, Gone, vars, storageVars
<1> QED
  BY <1>1, <1>2, <1>3, <1>4, <1>5 DEF RecorderNext, GameStep

\* Nothing is recorded, retired or counted when the process ends.
LEMMA LastSteps ==
  ASSUME [RecorderNext]_vars, pc' = "gone"
  PROVE  UNCHANGED <<recording, segment, oldest_segment, history_sizes>>
<1>1. ~GameStep
  BY DEF GameStep, RecordBegin, StartSegment, CreateSegment, CannotStart, RetireSegments,
     Evict, OpenSegment, TakeSnapshot, MakeRoom, PutSnapshot, PutInput, RunFrame, FrameEnd,
     flagVars
<1>2. CASE HostStep
  BY <1>2 DEF HostStep, BeginFrame, HostEvent, Enable, Load, Reset, ToggleRunahead,
     ChangeView, Shutdown, quiet
<1>3. CASE Worker \/ Drained \/ Crash \/ Gone \/ UNCHANGED vars
  BY <1>3 DEF Worker, Drained, Crash, Gone, vars, storageVars, flagVars, tapeVars
<1> QED
  BY <1>1, <1>2, <1>3 DEF RecorderNext

\* The ring is the ledger of history_bytes, whatever evictions failed half way:
\* the bytes counted are the sum of its slots, while a segment is recorded the
\* retained segments do not share a slot, and the other slots are empty.
THEOREM RecorderLedgerExact == RecorderSpec => []LedgerExact
<1>1. RecorderInit => LedgerExact
  <2> SUFFICES ASSUME RecorderInit PROVE LedgerExact
    OBVIOUS
  <2>1. IInv /\ pc # "gone"
    BY Initially DEF RecorderInit
  <2>2. history_bytes = RingBytes(history_sizes)
    <3>1. PICK S : S = 0..SEGMENTS-1
      OBVIOUS
    <3>2. PICK sizes : sizes = history_sizes
      OBVIOUS
    <3>3. sizes \in [S -> Nat] /\ (\A k \in S : sizes[k] = 0) /\ IsFiniteSet(S)
      BY <3>1, <3>2, RecorderAssumption, FS_Interval DEF RecorderInit
    <3>4. PICK h : Sums(h, sizes, S) /\ RingBytes(sizes) = h[S]
      BY <3>1, <3>3, RingSum
    <3>5. h[S] = 0
      BY <3>3, <3>4, NullSum
    <3> QED
      BY <3>2, <3>4, <3>5 DEF RecorderInit
  <2> QED
    BY <2>1, <2>2, RingExact DEF LedgerExact, RingUsed
<1>2. IInv' /\ (pc # "gone")' => RingUsed'
  BY RingExact, PTL
<1>3. RInv /\ LedgerExact /\ [RecorderNext]_vars => LedgerExact'
  <2> SUFFICES ASSUME RInv, LedgerExact, [RecorderNext]_vars PROVE LedgerExact'
    OBVIOUS
  <2>1. IInv /\ IInv' /\ Numbers /\ Numbers'
    BY StepPromised DEF RInv, IInv
  <2>2. history_bytes' = RingBytes(history_sizes')
    <3>1. CASE UNCHANGED <<history_bytes, history_sizes>>
      BY <3>1 DEF LedgerExact
    <3>2. ASSUME NEW k \in 0..SEGMENTS-1, NEW n \in Int,
                 history_sizes' = [history_sizes EXCEPT ![k] = history_sizes[k] + n],
                 history_bytes' = history_bytes + n
          PROVE  history_bytes' = RingBytes(history_sizes')
      <4>1. PICK old, new : old = history_sizes /\ new = history_sizes'
        OBVIOUS
      <4>2. old \in [0..SEGMENTS-1 -> Nat] /\ new \in [0..SEGMENTS-1 -> Nat]
        BY <2>1, <4>1 DEF Numbers
      <4>3. /\ new[k] = old[k] + n /\ old[k] \in Nat
            /\ \A j \in 0..SEGMENTS-1 : j # k => new[j] = old[j]
        BY <3>2, <4>1, <4>2
      <4>4. /\ RingBytes(old) \in Nat /\ RingBytes(new) \in Nat
            /\ RingBytes(new) - new[k] = RingBytes(old) - old[k]
        BY <4>2, <4>3, RingBytesChange
      <4> QED
        BY <3>2, <4>1, <4>3, <4>4 DEF LedgerExact
    <3>3. CASE ForgetOldest
      <4>1. PICK k : k = Slot(oldest_segment)
        OBVIOUS
      <4>2. k \in 0..SEGMENTS-1 /\ history_sizes[k] \in Nat /\ history_bytes \in Nat
        BY <2>1, <4>1, SlotInRing DEF Numbers
      <4>3. PICK n \in Int : n = 0 - history_sizes[k]
        BY <4>2
      <4>4. history_sizes[k] + n = 0 /\ history_bytes - history_sizes[k] = history_bytes + n
        BY <4>2, <4>3
      <4> QED
        BY <3>2, <3>3, <4>1, <4>2, <4>4 DEF ForgetOldest
    <3>4. CASE CountSnapshot
      <4>1. segment \in Nat /\ size \in Nat
        BY <2>1 DEF Numbers
      <4>2. Slot(segment) \in 0..SEGMENTS-1 /\ size \in Int
        BY <4>1, SlotInRing
      <4> QED
        BY <3>2, <3>4, <4>2 DEF CountSnapshot
    <3> QED
      BY <3>1, <3>3, <3>4, RingKept
  <2>3. CASE pc' # "gone"
    BY <1>2, <2>1, <2>2, <2>3 DEF LedgerExact, RingUsed
  <2>4. CASE pc' = "gone"
    <3>1. UNCHANGED <<recording, segment, oldest_segment, history_sizes>>
      BY <2>4, LastSteps
    <3> QED
      BY <2>2, <3>1 DEF LedgerExact, Retained, Slot
  <2> QED
    BY <2>3, <2>4
<1> QED
  BY <1>1, <1>3, RecorderPromise, PTL DEF RecorderSpec

-----------------------------------------------------------------------------
(***************************************************************************)
(* No frame runs unrecorded.                                                 *)
(***************************************************************************)
Covered == pc = "run" /\ Capturing => recording

\* MmxReplayBegin() only reaches the frame without a segment when capture is
\* off or has failed, or the writer has.
LEMMA CoveredSteps == RInv /\ Covered /\ [RecorderNext]_vars => Covered'
<1> SUFFICES ASSUME RInv, Covered, [RecorderNext]_vars, pc' = "run", Capturing'
             PROVE  recording'
  BY DEF Covered
<1>1. (enabled \/ EnvRecord)' /\ ~failed' /\ ~runahead' /\ ~writerError'
  BY DEF Capturing
<1>2. ~Error /\ (\A cmds : ~RefusedWith(cmds))
  BY <1>1 DEF Error, RefusedWith
<1>3. CASE RecordBegin
  BY <1>1, <1>2, <1>3 DEF RecordBegin, Off, hostVars, writerVars, flagVars
<1>4. CASE StartSegment \/ CreateSegment \/ CannotStart
  BY <1>1, <1>2, <1>4 DEF StartSegment, CreateSegment, CannotStart
<1>5. CASE RetireSegments \/ MakeRoom
  BY <1>2, <1>5 DEF RetireSegments, MakeRoom, Evict
<1>6. CASE OpenSegment
  BY <1>2, <1>6 DEF OpenSegment
<1>7. CASE \E n \in SnapshotSizes : TakeSnapshot(n)
  BY <1>2, <1>7 DEF TakeSnapshot
<1>8. CASE PutSnapshot
  BY <1>2, <1>8 DEF PutSnapshot
<1>9. CASE PutInput
  BY <1>2, <1>9 DEF PutInput, RInv, FInv
<1>10. CASE RunFrame \/ FrameEnd
  BY <1>10 DEF RunFrame, FrameEnd
<1>11. CASE HostStep
  BY <1>11 DEF HostStep, BeginFrame, HostEvent, Enable, Load, Reset, ToggleRunahead,
     ChangeView, Shutdown, quiet
<1>12. CASE Worker
  BY <1>1, <1>12 DEF Worker, WorkerStep, WorkerFail, hostVars, flagVars, Covered, Capturing
<1>13. CASE Drained \/ Crash
  BY <1>13 DEF Drained, Crash
<1>14. CASE Gone \/ UNCHANGED vars
  BY <1>1, <1>14 DEF Gone, vars, hostVars, flagVars, writerVars, Covered, Capturing
<1> QED
  BY <1>3, <1>4, <1>5, <1>6, <1>7, <1>8, <1>9, <1>10, <1>11, <1>12, <1>13, <1>14
     DEF RecorderNext, GameStep

\* While capture is on, the input of a frame has been handed to the writer, with
\* the frame's number, before the machine moves.
THEOREM RecorderCapturesEveryFrame == RecorderSpec => []NoUnrecordedFrame
<1>1. RecorderInit => Covered
  BY DEF RecorderInit, Covered
<1>2. RInv /\ Covered => NoUnrecordedFrame
  <2> SUFFICES ASSUME RInv, Covered, pc = "run", Capturing
               PROVE  pending /\ next_frame = Frame + 1
    BY DEF NoUnrecordedFrame
  <2>1. recording /\ ~writerError
    BY DEF Covered, Capturing
  <2>2. pending
    BY <2>1 DEF RInv, Control
  <2>3. PICK st : Agrees(st)
    BY <2>1 DEF RInv, Queued
  <2>4. Current(Frame + 1)
    BY <2>1, <2>3 DEF Agrees, TapeAgrees
  <2> QED
    BY <2>2, <2>4 DEF Current
<1> QED
  BY <1>1, <1>2, CoveredSteps, RecorderPromise, PTL DEF RecorderSpec

\* The two threads agree on the protocol: the worker only meets commands that
\* make sense, and until the writer fails, the segment that it will have open
\* when the queue is empty is the one that the recorder records.
THEOREM RecorderWriterProtocol == RecorderSpec => []WriterProtocol
<1>1. RInv => WriterProtocol
  <2> SUFFICES ASSUME RInv PROVE WriterProtocol
    OBVIOUS
  <2>1. PICK st : Becomes(st) /\ (~writerError /\ pc # "gone" => Agrees(st))
    BY DEF RInv, Queued
  <2>2. StreamWellFormed /\ OpenAfter(Len(queue)) = st.open
    BY <2>1, PromiseWellFormed
  <2> QED
    BY <2>1, <2>2 DEF WriterProtocol, Agrees
<1> QED
  BY <1>1, RecorderPromise, PTL

-----------------------------------------------------------------------------
(***************************************************************************)
(* From the files to the player.                                             *)
(***************************************************************************)
\* The reports made of files that rows and images have been written to.
ReportImages == [machine : Machines, frame : Nat, intact : BOOLEAN]
ReportSet ==
  [replay : BOOLEAN, banner : BOOLEAN, header : BOOLEAN, sav : BOOLEAN, rows : Seq(RowSet),
   loose : {{}}, images : Seq(ReportImages)]

V == INSTANCE PlayerProofs WITH
       Tapes <- ReportSet, BootMachine <- InitialMachine, BootView <- InitialView,
       BootInput <- CHOOSE in \in Inputs : TRUE, Extended <- NeverExtended,
       tape <- p_tape, finished <- p_finished, failed <- p_failed,
       pending <- p_pending, playback_loaded <- p_playback_loaded,
       playback_checkpointed <- p_playback_checkpointed,
       playback_rows <- p_playback_rows, stream <- p_stream,
       next_frame <- p_next_frame, pc <- p_pc, machine <- p_machine,
       snes_frame_counter <- p_snes_frame_counter, view <- p_view,
       input <- p_input, extended_timing <- p_extended_timing,
       runahead <- p_runahead, disturbed <- p_disturbed, io_error <- p_io_error,
       status <- p_status

-----------------------------------------------------------------------------
(***************************************************************************)
(* The two instances of Player speak of the same process.                    *)
(***************************************************************************)
\* The assumptions of Player hold of the reports of a session.
LEMMA PlayerMaySuppose ==
  ASSUME Inputs # {}
  PROVE  /\ InitialMachine \in Machines /\ InitialView \in Views
         /\ (CHOOSE in \in Inputs : TRUE) \in Inputs
         /\ \A v \in Views : NeverExtended(v) \in BOOLEAN
         /\ \A t \in ReportSet :
              /\ t = [replay |-> t.replay, banner |-> t.banner, header |-> t.header,
                      sav |-> t.sav, rows |-> t.rows, loose |-> t.loose,
                      images |-> t.images]
              /\ t.loose \subseteq DOMAIN t.rows
              /\ t.rows \in Seq({t.rows[i] : i \in DOMAIN t.rows})
              /\ \A i \in DOMAIN t.rows : t.rows[i].kind = "I" => t.rows[i].view \in Views
<1>1. InitialMachine \in Machines /\ InitialView \in Views
  BY MachineAssumption
<1>2. (CHOOSE in \in Inputs : TRUE) \in Inputs
  OBVIOUS
<1>3. \A v \in Views : NeverExtended(v) \in BOOLEAN
  BY DEF NeverExtended
<1>4. ASSUME NEW t \in ReportSet
      PROVE  /\ t = [replay |-> t.replay, banner |-> t.banner, header |-> t.header,
                     sav |-> t.sav, rows |-> t.rows, loose |-> t.loose,
                     images |-> t.images]
             /\ t.loose \subseteq DOMAIN t.rows
             /\ t.rows \in Seq({t.rows[i] : i \in DOMAIN t.rows})
             /\ \A i \in DOMAIN t.rows : t.rows[i].kind = "I" => t.rows[i].view \in Views
  <2>1. /\ t = [replay |-> t.replay, banner |-> t.banner, header |-> t.header,
                sav |-> t.sav, rows |-> t.rows, loose |-> t.loose, images |-> t.images]
        /\ t.loose = {}
    BY DEF ReportSet
  <2>2. t.rows \in Seq(RowSet)
    BY DEF ReportSet
  <2>3. t.rows \in Seq({t.rows[i] : i \in DOMAIN t.rows})
    BY <2>2
  <2>4. \A i \in DOMAIN t.rows : t.rows[i] \in RowSet
    BY <2>2
  <2>5. \A row \in RowSet : row.kind = "I" => row.view \in Views
    BY DEF RowSet
  <2> QED
    BY <2>1, <2>3, <2>4, <2>5
<1> QED
  BY <1>1, <1>2, <1>3, <1>4

\* A fresh process with a report is one that PlayerProofs may start with.
LEMMA PlayerStarts == Inputs # {} /\ V!PlayerInit => V!PInv
  BY V!PlayerStart, PlayerMaySuppose, StepAssumption

\* The rows and the report that --until makes of them are the same.
LEMMA SameReports ==
  /\ \A file : P!Reproducible(file) <=> V!Reproducible(file)
  /\ \A file : P!CompletedRows(file) = V!CompletedRows(file)
  /\ \A file, n : P!Until(file, n) = V!Until(file, n)
<1>1. \A file, i : P!Chained(file, i) <=> V!Chained(file, i)
  BY DEF P!Chained, V!Chained, P!PlacedImage, V!PlacedImage, P!ChainedInput,
     V!ChainedInput, P!ChainedHash, V!ChainedHash, P!Described, V!Described
<1>2. \A file : /\ P!Faithful(file) <=> V!Faithful(file)
                /\ P!Completed(file) <=> V!Completed(file)
                /\ P!IntactImages(file) <=> V!IntactImages(file)
                /\ P!TimingOnlyExtends(file) <=> V!TimingOnlyExtends(file)
  BY <1>1, Zenon DEF P!Faithful, V!Faithful, P!Completed, V!Completed, P!IntactImages,
     V!IntactImages, P!TimingOnlyExtends, V!TimingOnlyExtends
<1>3. \A file : P!Reproducible(file) <=> V!Reproducible(file)
  BY <1>2, Zenon DEF P!Reproducible, V!Reproducible
<1>4. \A file : P!CompletedRows(file) = V!CompletedRows(file)
  BY DEF P!CompletedRows, V!CompletedRows
<1>5. \A file, n : P!Until(file, n) = V!Until(file, n)
  BY DEF P!Until, V!Until, P!CompletedRows, V!CompletedRows, P!Cardinality, V!Cardinality
<1> QED
  BY <1>3, <1>4, <1>5

\* So are the fresh process and its steps, which change neither the report nor
\* the run-ahead option, and none of which is a load by hand.
LEMMA SamePlayer ==
  /\ P!FreshProcess => V!FreshProcess
  /\ P!PlaybackStep \/ P!Gone =>
       /\ V!PlayerNext
       /\ UNCHANGED <<p_tape, p_runahead, p_disturbed>>
<1>1. P!FreshProcess => V!FreshProcess
  BY Zenon DEF P!FreshProcess, V!FreshProcess
<1>2. ASSUME P!OpenPlayback \/ P!LoadPlayback
      PROVE  V!OpenPlayback \/ V!LoadPlayback
  BY <1>2, Zenon DEF P!OpenPlayback, V!OpenPlayback, P!LoadPlayback, V!LoadPlayback, P!Loadable,
     V!Loadable, P!Fail, V!Fail, P!machineVars, V!machineVars, P!fixedVars, V!fixedVars
<1>3. ASSUME P!NoMoreRows \/ P!ReadError \/ P!SkipCheckpoint
      PROVE  V!NoMoreRows \/ V!ReadError \/ V!SkipCheckpoint
  BY <1>3, Zenon DEF P!ReadError, V!ReadError, P!NoMoreRows, V!NoMoreRows, P!SkipCheckpoint, V!SkipCheckpoint, P!AtEof,
     V!AtEof, P!Row, V!Row, P!Fail, V!Fail, P!Finish, V!Finish, P!machineVars, V!machineVars,
     P!fixedVars, V!fixedVars, P!stateVars, V!stateVars
<1>4. ASSUME P!ReadCheckpoint PROVE V!ReadCheckpoint
  BY <1>4, Zenon DEF P!ReadCheckpoint, V!ReadCheckpoint, P!Intact, V!Intact, P!AtEof, V!AtEof,
     P!Row, V!Row, P!Fail, V!Fail, P!fixedVars, V!fixedVars
<1>5. ASSUME P!ReadInput PROVE V!ReadInput
  BY <1>5, Zenon DEF P!ReadInput, V!ReadInput, P!Accepted, V!Accepted, P!TimingAfter,
     V!TimingAfter, P!Row, V!Row, P!Fail, V!Fail, P!fixedVars, V!fixedVars
<1>6. ASSUME P!RunFrame PROVE V!RunFrame
  BY <1>6, Zenon DEF P!RunFrame, V!RunFrame, P!stateVars, V!stateVars, P!fixedVars, V!fixedVars
<1>7. ASSUME P!VerifyFrame PROVE V!VerifyFrame
  BY <1>7, Zenon DEF P!VerifyFrame, V!VerifyFrame, P!Recorded, V!Recorded, P!Reproduced,
     V!Reproduced, P!LookAhead, V!LookAhead, P!Finish, V!Finish, P!AtEof, V!AtEof, P!Row, V!Row, P!Fail, V!Fail, P!machineVars,
     V!machineVars, P!fixedVars, V!fixedVars
<1>8. ASSUME P!AfterFrame \/ P!Exit PROVE V!AfterFrame \/ V!Exit
  BY <1>8, Zenon DEF P!AfterFrame, V!AfterFrame, P!Exit, V!Exit, P!QuitWanted, V!QuitWanted,
     P!ExitStatus, V!ExitStatus, P!machineVars, V!machineVars, P!fixedVars, V!fixedVars,
     P!stateVars, V!stateVars
<1>9. ASSUME P!Gone PROVE V!Gone
  BY <1>9, Zenon DEF P!Gone, V!Gone, P!playerVars, V!playerVars, P!stateVars, V!stateVars,
     P!machineVars, V!machineVars, P!fixedVars, V!fixedVars
<1>10. P!PlaybackStep \/ P!Gone => UNCHANGED <<p_tape, p_runahead, p_disturbed>>
  BY DEF P!PlaybackStep, P!Gone, P!OpenPlayback, P!LoadPlayback, P!NoMoreRows,
     P!ReadError, P!ReadCheckpoint, P!SkipCheckpoint, P!ReadInput, P!RunFrame,
     P!VerifyFrame, P!AfterFrame, P!Exit, P!playerVars, P!fixedVars
<1> QED
  BY <1>1, <1>2, <1>3, <1>4, <1>5, <1>6, <1>7, <1>8, <1>9, <1>10
     DEF P!PlaybackStep, V!PlaybackStep, V!PlayerNext

-----------------------------------------------------------------------------
(***************************************************************************)
(* The report of a sound tape.                                               *)
(***************************************************************************)
\* The report holds what is on disk, and all of it is in order but perhaps for
\* the end.
LEMMA Reported ==
  ASSUME AInv, NEW s \in SegmentIds, disk[s].replay
  PROVE  /\ Report(s) \in ReportSet /\ Report(s).rows = disk[s].rows
         /\ V!Unbroken(Report(s))
         /\ V!Reproducible(Report(s)) <=> Completed(disk[s])
         /\ V!Completed(Report(s)) <=> Completed(disk[s])
<1>1. PICK file : file = disk[s]
  OBVIOUS
<1>2. /\ file.replay /\ file.sav /\ ImagesThere(file) /\ Faithful(file)
      /\ file \in FileSet
  BY <1>1 DEF AInv, Sound
<1>3. /\ file.replay = TRUE /\ file.sav = TRUE
      /\ file.rows \in Seq(RowSet) /\ file.images \in Seq(ImageSet)
      /\ Len(file.rows) \in Nat /\ Len(file.images) \in Nat
      /\ \A i \in 1..Len(file.rows) : file.rows[i] \in RowSet
  BY <1>2 DEF FileSet
<1> DEFINE image(i) == [machine |-> file.images[i].machine, frame |-> file.images[i].frame,
                        intact |-> TRUE]
           images == [i \in 1..Len(file.images) |-> image(i)]
<1>4. images \in Seq(ReportImages)
  <2>1. \A i \in 1..Len(file.images) : image(i) \in ReportImages
    <3>1. \A i \in 1..Len(file.images) : file.images[i] \in ImageSet
      BY <1>3
    <3> QED
      BY <3>1 DEF ImageSet, ReportImages
  <2> HIDE DEF image
  <2> QED
    BY <1>3, <2>1
<1>5. PICK t : t = Report(s)
  OBVIOUS
<1>6. t = [replay |-> TRUE, banner |-> TRUE, header |-> TRUE, sav |-> TRUE,
           rows |-> file.rows, loose |-> {}, images |-> images]
  BY <1>1, <1>3, <1>5 DEF Report
<1>7. t \in ReportSet
  <2> HIDE DEF images
  <2> QED
    BY <1>3, <1>4, <1>6 DEF ReportSet
<1>8. /\ t.rows = file.rows /\ t.replay /\ t.header /\ t.sav /\ t.banner /\ t.loose = {}
      /\ t.images = images /\ DOMAIN t.images = 1..Len(file.images)
  BY <1>6
<1>9. \A k \in 1..Len(file.images) :
        t.images[k].intact /\ t.images[k].machine = file.images[k].machine
                           /\ t.images[k].frame = file.images[k].frame
  BY <1>8
<1> HIDE DEF images
<1>10. V!IntactImages(t)
  BY <1>2, <1>8, <1>9 DEF V!IntactImages, ImagesThere
<1>11. V!TimingOnlyExtends(t)
  BY DEF V!TimingOnlyExtends, NeverExtended
<1>12. \A i \in 1..Len(file.rows) : V!Described(t, t.rows[i]) = Described(file, file.rows[i])
  BY <1>2, <1>8, <1>9 DEF V!Described, Described, ImagesThere
<1>13. V!Faithful(t)
  <2> SUFFICES ASSUME NEW i \in 1..Len(file.rows) PROVE V!Chained(t, i)
    BY <1>8 DEF V!Faithful
  <2>1. Chained(file, i)
    BY <1>2 DEF Faithful
  <2>2. i > 1 => i-1 \in 1..Len(file.rows)
    BY <1>3
  <2>3. i > 2 => i-2 \in 1..Len(file.rows)
    BY <1>3
  <2>4. PlacedImage(file, i) => V!PlacedImage(t, i)
    BY <1>8 DEF PlacedImage, V!PlacedImage
  <2>5. ChainedInput(file, i) => V!ChainedInput(t, i)
    BY <1>8, <1>12, <2>2 DEF ChainedInput, V!ChainedInput
  <2>6. ChainedHash(file, i) => V!ChainedHash(t, i)
    BY <1>8, <1>12, <2>3 DEF ChainedHash, V!ChainedHash
  <2> QED
    BY <1>8, <2>1, <2>4, <2>5, <2>6 DEF Chained, V!Chained
<1>14. V!Unbroken(t)
  BY <1>8, <1>10, <1>11, <1>13 DEF V!Unbroken
<1>15. V!Completed(t) <=> Completed(file)
  BY <1>8 DEF V!Completed, Completed
<1> QED
  BY <1>1, <1>5, <1>7, <1>8, <1>14, <1>15 DEF V!Reproducible, V!Unbroken

-----------------------------------------------------------------------------
(***************************************************************************)
(* The invariant: a session until its process is gone, then a playback of    *)
(* what it has left.                                                         *)
(***************************************************************************)
\* The session keeps its files in order, while no tape is being replayed.
InSession == RInv /\ OnDisk /\ AInv /\ P!FreshProcess

\* The player is where PlayerProofs says, in the report of a sound tape, which
\* ends with a frame unless the writer was cut short in it.
InPlayback ==
  /\ replayed \in SegmentIds /\ disk[replayed].replay /\ AInv
  /\ ~writerError /\ replayed # openSeg => AtFrame(disk[replayed])
  /\ p_tape = Report(replayed)
  /\ V!PInv /\ p_disturbed = FALSE

DInv ==
  /\ Inputs # {} /\ p_runahead = FALSE
  /\ replayed = 0 => InSession
  /\ replayed # 0 => InPlayback

\* The session starts in order.
LEMMA DiagnosticStart == Init => DInv
<1> SUFFICES ASSUME Init PROVE DInv
  OBVIOUS
<1>1. RInv /\ OnDisk /\ AInv
  BY StartsPromised, OnDiskSteps, ArchiveMapped, ArchiveInitially DEF Init
<1>2. Inputs # {}
  BY DEF Init, RecorderInit
<1> QED
  BY <1>1, <1>2 DEF Init, DInv, InSession

\* The session stays in order.
LEMMA SessionStep == ASSUME DInv, Session PROVE DInv'
<1>1. /\ InSession /\ replayed = 0 /\ replayed' = 0 /\ RecorderNext
      /\ UNCHANGED <<playVars, p_runahead>>
  BY DEF DInv, Session, replayVars, playVars
<1>2. RInv' /\ OnDisk' /\ AInv'
  BY <1>1, StepPromised, OnDiskSteps, ArchiveMapped, ArchiveStep DEF InSession
<1>3. P!FreshProcess'
  BY <1>1 DEF InSession, P!FreshProcess, playVars
<1> QED
  BY <1>1, <1>2, <1>3 DEF DInv, InSession

\* A fresh process is given a report of what the session has left.
LEMMA ReplayStep == DInv /\ (\E s \in SegmentIds : Replay(s)) => DInv'
<1> SUFFICES ASSUME DInv, NEW s \in SegmentIds, Replay(s) PROVE DInv'
  OBVIOUS
<1>1. /\ replayed = 0 /\ replayed' = s /\ disk[s].replay /\ InSession /\ Inputs # {}
      /\ p_tape' = Report(s) /\ UNCHANGED <<disk, openSeg, writerError, playVars>>
  BY DEF Replay, DInv
<1>2. AInv' /\ s # 0 /\ p_runahead' = FALSE /\ p_disturbed' = FALSE
  BY <1>1, WriterAssumption
     DEF InSession, AInv, P!FreshProcess, playVars, DInv, SegmentIds
<1>3. ~writerError' /\ s # openSeg' => AtFrame(disk'[s])
  BY <1>1 DEF InSession, OnDisk
<1>4. p_tape' = Report(replayed)'
  BY <1>1 DEF Report
<1>5. p_tape' \in ReportSet
  BY <1>1, Reported DEF InSession
<1>6. (P!FreshProcess)'
  BY <1>1 DEF InSession, P!FreshProcess, playVars
<1>7. P!FreshProcess' => V!FreshProcess'
  BY SamePlayer, PTL
<1>8. V!PlayerInit'
  BY <1>5, <1>6, <1>7 DEF V!PlayerInit
<1>9. (Inputs # {} /\ V!PlayerInit)' => V!PInv'
  BY PlayerStarts, PTL
<1>10. V!PInv'
  BY <1>1, <1>8, <1>9
<1> QED
  BY <1>1, <1>2, <1>3, <1>4, <1>10 DEF DInv, InPlayback

\* The playback does what PlayerProofs says, and touches no file.
LEMMA PlaybackStays ==
  ASSUME DInv, Playback \/ UNCHANGED <<sessionVars, replayVars>>
  PROVE  DInv'
<1>1. CASE replayed # 0
  <2>1. /\ InPlayback /\ Inputs # {} /\ p_runahead = FALSE
        /\ UNCHANGED <<replayed, disk, openSeg, writerError>>
    BY <1>1 DEF DInv, Playback, sessionVars, replayVars, vars, writerVars
  <2>2. [V!PlayerNext]_(V!playerVars) /\ UNCHANGED <<p_tape, p_runahead, p_disturbed>>
    BY SamePlayer DEF Playback, replayVars, playVars, V!playerVars, V!stateVars,
       V!machineVars, V!fixedVars
  <2>3. V!PInv'
    BY <2>1, <2>2, V!PlayerSteps, PlayerMaySuppose, StepAssumption DEF InPlayback
  <2>4. AInv' /\ Report(replayed)' = Report(replayed)
    BY <2>1 DEF InPlayback, AInv, Report
  <2> QED
    BY <1>1, <2>1, <2>2, <2>3, <2>4 DEF DInv, InPlayback
<1>2. CASE replayed = 0
  <2>1. UNCHANGED <<sessionVars, replayVars>>
    BY <1>2 DEF Playback
  <2>2. [RecorderNext]_vars
    BY <2>1 DEF sessionVars
  <2>3. InSession /\ p_runahead' = FALSE /\ replayed' = 0 /\ Inputs # {}
    BY <1>2, <2>1 DEF DInv, replayVars, playVars
  <2>4. RInv' /\ OnDisk' /\ AInv'
    BY <2>2, <2>3, StepPromised, OnDiskSteps, ArchiveMapped, ArchiveStep DEF InSession
  <2>5. P!FreshProcess'
    BY <2>1, <2>3 DEF InSession, P!FreshProcess, replayVars, playVars
  <2> QED
    BY <2>3, <2>4, <2>5 DEF DInv, InSession
<1> QED
  BY <1>1, <1>2

\* Whatever became of the session, its files are in order, and the player is
\* where the rows it has read put it.
THEOREM DiagnosticInvariant == Spec => []DInv
<1>1. DInv /\ [Next]_<<sessionVars, replayVars>> => DInv'
  BY SessionStep, ReplayStep, PlaybackStays DEF Next
<1> QED
  BY <1>1, DiagnosticStart, PTL DEF Spec

-----------------------------------------------------------------------------
(***************************************************************************)
(* The verdicts.                                                             *)
(***************************************************************************)
\* There is no verdict before there is a playback.
LEMMA VerdictInPlayback ==
  ASSUME DInv, Verdict
  PROVE  /\ InPlayback /\ p_runahead = FALSE
         /\ p_finished => Completed(disk[replayed])
         /\ p_failed => ~Completed(disk[replayed]) \/ p_io_error
         /\ V!Unbroken(p_tape) /\ p_tape \in ReportSet
         /\ p_tape.rows = disk[replayed].rows
<1>1. InPlayback /\ p_runahead = FALSE
  BY DEF DInv, InSession, P!FreshProcess, Verdict
<1>2. /\ p_tape \in ReportSet /\ p_tape.rows = disk[replayed].rows
      /\ V!Unbroken(p_tape) /\ (V!Reproducible(p_tape) <=> Completed(disk[replayed]))
  BY <1>1, Reported DEF InPlayback
<1>3. /\ p_finished => V!Reproducible(p_tape)
      /\ p_failed => ~V!Reproducible(p_tape) \/ p_io_error
  BY <1>1 DEF InPlayback, V!PInv
<1> QED
  BY <1>1, <1>2, <1>3

\* A session's own tapes pass exactly when their last frame was completed, unless
\* a file cannot be read: they are never called damaged, discontinuous or
\* different.
THEOREM DiagnosticOwnTapes == Spec => []OwnTapesReplay
<1>1. DInv => OwnTapesReplay
  BY VerdictInPlayback DEF OwnTapesReplay, Verdict, Completed
<1> QED
  BY <1>1, DiagnosticInvariant, PTL

\* And the only ones that fail with a frame in them are the one that was being
\* written when the process died, and those of a writer that had failed.
THEOREM DiagnosticClosedTapes == Spec => []ClosedTapesPass
<1>1. DInv => ClosedTapesPass
  <2> SUFFICES ASSUME DInv, p_failed, ~p_io_error, ~writerError, replayed # openSeg
               PROVE  p_tape.rows = <<>>
    BY DEF ClosedTapesPass
  <2>1. /\ InPlayback /\ ~Completed(disk[replayed])
        /\ p_tape.rows = disk[replayed].rows
    BY VerdictInPlayback DEF Verdict
  <2>2. AtFrame(disk[replayed])
    BY <2>1 DEF InPlayback
  <2> QED
    BY <2>1, <2>2 DEF AtFrame, LastRow, Completed
<1> QED
  BY <1>1, DiagnosticInvariant, PTL

-----------------------------------------------------------------------------
(***************************************************************************)
(* The tool and the tapes.                                                   *)
(***************************************************************************)
\* Rows that continue one another come in an order that the tool allows.
LEMMA FaithfulIsAllowed ==
  ASSUME NEW t, V!Faithful(t), NEW i \in 1..Len(t.rows), Len(t.rows) \in Nat
  PROVE  P!Allowed(t.rows[i], P!Unfinished(t.rows, i - 1))
<1>1. V!Chained(t, i) /\ i \in Nat /\ i >= 1
  BY DEF V!Faithful
<1>2. P!Unfinished(t.rows, i - 1) <=> i > 1 /\ t.rows[i - 1].kind = "I"
  BY <1>1 DEF P!Unfinished
<1>3. CASE t.rows[i].kind = "S"
  BY <1>1, <1>2, <1>3 DEF V!Chained, V!PlacedImage, P!Allowed
<1>4. CASE t.rows[i].kind = "I"
  BY <1>1, <1>2, <1>4 DEF V!Chained, V!ChainedInput, P!Allowed
<1>5. CASE t.rows[i].kind = "H"
  BY <1>1, <1>2, <1>5 DEF V!Chained, V!ChainedHash, P!Allowed
<1> QED
  BY <1>1, <1>3, <1>4, <1>5 DEF V!Chained

\* The tool accepts the report of every tape that is on disk at any moment.
THEOREM DiagnosticInspected == Spec => []OwnTapesInspected
<1>1. DInv => OwnTapesInspected
  <2> SUFFICES ASSUME DInv, NEW s \in SegmentIds, disk[s].replay
               PROVE  P!Inspect(Report(s))
    BY DEF OwnTapesInspected
  <2>1. AInv
    BY DEF DInv, InSession, InPlayback
  <2>2. Report(s) \in ReportSet /\ V!Unbroken(Report(s))
    BY <2>1, Reported
  <2>3. PICK t : t = Report(s)
    OBVIOUS
  <2>4. t.banner /\ t.loose = {}
    BY <2>3 DEF Report
  <2>5. t.sav /\ V!Faithful(t) /\ Len(t.rows) \in Nat
    BY <2>2, <2>3 DEF V!Unbroken, ReportSet
  <2>6. P!Inspect(t)
    BY <2>4, <2>5, FaithfulIsAllowed DEF P!Inspect
  <2> QED
    BY <2>3, <2>6
<1> QED
  BY <1>1, DiagnosticInvariant, PTL

-----------------------------------------------------------------------------
(***************************************************************************)
(* --until N of an interrupted tape.                                         *)
(***************************************************************************)
\* Counting the members of a set of positions upwards reaches every number.
LEMMA CountReaches ==
  ASSUME NEW L \in Nat, NEW hs \in SUBSET (1..L), NEW n \in 1..Cardinality(hs)
  PROVE  \E i \in hs : Cardinality({j \in hs : j <= i}) = n
<1> DEFINE upTo(i) == {j \in hs : j <= i}
           count(i) == Cardinality(upTo(i))
           T == {i \in 0..L : count(i) >= n}
<1>1. IsFiniteSet(hs) /\ Cardinality(hs) \in Nat /\ hs \subseteq 1..L
  <2>1. IsFiniteSet(1..L) /\ hs \subseteq 1..L
    BY FS_Interval
  <2> QED
    BY <2>1, FS_Subset, FS_CardinalityType
<1>2. \A i : IsFiniteSet(upTo(i)) /\ upTo(i) \subseteq hs
  <2>1. \A i : upTo(i) \subseteq hs
    OBVIOUS
  <2> HIDE DEF upTo
  <2> QED
    BY <1>1, <2>1, FS_Subset
<1>3. \A i : count(i) \in Nat
  <2> HIDE DEF upTo
  <2> QED
    BY <1>2, FS_CardinalityType
<1>4. n \in Nat /\ n >= 1 /\ n <= Cardinality(hs)
  BY <1>1
<1>5. /\ upTo(L) = hs /\ upTo(0) = {}
      /\ \A i \in Nat \ {0} : upTo(i) = IF i \in hs THEN upTo(i - 1) \cup {i} ELSE upTo(i - 1)
      /\ \A i \in Nat \ {0} : i \notin upTo(i - 1)
  <2>1. \A j \in hs : j \in Nat /\ j >= 1 /\ j <= L
    BY <1>1
  <2>2. upTo(L) = hs /\ upTo(0) = {}
    <3>1. \A j \in hs : j <= L /\ ~(j <= 0)
      BY <2>1
    <3> QED
      BY <3>1, Zenon
  <2>3. ASSUME NEW i \in Nat \ {0}
        PROVE  /\ upTo(i) = IF i \in hs THEN upTo(i - 1) \cup {i} ELSE upTo(i - 1)
               /\ i \notin upTo(i - 1)
    <3>1. \A j \in hs : j <= i <=> j <= i - 1 \/ j = i
      BY <2>1
    <3>2. ~(i <= i - 1)
      OBVIOUS
    <3> QED
      BY <3>1, <3>2
  <2> QED
    BY <2>2, <2>3
<1> HIDE DEF upTo
<1>6. count(L) >= n /\ count(0) = 0
  BY <1>4, <1>5, <1>1, FS_EmptySet
<1>7. PICK i \in T : \A y \in T : i <= y
  <2>1. T \subseteq Nat /\ L \in T
    <3> HIDE DEF count
    <3> QED
      BY <1>6
  <2> HIDE DEF T
  <2> QED
    BY <2>1, LeastNumber
<1>8. i \in 0..L /\ count(i) >= n /\ count(i) \in Nat /\ count(i - 1) \in Nat
  BY <1>3, <1>7
<1>9. i # 0 /\ i \in Nat \ {0}
  <2> HIDE DEF count
  <2> QED
    BY <1>4, <1>6, <1>8
<1>10. count(i - 1) < n
  <2> HIDE DEF count
  <2>1. i - 1 \in 0..L /\ i - 1 < i
    BY <1>8, <1>9
  <2>2. i - 1 \notin T
    BY <1>7, <1>8, <2>1
  <2> QED
    BY <1>4, <1>8, <2>1, <2>2
<1>11. i \in hs
  <2> SUFFICES ASSUME i \notin hs PROVE FALSE
    OBVIOUS
  <2>1. count(i) = count(i - 1)
    BY <1>5, <1>9
  <2> HIDE DEF count
  <2> QED
    BY <1>4, <1>8, <1>10, <2>1
<1>12. count(i) = count(i - 1) + 1
  <2>1. upTo(i) = upTo(i - 1) \cup {i} /\ i \notin upTo(i - 1) /\ IsFiniteSet(upTo(i - 1))
    BY <1>2, <1>5, <1>9, <1>11
  <2> QED
    BY <2>1, FS_AddElement
<1>13. count(i) = n
  <2> HIDE DEF count
  <2> QED
    BY <1>4, <1>8, <1>10, <1>12
<1> QED
  BY <1>11, <1>13 DEF upTo

\* The completed frames of a tape that was cut short can still be replayed, each
\* of them, with --until.
THEOREM DiagnosticUntil == Spec => []InterruptedTapeUsable
<1>1. DInv => InterruptedTapeUsable
  <2> SUFFICES ASSUME DInv, p_failed,
                      NEW n \in 1..Cardinality(P!CompletedRows(p_tape.rows))
               PROVE  P!Reproducible(P!Until(p_tape, n))
    BY DEF InterruptedTapeUsable
  <2> DEFINE hs  == V!CompletedRows(p_tape.rows)
             cut == CHOOSE i \in hs : Cardinality({j \in hs : j <= i}) = n
  <2>1. /\ V!Unbroken(p_tape) /\ p_tape \in ReportSet /\ Inputs # {}
    BY VerdictInPlayback DEF Verdict, DInv
  <2>2. Len(p_tape.rows) \in Nat
    <3>1. p_tape.rows \in Seq(RowSet)
      BY <2>1 DEF ReportSet
    <3> QED
      BY <3>1
  <2>3. hs \in SUBSET (1..Len(p_tape.rows)) /\ n \in 1..Cardinality(hs)
    BY SameReports DEF V!CompletedRows
  <2>4. \E i \in hs : Cardinality({j \in hs : j <= i}) = n
    <3> HIDE DEF hs
    <3> QED
      BY <2>2, <2>3, CountReaches
  <2>5. cut \in hs
    <3> HIDE DEF hs
    <3> QED
      BY <2>4
  <2>6. V!Until(p_tape, n) = [p_tape EXCEPT !.rows = SubSeq(p_tape.rows, 1, cut)]
    BY DEF V!Until, V!Cardinality, Cardinality
  <2>7. V!Reproducible([p_tape EXCEPT !.rows = SubSeq(p_tape.rows, 1, cut)])
    <3> HIDE DEF cut
    <3> QED
      BY <2>1, <2>5, V!PrefixReproducible, PlayerMaySuppose, StepAssumption
  <2> QED
    BY <2>6, <2>7, SameReports
<1> QED
  BY <1>1, DiagnosticInvariant, PTL

=============================================================================

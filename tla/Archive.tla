------------------------------ MODULE Archive -------------------------------
(***************************************************************************)
(* What the recorder of src/mmx_replay.c promises of the files it leaves in  *)
(* the logs folder, without its queue, its ledger or its flags: an archive   *)
(* of numbered tapes of which only the newest is ever written, row by row    *)
(* and always faithfully, and from which the oldest disappear, the tape      *)
(* before the images it needs.                                               *)
(***************************************************************************)
EXTENDS Tape

CONSTANT Numbers      \* the numbers that tapes may have, from 1

VARIABLES
  tapes,              \* tapes[s]: the rows and images of tape s, as far as kept
  open                \* the tape being written, or 0

archive == <<tapes, open>>

Absent == [replay |-> FALSE, sav |-> FALSE, rows |-> <<>>, images |-> <<>>]
Blank  == [replay |-> TRUE, sav |-> TRUE, rows |-> <<>>, images |-> <<>>]

ArchiveInit == tapes = [s \in Numbers |-> Absent] /\ open = 0

\* A new tape has a number above all that are kept.
Create(s) ==
  /\ open = 0
  /\ \A t \in Numbers : t >= s => tapes[t] = Absent
  /\ tapes' = [tapes EXCEPT ![s] = Blank]
  /\ open' = s

\* A tape grows by one row that continues it; an S row comes with its image.
Extends(file, longer) ==
  LET n   == Len(file.rows) + 1
      row == longer.rows[n]
  IN  /\ longer = [file EXCEPT !.rows = longer.rows, !.images = longer.images]
      /\ Len(longer.rows) = n /\ row \in RowSet
      /\ longer.rows = Append(file.rows, row)
      /\ IF row.kind = "S"
         THEN /\ row.image = Len(file.images) + 1
              /\ longer.images[row.image] \in ImageSet
              /\ longer.images = Append(file.images, longer.images[row.image])
         ELSE longer.images = file.images
      /\ Chained(longer, n)

Write ==
  /\ open # 0
  /\ tapes[open].replay
  /\ Extends(tapes[open], tapes'[open])
  /\ tapes' = [tapes EXCEPT ![open] = tapes'[open]]
  /\ UNCHANGED open

\* The tape ends, or its writer does.  It is never opened again.
Finished == open' = 0 /\ UNCHANGED tapes

\* The oldest tape goes; then its images, which nothing needs any more.
DropReplay(s) ==
  /\ s # open /\ \A t \in Numbers : t < s => ~tapes[t].replay
  /\ tapes' = [tapes EXCEPT ![s].replay = FALSE, ![s].rows = <<>>]
  /\ UNCHANGED open

DropSav(s) ==
  /\ s # open /\ ~tapes[s].replay
  /\ tapes' = [tapes EXCEPT ![s].sav = FALSE, ![s].images = <<>>]
  /\ UNCHANGED open

ArchiveNext ==
  \/ \E s \in Numbers : Create(s) \/ DropReplay(s) \/ DropSav(s)
  \/ Write \/ Finished

ArchiveSpec == ArchiveInit /\ [][ArchiveNext]_archive

-----------------------------------------------------------------------------
(***************************************************************************)
(* What the archive is worth; proved in RecorderArchiveProofs.               *)
(***************************************************************************)
\* A tape that is there replays: it has its images, every input row starts
\* from the machine that the row before it describes, and the H row after it
\* describes the machine that this input leads to (Faithful, in module Tape).
TapesFaithful ==
  \A s \in Numbers : tapes[s].replay => tapes[s].sav /\ Faithful(tapes[s])

=============================================================================

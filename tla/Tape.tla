-------------------------------- MODULE Tape --------------------------------
(***************************************************************************)
(* What a recorded segment is, and what it means that it replays.            *)
(*                                                                           *)
(* A tape is a ".replay" file of rows and a ".sav" file of machine images.   *)
(*   S  names an image of the .sav: the machine is loaded from it            *)
(*   I  one frame's input, with the frame number and the options in force    *)
(*   H  the machine after that frame (the code records hashes of its         *)
(*      memories, here the machine itself)                                   *)
(* The module is shared by the recorder, which writes tapes, the player,     *)
(* which verifies them, and the tool that inspects them.                     *)
(***************************************************************************)
EXTENDS Integers, Sequences

CONSTANTS
  Machines,         \* contents of the emulated machine
  Inputs,           \* joypad words
  Views,            \* policy flags and width, as recorded in an I row
  Step(_, _, _)     \* the machine one frame later, given input and view

ASSUME StepAssumption ==
  \A m \in Machines, i \in Inputs, v \in Views : Step(m, i, v) \in Machines

\* The rows of a tape and the images they name.
ImageSet == [machine : Machines, frame : Nat, size : Nat]
RowSet ==
  [kind : {"S"}, image : Nat]
  \cup [kind : {"I"}, frame : Nat, input : Inputs, view : Views]
  \cup [kind : {"H"}, frame : Nat, machine : Machines]

\* The machine and frame number that an S or H row describes.
Described(file, row) ==
  IF row.kind = "S" THEN [machine |-> file.images[row.image].machine,
                          frame |-> file.images[row.image].frame]
                    ELSE [machine |-> row.machine, frame |-> row.frame]

\* An input row starts from the machine that the row before it describes.
ChainedInput(file, i) ==
  /\ i > 1 /\ file.rows[i-1].kind \in {"S", "H"}
  /\ Described(file, file.rows[i-1]).frame = file.rows[i].frame

\* A hash row describes the machine that the input row before it leads to.
ChainedHash(file, i) ==
  LET before == Described(file, file.rows[i-2])
      at     == file.rows[i-1]
  IN  /\ i > 2 /\ at.kind = "I"
      /\ file.rows[i].frame = at.frame + 1
      /\ file.rows[i].machine = Step(before.machine, at.input, at.view)

\* An image is only taken where a frame begins.
PlacedImage(file, i) == i = 1 \/ file.rows[i-1].kind = "H"

Chained(file, i) ==
  CASE file.rows[i].kind = "S" -> PlacedImage(file, i)
    [] file.rows[i].kind = "I" -> ChainedInput(file, i)
    [] file.rows[i].kind = "H" -> ChainedHash(file, i)
    [] OTHER -> FALSE

Faithful(file) == \A i \in 1..Len(file.rows) : Chained(file, i)

Completed(file) == file.rows # <<>> /\ file.rows[Len(file.rows)].kind = "H"

=============================================================================

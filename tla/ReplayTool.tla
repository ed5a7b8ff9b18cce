----------------------------- MODULE ReplayTool -----------------------------
(***************************************************************************)
(* tools/replay_diagnostic.py: what its inspection of a report accepts and    *)
(* what --until cuts off.  The script reads the rows without the machine:     *)
(* it can tell that a report is malformed, never that it diverges.            *)
(*                                                                           *)
(* The script counts the fields of a row, which must be exactly those that    *)
(* the recorder writes; the game's sscanf() takes what it needs from the      *)
(* beginning of the row.  A row that the game can read and the script cannot  *)
(* (further fields, or a letter without a blank behind it) is in file.loose;  *)
(* one that neither can read, a blank one for instance, is of kind "X".  Of   *)
(* the four header rows the script compares the first one, character by       *)
(* character (file.banner), the game all four, but by what they mean: title,  *)
(* ROM and mods (file.header).                                                *)
(***************************************************************************)
EXTENDS Integers, Sequences, FiniteSets

\* Mutant: an image is taken for the middle of a frame.
AllowedInputsOnly(row, unfinished) ==
  CASE row.kind = "I" -> ~unfinished
    [] row.kind \in {"S", "H"} -> unfinished
    [] OTHER -> FALSE

\* inspect()'s loop over the rows: may a row of this kind come here, if an input
\* is or is not still waiting for its H row?
Allowed(row, unfinished) ==
  CASE row.kind \in {"S", "I"} -> ~unfinished
    [] row.kind = "H" -> unfinished
    [] OTHER -> FALSE

\* unfinished, after the first i rows.
Unfinished(rows, i) == i > 0 /\ rows[i].kind = "I"

Inspect(file) ==
  /\ file.banner /\ file.sav
  /\ \A i \in 1..Len(file.rows) :
       i \notin file.loose /\ Allowed(file.rows[i], Unfinished(file.rows, i - 1))

CompletedRows(rows) == {i \in 1..Len(rows) : rows[i].kind = "H"}

\* Mutant: the Nth H row itself is cut off.
UntilBefore(file, n) ==
  LET hs  == CompletedRows(file.rows)
      cut == CHOOSE i \in hs : Cardinality({j \in hs : j <= i}) = n
  IN  [file EXCEPT !.rows = SubSeq(file.rows, 1, cut - 1)]

\* The report that --until N replays: everything up to the Nth H row.
Until(file, n) ==
  LET hs  == CompletedRows(file.rows)
      cut == CHOOSE i \in hs : Cardinality({j \in hs : j <= i}) = n
  IN  [file EXCEPT !.rows = SubSeq(file.rows, 1, cut)]

=============================================================================

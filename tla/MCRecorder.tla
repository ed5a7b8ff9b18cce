----------------------------- MODULE MCRecorder -----------------------------
(***************************************************************************)
(* A small instance of Recorder for TLC with one machine: the promises about  *)
(* storage do not depend on what the images hold.                            *)
(***************************************************************************)
EXTENDS Recorder

SameStep(m, in, v) == m

OneSaved == {[machine |-> 0, frame |-> 1]}

=============================================================================

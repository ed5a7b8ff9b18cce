------------------------- MODULE MCDiagnosticReplay -------------------------
(***************************************************************************)
(* A small instance of DiagnosticReplay for TLC.                             *)
(***************************************************************************)
EXTENDS DiagnosticReplay

\* Every machine is reached from every other one, by one input or the other,
\* so that a tape that starts from the wrong machine shows a wrong H row.
MixStep(m, in, v) == (m + in + v) % 2
MixSaved == {[machine |-> m, frame |-> f] : m \in {0, 1}, f \in {0, 1}}

=============================================================================

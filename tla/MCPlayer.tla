------------------------------ MODULE MCPlayer ------------------------------
(***************************************************************************)
(* The tapes that TLC replays: every short sequence of rows, and longer      *)
(* recordings that are whole, truncated, or have one row replaced.           *)
(***************************************************************************)
EXTENDS Player

MixStep(m, in, v) == (m + in + v) % 2
ExtendedView(v) == v = 1

SRow(i)        == [kind |-> "S", image |-> i]
IRow(f, in, v) == [kind |-> "I", frame |-> f, input |-> in, view |-> v]
HRow(f, m)     == [kind |-> "H", frame |-> f, machine |-> m]

\* The second image is taken one frame later, the third is damaged
\* and would load something that is no machine.
Image(m, f, ok) == [machine |-> m, frame |-> f, intact |-> ok]
Images == <<Image(0, 0, TRUE), Image(1, 1, TRUE), Image(2, 0, FALSE)>>

AnyRow ==
  {SRow(i) : i \in 1..4}
  \cup {IRow(f, in, v) : f \in {0, 1}, in \in {0, 1}, v \in {0, 1}}
  \cup {HRow(f, m) : f \in {1, 2}, m \in {0, 1}}
  \cup {[kind |-> "X"]}

ShortRows == UNION {[1..n -> AnyRow] : n \in 0..3}

\* Two frames of play, with and without a second image between them.
TwoFrames(in1, v1, in2, v2) ==
  LET m1 == MixStep(0, in1, v1)
  IN  <<SRow(1), IRow(0, in1, v1), HRow(1, m1),
        IRow(1, in2, v2), HRow(2, MixStep(m1, in2, v2))>>
LoadBetween(in1, v1, in2, v2) ==
  <<SRow(1), IRow(0, in1, v1), HRow(1, MixStep(0, in1, v1)),
    SRow(2), IRow(1, in2, v2), HRow(2, MixStep(1, in2, v2))>>

Recordings ==
  {TwoFrames(a, b, c, d) : a, b, c, d \in {0, 1}}
  \cup {LoadBetween(a, b, c, d) : a, b, c, d \in {0, 1}}

LongRows ==
  Recordings
  \cup {SubSeq(r, 1, n) : r \in Recordings, n \in 3..5}
  \cup UNION {{[r EXCEPT ![i] = row] : i \in 1..Len(r), row \in AnyRow} : r \in Recordings}

WholeFile(r) ==
  [replay |-> TRUE, banner |-> TRUE, header |-> TRUE, sav |-> TRUE,
   rows |-> r, loose |-> {}, images |-> Images]

MCTapes ==
  {WholeFile(r) : r \in ShortRows \cup LongRows}
  \cup {[WholeFile(r) EXCEPT !.replay = FALSE] : r \in Recordings}
  \cup {[WholeFile(r) EXCEPT !.header = FALSE] : r \in Recordings}
  \cup {[WholeFile(r) EXCEPT !.sav = FALSE] : r \in Recordings}
  \cup {[WholeFile(r) EXCEPT !.banner = FALSE] : r \in Recordings}
  \cup {[WholeFile(r) EXCEPT !.loose = {i}] : r \in Recordings, i \in {1, 2, 5}}

=============================================================================

---------------------------- MODULE MCRomWindows ----------------------------
(***************************************************************************)
(* Small cartridges: two supported ones that show all four forms, one with   *)
(* code that only looks like them, one with too few and one with too many    *)
(* windows; with the spawn stream, with another revision of it or with none, *)
(* and one whose spawn stream has a window between its signatures.           *)
(***************************************************************************)
EXTENDS RomWindows, MCStreamBody

\* A piece of program: its bytes and the windows in it, addresses from its start.
Code(bytes, windows) == [bytes |-> bytes, windows |-> windows]

Win(form, add, limit, left, right, bias) ==
  [form |-> form, add |-> add, limit |-> limit,
   left |-> left, right |-> right, bias |-> bias]

Compare(k) == <<\hED, \h5D, \h1E, \h18, \h69, Lo(k), Hi(k),
                \hC9, Lo(256 + 2 * k), Hi(256 + 2 * k)>>

Symmetric(k) ==
  Code(<<\hA5, \h05>> \o Compare(k), {Win("window", 7, 10, 0 - k, 256 + k, 0)})
SymmetricSec(k) ==
  Code(<<\hA5, \h05, \h38>> \o Compare(k), {Win("window", 8, 11, 0 - k, 256 + k, 0)})
\* A box whose limit is itself one of the trigger constants when k = $20.
Box(k) ==
  Code(<<\hAD, \h5D, \h1E, \h38, \hE9, Lo(k), Hi(k), \h85, \h08, \h18, \h69,
         Lo(256 + 2 * k), Hi(256 + 2 * k), \h85, \h06, \hA5, \h08, \hC5, \h05>>,
       {Win("box", 5, 11, 0 - k, 256 + k, 0)})
Far(bias) ==
  Code(<<\hAD, \h5D, \h1E, \h69, \h80, 0, \h38, \hE5, \h05, \h18, \h69, bias, 0,
         \hC9, \hC0, \h01>>,
       {Win("distance", 4, 14, 128 + bias - 447, 129 + bias, bias)})
Wake(k) ==
  Code(<<\hAD, \h5D, \h1E, \h18, \h69, Lo(k), Hi(k), \hC5, \h05>>,
       {Win("trigger", 5, 5, 0, k, 0)})
\* The first ADC is not a distance of the list.
LateWake(k) ==
  Code(<<\hAD, \h5D, \h1E, \h69, 8, 0, \h69, Lo(k), Hi(k), \hC5, \h05>>,
       {Win("trigger", 7, 7, 0, k, 0)})

\* Not windows: the other axis, another object's field, a length that does not
\* match, a comparison that belongs to the next camera load.
OtherAxis == Code(<<\hA5, \h08, \hED, \h60, \h1E, \h18, \h69, \h20, 0, \hC9, \h40, \h01>>, {})
OtherField == Code(<<\hA5, \h08>> \o Compare(\h40), {})
OtherLength ==
  Code(<<\hA5, \h05, \hED, \h5D, \h1E, \h18, \h69, \h40, 0, \hC9, \h40, \h01>>, {})
NotCompared ==
  Code(<<\hAD, \h5D, \h1E, \h69, \h60, 0, \hAD, \h60, \h1E, \hC5, \h05>>, {})

MCStreamAt == 140
MCSize == 372
NoStream == Code(<<>>, {})
Moved(w, by) == [w EXCEPT !.add = @ + by, !.limit = @ + by]
Stream(gap) ==
  Code(StreamBody(gap.bytes, WalkerMask), {Moved(w, StreamGap) : w \in gap.windows})
OtherStream == Code(StreamBody(<<>>, <<\hA5, \h00, \h29, \hF0, \hFF>>), {})

Programs ==
  {[pieces |-> <<Symmetric(\h40), OtherAxis, SymmetricSec(\h20), Wake(\h80)>>,
    stream |-> OtherStream],
   [pieces |-> <<Box(\h20), Far(\h20), Wake(\h120)>>, stream |-> Stream(NoStream)],
   [pieces |-> <<OtherLength, NotCompared, OtherField, LateWake(\h40), Box(\h40)>>,
    stream |-> Stream(Symmetric(\h60))],
   [pieces |-> <<Symmetric(\h40), SymmetricSec(\h20)>>, stream |-> Stream(NoStream)],
   [pieces |-> <<Symmetric(\h40), SymmetricSec(\h20), Wake(\h80), Symmetric(\h60)>>,
    stream |-> NoStream]}

\* Where the n-th piece of program p starts.
StartOf(p, n) ==
  3 + FoldLeft(LAMBDA sum, c : sum + Len(c.bytes), 0, SubSeq(p.pieces, 1, n - 1))

\* NOPs, but for the pieces and the routine at $00:DC50.
Image(p) ==
  LET Byte(c, start, a) == c.bytes[a - start + 1]
      Covers(c, start, a) == a >= start /\ a < start + Len(c.bytes)
  IN  [a \in 0..MCSize - 1 |->
        LET here == {n \in DOMAIN p.pieces : Covers(p.pieces[n], StartOf(p, n), a)}
        IN  IF Covers(p.stream, MCStreamAt, a) THEN Byte(p.stream, MCStreamAt, a)
            ELSE IF here = {} THEN \hEA
            ELSE LET n == CHOOSE n \in here : TRUE IN Byte(p.pieces[n], StartOf(p, n), a)]

WindowsOf(p) ==
  {Moved(w, MCStreamAt) : w \in p.stream.windows} \cup
  UNION {{Moved(w, StartOf(p, n)) : w \in p.pieces[n].windows} : n \in DOMAIN p.pieces}

MCCarts == {Image(p) : p \in Programs}
MCAuthored == [c \in MCCarts |-> WindowsOf(CHOOSE p \in Programs : Image(p) = c)]
MCExtras == {0, 1, 43, 214}
MCProbes == -800..1000
=============================================================================

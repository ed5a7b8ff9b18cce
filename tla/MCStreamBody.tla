---------------------------- MODULE MCStreamBody ----------------------------
(* The routine at $00:DC50 for the instances of SpawnStream and RomWindows.   *)
(* What lies between the signatures is not compared: it is NOPs here, after   *)
(* the code that an instance puts behind the right arm.                       *)
EXTENDS StreamRom

Pad(bytes, n) == bytes \o [i \in 1..(n - Len(bytes)) |-> \hEA]

StreamGap == \h3F

\* Ends in another mask in a revision that is not supported.
StreamBody(gap, mask) ==
  Pad(Pad(Pad(Pad(Entry, \h16) \o LeftState, \h36) \o Right \o gap, \h78) \o Grid, \hA2)
    \o mask
=============================================================================

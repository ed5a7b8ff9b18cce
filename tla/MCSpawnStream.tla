---------------------------- MODULE MCSpawnStream ----------------------------
(* Small instances of SpawnStream: records at both ends of every column, and  *)
(* a camera that is moved by odd and even steps in both directions.           *)
EXTENDS SpawnStream, MCStreamBody

\* Two open stages, the Boss Rush among them, and the one with Serges' platform.
MCStages == {<<0, 0>>, <<12, 0>>, <<10, 0>>}
MCZeroStage == {<<5, 4>>}
MCOpenStage == {<<0, 0>>}

\* The routine at $00:DC50.
MCBody == StreamBody(<<>>, WalkerMask)

MCMoves == {-31, -8, 0, 5, 31}

\* The camera of an open stage, and of the approach of the two doors.
MCCameras == 350..420 \cup 2160..2300
MCZeroCameras == 3040..3200
MCResizeCameras == 64..320

MCRecordsFrom(first, last) ==
  {32 * k : k \in first..last} \cup {32 * k + 31 : k \in first..last}
MCRecords == MCRecordsFrom(5, 28) \cup MCRecordsFrom(80, 84)
MCZeroRecords == {3704}
MCResizeRecords == MCRecordsFrom(0, 20)
=============================================================================

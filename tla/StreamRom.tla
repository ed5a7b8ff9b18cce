----------------------------- MODULE StreamRom -----------------------------
(***************************************************************************)
(* src/x2_rtl.c, the spawn-stream routine $00:DC50 as bytes: the signature   *)
(* that x2_scan_ws_spawn_stream compares and the four sites that             *)
(* x2_patch_ws_interp_spawn_stream writes.  SpawnStream says what the guest  *)
(* computes with them, RomWindows what else is written in the same copy.     *)
(***************************************************************************)
EXTENDS Integers, Sequences

\* The bytes from address a on are those of s.
Has(image, a, s) == \A n \in 1..Len(s) : image[a + n - 1] = s[n]

Entry      == <<\h8B, \h0B, \h08, \hC2, \h30, \hA9, \h00, \h00, \h5B, \hAD, \h7A,
                \h1E, \hCD, \h5D, \h1E, \h30, \h16>>
LeftArm    == <<\hAD, \h5D, \h1E, \h85, \h00, \h80, \h18>>
LeftState  == <<\hAD, \h5D, \h1E, \h29, \hE0, \hFF, \hC5, \h00, \hF0, \h30>> \o LeftArm
Right      == <<\hAD, \h5D, \h1E, \h18, \h69, \h00, \h01, \h85, \h00>>
Grid       == <<\hAD, \h5D, \h1E, \h38, \hE9, \h20, \h00, \h85, \h00, \hA9, \h0A,
                \h00, \h85, \h06>>
WalkerMask == <<\hA5, \h00, \h29, \hE0, \hFF>>

StreamLength == \hA7

\* The routine is at address body of the image.
IsStream(image, body) ==
  /\ Has(image, body, Entry) /\ Has(image, body + \h16, LeftState)
  /\ Has(image, body + \h36, Right) /\ Has(image, body + \h78, Grid)
  /\ Has(image, body + \hA2, WalkerMask)

\* Mutant: inward, as before the fix for the slot-3 frog.
RoundInward(m) == m - (m % 32)

\* The margin in whole columns, so that no part of it is lost.
RoundOut(m) == (m + 31) - ((m + 31) % 32)

\* Padding and number of the columns of a sweep.
GridPad(extra) == IF extra = 0 THEN 32 ELSE extra
GridColumns(extra) == IF extra = 0 THEN 10 ELSE 9 + 2 * (extra \div 32)

Lo(n) == n % 256
Hi(n) == (n \div 256) % 256
Operand(n) == <<Lo(n), Hi(n)>>

\* SBC #operand; NOP; JMP $DC8D
SbcArm(operand) == <<\hE9, Lo(operand), Hi(operand), \hEA, \h4C, \h8D, \hDC>>

\* The four sites of a frame whose frontier is extra pixels beyond the native.
StreamPatch(extra) ==
  [left_arm |-> IF extra = 0 THEN LeftArm ELSE SbcArm(extra - 1),
   right |-> Operand(256 + extra),
   grid |-> Operand(GridPad(extra)), columns |-> Operand(GridColumns(extra))]
=============================================================================

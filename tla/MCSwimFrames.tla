---------------------------- MODULE MCSwimFrames ----------------------------
(***************************************************************************)
(* SwimFrames for TLC: every byte and command, at clocks from the fastest  *)
(* target whose synchronization frame is accepted to the slowest, with     *)
(* those of the STM8 (16 us, 8 MHz), the last before and the first after   *)
(* the clock divider reaches 1, and a refused frame at either end.         *)
(***************************************************************************)
EXTENDS SwimFrames

MCSyncLows ==
  {6976, 7040, 8064, 8192, 12032, 16000, 16640, 128000, 299968, 300032}
MCBytes == Words(8)
MCCommands == Words(3)
=============================================================================

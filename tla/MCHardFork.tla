----------------------------- MODULE MCHardFork -----------------------------
(***************************************************************************)
(* Small instances of HardFork: fork tables like those of hardforks.cpp.   *)
(***************************************************************************)
EXTENDS HardFork

Fork(v, h, t) == [version |-> v, height |-> h, threshold |-> t]

(* As on the test networks: version 1 from height 1, no voting.            *)
ScheduledForks == <<Fork(1, 1, 0), Fork(2, 3, 0), Fork(3, 4, 0)>>

(* The table of the main network of this program.                          *)
MainnetForks == <<Fork(12, 0, 0)>>
=============================================================================

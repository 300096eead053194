---------------------------- MODULE MC_FastGhost ----------------------------
(* One file in a directory of the root, one change and one catch-up scan.  *)
EXTENDS FastScan, TLC

CONSTANTS d1, b1

MCDirOf == b1 :> d1
=============================================================================

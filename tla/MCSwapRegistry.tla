-------------------------- MODULE MCSwapRegistry --------------------------
(* A small instance of SwapRegistry: two threads, two files, three fresh   *)
(* mappings (so that a file is mapped again after its eviction) and up to  *)
(* two handles per mapping.                                                *)
EXTENDS SwapRegistry, TLC

CONSTANTS t1, t2, p1, p2

MCThread == {t1, t2}
MCPath == {p1, p2}
MCDeviceBytes == {0, 5}

===========================================================================

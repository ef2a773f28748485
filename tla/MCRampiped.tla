---------------------------- MODULE MCRampiped ----------------------------
(* Small instances of Rampiped: a small and a large model on a device that *)
(* cannot hold both and a context, and a host that is sometimes short.     *)
EXTENDS Rampiped, TLC

CONSTANTS c1, c2, small, large

TwoConn == {c1, c2}
MCPath == {small, large}
MCSize == (small :> 2) @@ (large :> 4)
SometimesShort == {1, None}
AlwaysShort == {1}

AllKinds == {"generate", "embed", "open", "status"}
GenerateAndOpen == {"generate", "open"}

===========================================================================

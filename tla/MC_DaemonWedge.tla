-------------------------- MODULE MC_DaemonWedge ---------------------------
(* A second root is added while the files of the first fill the queue.     *)
EXTENDS IndexerDaemon

CONSTANTS p1, r1, r2

MCRootOf == [p \in {p1} |-> r1]
=============================================================================

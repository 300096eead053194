--------------------------- MODULE MC_DaemonDead ---------------------------
(* The daemon is refreshed while its worker handles a file.                *)
EXTENDS IndexerDaemon

CONSTANTS p1, r1

MCRootOf == [p \in {p1} |-> r1]
=============================================================================

----------------------------- MODULE MC_Daemon -----------------------------
(* One root with one file; calls of every kind, a queue of two, joins that *)
(* time out, exceptions and bursts.                                        *)
EXTENDS IndexerDaemon

CONSTANTS p1, r1

MCRootOf == [p \in {p1} |-> r1]
=============================================================================

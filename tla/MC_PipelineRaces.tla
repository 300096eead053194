------------------------- MODULE MC_PipelineRaces -------------------------
(* Files written, touched and removed at any moment while they are being   *)
(* indexed, one text too large for the watcher; renames when the index is  *)
(* at rest; no copies.                                                     *)
EXTENDS IndexPipeline

CONSTANTS p1, p2, a, b, huge

MCPath  == {p1, p2}
MCText  == {a, b, huge}
MCParts == [c \in MCText |-> IF c = a THEN 1 ELSE 2]
=============================================================================

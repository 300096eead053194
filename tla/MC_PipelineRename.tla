------------------------- MODULE MC_PipelineRename ------------------------
(* Copies and renames, each made when the index is at rest.                *)
EXTENDS IndexPipeline

CONSTANTS p1, p2, p3, a

MCPath  == {p1, p2, p3}
MCParts == [c \in {a} |-> 1]
=============================================================================

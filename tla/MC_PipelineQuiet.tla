------------------------- MODULE MC_PipelineQuiet -------------------------
(* Copies of files, empty files and files too large to index, changed only *)
(* when the index is at rest; calls of index.forget, exceptions and        *)
(* crashes come at any moment.                                             *)
EXTENDS IndexPipeline, TLC

CONSTANTS p1, p2, a, b, empty, large

MCPath  == {p1, p2}
MCText  == {a, b, empty, large}
MCParts == [c \in MCText |-> CASE c = a -> 1 [] c = empty -> 0 [] OTHER -> 2]

PathSymmetry == Permutations(MCPath)
=============================================================================

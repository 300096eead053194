-------------------------- MODULE MC_PipelineCrash ------------------------
(* One file, one crash, and the catch-up scan of the restarted daemon.     *)
EXTENDS IndexPipeline

CONSTANTS p1, a

MCParts == [c \in {a} |-> 1]
=============================================================================

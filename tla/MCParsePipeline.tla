--------------------------- MODULE MCParsePipeline ---------------------------
(***************************************************************************)
(* Ten blocks in two files, batches of one or two, one worker or two.      *)
(***************************************************************************)
EXTENDS ParsePipelineInv

MCFileEnds == {4, 10}
=============================================================================

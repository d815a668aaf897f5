--------------------------- MODULE MCBatchPipeline ---------------------------
(* BatchPipeline on a small instance: three batches, the last one partial, *)
(* and jobs of one worker (whose channels fill up) or of two.              *)
EXTENDS BatchPipeline

CONSTANTS w1, w2

MCWorkers == {w1, w2}
MCPools   == {{w1}, {w1, w2}}
=============================================================================

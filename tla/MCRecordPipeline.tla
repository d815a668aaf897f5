-------------------------- MODULE MCRecordPipeline --------------------------
(* RecordPipeline on small instances.  The workers are interchangeable:    *)
(* Symmetry is used by the runs that check no liveness property.           *)
EXTENDS RecordPipeline, TLC

Symmetry == Permutations(Workers)
=============================================================================

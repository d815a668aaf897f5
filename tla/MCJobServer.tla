---------------------------- MODULE MCJobServer ----------------------------
(* JobServer on small instances.  Jobs from the same source are alike, and *)
(* so are clients; used by the runs that check no liveness property.       *)
EXTENDS JobServer, TLC

Symmetry == Permutations(Jobs \ Watched) \cup Permutations(Clients)
=============================================================================

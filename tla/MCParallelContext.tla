------------------------- MODULE MCParallelContext -------------------------
(* ParallelContext on small instances.                                     *)
EXTENDS ParallelContext
=============================================================================

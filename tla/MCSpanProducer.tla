--------------------------- MODULE MCSpanProducer ---------------------------
(* The producer for TLC.  Every bound is a constant of the specification,  *)
(* given in the cfg files; a start is bounded by StartBound alone.         *)
EXTENDS SpanProducer
=============================================================================

--------------------------- MODULE MCSpanSampling ---------------------------
(* SpanSampling on a small instance.                                       *)
EXTENDS SpanSampling
=============================================================================

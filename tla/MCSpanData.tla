----------------------------- MODULE MCSpanData -----------------------------
(* SpanData for TLC: two attribute keys, interchangeable.                  *)
EXTENDS SpanData, TLC

KeySymmetry == Permutations(Keys)
=============================================================================

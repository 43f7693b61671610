---------------------------- MODULE MCSdtBridge -----------------------------
(* SdtBridge: handles are only compared with each other.                   *)
EXTENDS SdtBridge, TLC

SpanSymmetry == Permutations(Spans)
=============================================================================

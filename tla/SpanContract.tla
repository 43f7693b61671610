---------------------------- MODULE SpanContract ----------------------------
(***************************************************************************)
(* What otel_api promises an exporter and a tracer about recording spans,  *)
(* with no slots, stack or transactions: a span is started at most once,   *)
(* and from then on either reaches the exporter exactly once or is dropped *)
(* and never does.  A span that is refused or not sampled is dropped       *)
(* without ever having been open.                                          *)
(***************************************************************************)
EXTENDS Naturals

CONSTANT Span

VARIABLES status, exports

contractVars == <<status, exports>>

Status == {"new", "open", "exported", "dropped"}

Init ==
    /\ status = [g \in Span |-> "new"]
    /\ exports = [g \in Span |-> 0]

Start(g) ==
    /\ status[g] = "new"
    /\ status' = [status EXCEPT ![g] = "open"]
    /\ UNCHANGED exports

Export(g) ==
    /\ status[g] = "open"
    /\ status' = [status EXCEPT ![g] = "exported"]
    /\ exports' = [exports EXCEPT ![g] = @ + 1]

Drop(g) ==
    /\ status[g] \in {"new", "open"}
    /\ status' = [status EXCEPT ![g] = "dropped"]
    /\ UNCHANGED exports

Next == \E g \in Span : Start(g) \/ Export(g) \/ Drop(g)

Spec == Init /\ [][Next]_contractVars
=============================================================================

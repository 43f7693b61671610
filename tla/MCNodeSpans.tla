----------------------------- MODULE MCNodeSpans -----------------------------
(* NodeSpans with two queries.  The first has a Gather over a Sort or, at  *)
(* the same addresses, a node of no interest over a function scan and a    *)
(* foreign scan; the second is a function scan.                            *)
EXTENDS NodeSpans, TLC

Node(kind, up) == [kind |-> kind, up |-> up]

MCPlans ==
    (1 :> {<<Node("span", 0), Node("sort", 1)>>,
           <<Node("other", 0), Node("span", 1), Node("fdw", 1)>>}) @@
    (2 :> {<<Node("span", 0)>>})
=============================================================================

----------------------------- MODULE MCPlanPath ------------------------------
(* PlanPath with nodes that differ in every respect the accumulator looks  *)
(* at: ties in time per loop with different totals, estimates on both      *)
(* sides of the threshold, and nodes that spilled without being executed.  *)
EXTENDS PlanPath

Plain == [tag |-> 0, kind |-> "other", parts |-> <<>>, planned |-> 0,
          launched |-> 0, lossy |-> 0, nloops |-> 0, total |-> 0,
          plan_rows |-> 0, ntuples |-> 0, buffers |-> 0]

MCPart(done, disk, space) == [done |-> done, disk |-> disk, space |-> space]

MCNodes ==
    {[Plain EXCEPT !.tag = 1, !.kind = "sort", !.nloops = 1, !.total = 3,
                   !.plan_rows = 10, !.ntuples = 1,
                   !.parts = <<MCPart(TRUE, TRUE, 3), MCPart(FALSE, TRUE, 9),
                               MCPart(TRUE, TRUE, 4), MCPart(TRUE, FALSE, 8)>>],
     [Plain EXCEPT !.tag = 2, !.kind = "hash", !.nloops = 2, !.total = 6,
                   !.plan_rows = 0, !.ntuples = 22, !.buffers = 2,
                   !.parts = <<MCPart(TRUE, FALSE, 1025), MCPart(TRUE, TRUE, 10)>>],
     [Plain EXCEPT !.tag = 3, !.kind = "hashagg",
                   !.parts = <<MCPart(TRUE, FALSE, 5), MCPart(TRUE, TRUE, 0)>>],
     [Plain EXCEPT !.tag = 4, !.kind = "store", !.nloops = 3, !.total = 0,
                   !.plan_rows = 33, !.ntuples = 2, !.buffers = 1,
                   !.parts = <<MCPart(TRUE, TRUE, 1024)>>],
     [Plain EXCEPT !.tag = 5, !.kind = "gather", !.planned = 2, !.launched = 1,
                   !.nloops = 1, !.total = 7, !.plan_rows = 1, !.ntuples = 11],
     [Plain EXCEPT !.tag = 6, !.kind = "gather", !.planned = 3, !.launched = 0],
     [Plain EXCEPT !.tag = 7, !.kind = "bitmap", !.lossy = 4, !.nloops = 4,
                   !.total = 8, !.plan_rows = 1, !.ntuples = 1, !.buffers = 3]}
=============================================================================

------------------------- MODULE MCStatementTracing -------------------------
(* StatementTracing on a small instance: see the configuration.            *)
EXTENDS StatementTracing

(* Bounds of the exploration.  A nested utility command that declares      *)
(* nothing only takes a frame, but where all are commands of procedures,   *)
(* which may end the transaction.  A subtransaction begun with every frame *)
(* taken encloses no statement.                                            *)
InstanceBound ==
    /\ \A k \in 2..Depth :
         frames[k].kind = "util" /\ frames[k].name = 0 =>
             \A f \in Items(frames) : f.kind = "util" /\ f.name = 0
    /\ level > 1 => Last(bases) < MAX_FRAMES
=============================================================================

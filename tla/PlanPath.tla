------------------------------ MODULE PlanPath -------------------------------
(***************************************************************************)
(* Plan actuals of a statement (otel_postgres_tracing/otel_planpath.c): a  *)
(* walk over the plan's nodes at ExecutorEnd adds them up in an            *)
(* accumulator that outlives the walk, puts the sums and the worst nodes   *)
(* on the statement's span, and may add one event per node.  Only the      *)
(* order of the walk matters here, not the shape of the plan.              *)
(* Definitions whose names end in _m are faulty variants that no           *)
(* specification uses.                                                     *)
(***************************************************************************)
EXTENDS Naturals, Sequences, FiniteSets, SequencesExt

CONSTANTS
    SampleNodes,            \* plan nodes a walk may meet
    N_SLOWEST,              \* slots of accum.slowest
    MISESTIMATE_THRESHOLD,
    MAX_NODES               \* bound: nodes of a plan

(* What a node's parts, its own state and its parallel workers', say of    *)
(* spilling: done with work, on disk (more than one batch), and the space, *)
(* kB of a Sort or HashAgg, bytes of the others.                           *)
Part == [done : BOOLEAN, disk : BOOLEAN, space : Nat]

(* "store": Material and WindowAgg.  nloops is 0 also where the node has   *)
(* no instrumentation; total is in ms, over all loops.                     *)
PlanNode ==
    [tag : Nat, kind : {"sort", "hashagg", "hash", "store", "gather", "bitmap",
                        "other"},
     parts : Seq(Part), planned : Nat, launched : Nat, lossy : Nat,
     nloops : Nat, total : Nat, plan_rows : Nat, ntuples : Nat, buffers : Nat]

ASSUME PlanPathAssumption ==
    /\ SampleNodes \subseteq PlanNode
    /\ N_SLOWEST \in Nat \ {0} /\ MISESTIMATE_THRESHOLD \in Nat
    /\ MAX_NODES \in Nat

VARIABLES
    accum,      \* PlanpathAccum
    walk,       \* the walk's gates, and whether it is over
    attrs,      \* attributes on the statement's span
    events,     \* tags of the span's pg.plan.node events
    visited     \* history: nodes of this walk

vars == <<accum, walk, attrs, events, visited>>

-----------------------------------------------------------------------------
(* Data.                                                                   *)

(* Fractions, by numerator and denominator.                                *)
Exceeds(x, y) == x[1] * y[2] > y[1] * x[2]

(* worst and each of slowest: [tag, val]; shortfall: empty, or the planned *)
(* and launched workers.  A slot whose total_ms is 0 is empty.             *)
EmptyAccum ==
    [spilled |-> FALSE, spill_kb |-> 0, shortfall |-> <<>>,
     worst |-> [tag |-> 0, val |-> <<0, 1>>], lossy |-> 0, buffers |-> 0,
     node_count |-> 0, slowest |-> <<>>]

NoAttrs == [set |-> FALSE]

BYTES_TO_KB(b) == (b + 1023) \div 1024
SumOf(s)       == FoldLeft(LAMBDA x, y : x + y, 0, s)
MaxOf(s)       == FoldLeft(LAMBDA x, y : IF x > y THEN x ELSE y, 0, s)
Spaces(parts)  == [k \in 1..Len(parts) |-> parts[k].space]

(* The switch of planpath_node_end: has the node spilled, and how many kB. *)
SpiltParts(n) ==
    SelectSeq(n.parts, LAMBDA p :
        p.disk /\ (n.kind \in {"sort", "hashagg"} => p.done))

HasSpilled(n) ==
    n.kind \in {"sort", "hashagg", "hash", "store"} /\ SpiltParts(n) # <<>>

(* A Hash takes the peak over its participants.                            *)
SpillKb(n) ==
    CASE n.kind = "hash"  -> BYTES_TO_KB(MaxOf(Spaces(n.parts)))
      [] n.kind = "store" -> BYTES_TO_KB(SumOf(Spaces(SpiltParts(n))))
      [] OTHER            -> SumOf(Spaces(SpiltParts(n)))

(* maybe_insert_slowest: before the first slot it beats; the last falls    *)
(* off.                                                                    *)
maybe_insert_slowest_m(slowest, tag, ms) ==
    LET new == [tag |-> tag, val |-> ms]
        beaten == {k \in 1..Len(slowest) : Exceeds(ms, slowest[k].val)}
    IN IF beaten # {}
       THEN [slowest EXCEPT ![CHOOSE k \in beaten : \A j \in beaten : k <= j] = new]
       ELSE IF Len(slowest) < N_SLOWEST /\ ms[1] > 0 THEN Append(slowest, new)
       ELSE slowest

maybe_insert_slowest(slowest, tag, ms) ==
    LET kept == SelectSeq(slowest, LAMBDA e : ~Exceeds(ms, e.val))
        at   == Len(kept) + 1
    IN IF at > N_SLOWEST \/ ms[1] = 0 THEN slowest
       ELSE LET all == InsertAt(slowest, at, [tag |-> tag, val |-> ms])
            IN SubSeq(all, 1, IF Len(all) > N_SLOWEST THEN N_SLOWEST ELSE Len(all))

(* The larger row count over the smaller, each at least one.               *)
RowRatio(n) ==
    LET plan   == IF n.plan_rows < 1 THEN 1 ELSE n.plan_rows
        actual == IF n.ntuples < n.nloops THEN <<1, 1>> ELSE <<n.ntuples, n.nloops>>
    IN IF Exceeds(<<plan, 1>>, actual)
       THEN <<plan * actual[2], actual[1]>>
       ELSE <<actual[1], plan * actual[2]>>

(* The part of planpath_node_end for every node, and the one for a node    *)
(* with instrumentation that was executed.                                 *)
Inspected(a, n) ==
    [a EXCEPT !.node_count = @ + 1,
              !.spilled = @ \/ HasSpilled(n),
              !.spill_kb = @ + IF HasSpilled(n) THEN SpillKb(n) ELSE 0,
              !.shortfall = IF /\ n.kind = "gather" /\ @ = <<>>
                               /\ n.launched < n.planned
                            THEN <<n.planned, n.launched>> ELSE @,
              !.lossy = @ + IF n.kind = "bitmap" THEN n.lossy ELSE 0]

Measured(a, n) ==
    [a EXCEPT !.buffers = @ + n.buffers,
              !.slowest = maybe_insert_slowest(@, n.tag, <<n.total, n.nloops>>),
              !.worst = IF Exceeds(RowRatio(n), @.val)
                        THEN [tag |-> n.tag, val |-> RowRatio(n)] ELSE @]

(* planpath_end_walk_end: what is put on a recording span.                 *)
Rollup(a) ==
    [set |-> TRUE,
     spill |-> IF a.spilled THEN <<a.spill_kb>> ELSE <<>>,
     workers |-> a.shortfall,
     misestimate |-> IF Exceeds(a.worst.val, <<MISESTIMATE_THRESHOLD, 1>>)
                     THEN <<a.worst>> ELSE <<>>,
     lossy |-> a.lossy, buffers |-> a.buffers, node_count |-> a.node_count,
     slowest |-> a.slowest]

-----------------------------------------------------------------------------
(* The walk.  planpath_enabled is asked once; the settings cannot change   *)
(* during it.                                                              *)

NoWalk == [on |-> FALSE, stats |-> FALSE, events |-> FALSE, recording |-> FALSE]

(* What planpath_end_walk_begin makes of the accumulator.                  *)
ResetAccum_m(a) == [EmptyAccum EXCEPT !.shortfall = a.shortfall]
ResetAccum(a)   == EmptyAccum

(* An end walk with the collector enabled: the span is a new statement's.  *)
WalkBegins(stats, node_events, recording) ==
    /\ ~walk.on
    /\ stats \/ node_events
    /\ walk' = [on |-> TRUE, stats |-> stats, events |-> node_events,
                recording |-> recording]
    /\ accum' = ResetAccum(accum)
    /\ attrs' = NoAttrs
    /\ events' = <<>>
    /\ visited' = <<>>

planpath_node_end(n) ==
    LET executed == n.nloops > 0 IN
    /\ walk.on /\ Len(visited) < MAX_NODES
    /\ accum' = IF executed THEN Measured(Inspected(accum, n), n)
                ELSE Inspected(accum, n)
    /\ events' = IF executed /\ walk.events /\ walk.recording
                 THEN Append(events, n.tag) ELSE events
    /\ visited' = Append(visited, n)
    /\ UNCHANGED <<walk, attrs>>

planpath_end_walk_end ==
    /\ walk.on
    /\ attrs' = IF walk.recording THEN Rollup(accum) ELSE attrs
    /\ walk' = [walk EXCEPT !.on = FALSE]
    /\ UNCHANGED <<accum, events, visited>>

(* An ERROR in the walk, such as that of InstrEndLoop for a node still     *)
(* running: the accumulator stays as it is.                                *)
WalkFails ==
    /\ walk.on
    /\ walk' = NoWalk
    /\ UNCHANGED <<accum, attrs, events, visited>>

Init ==
    /\ accum = EmptyAccum /\ walk = NoWalk
    /\ attrs = NoAttrs /\ events = <<>> /\ visited = <<>>

Next ==
    \/ \E s, e, r \in BOOLEAN : WalkBegins(s, e, r)
    \/ \E n \in SampleNodes : planpath_node_end(n)
    \/ planpath_end_walk_end \/ WalkFails

Spec == Init /\ [][Next]_vars

-----------------------------------------------------------------------------
(* Properties.                                                             *)

Executed == {i \in 1..Len(visited) : visited[i].nloops > 0}
Spillers == {i \in 1..Len(visited) : HasSpilled(visited[i])}
Short    == {i \in 1..Len(visited) :
               visited[i].kind = "gather"
               /\ visited[i].launched < visited[i].planned}
Total(f(_), S) == FoldSet(LAMBDA i, x : x + f(visited[i]), 0, S)

(* The tag of the node that a misestimate has to name, if there is one:    *)
(* the first of those whose estimate and average row count, each taken as  *)
(* at least one, are furthest apart, and more than the threshold.          *)
Misestimated ==
    LET plan(n) == Max({n.plan_rows, 1}) * n.nloops
        rows(n) == Max({n.ntuples, n.nloops})
        far(n)  == \/ plan(n) > MISESTIMATE_THRESHOLD * rows(n)
                   \/ rows(n) > MISESTIMATE_THRESHOLD * plan(n)
        apart(n) == <<Max({plan(n), rows(n)}), Min({plan(n), rows(n)})>>
        off     == {i \in Executed : far(visited[i])}
        worst   == {i \in off : \A j \in off :
                      ~Exceeds(apart(visited[j]), apart(visited[i]))}
    IN IF off = {} THEN <<>> ELSE <<visited[Min(worst)].tag>>

(* The rollup on the statement's span is that of its own plan's nodes,     *)
(* whatever earlier walks, finished or failed, left in the accumulator:    *)
(* nodes that never ran count as nodes and can spill or miss workers but   *)
(* add no buffers, a spill is the kB of all participants that wrote to     *)
(* disk, for a Hash the largest participant's memory, the workers are      *)
(* those of the first node that got fewer than planned, and a misestimate  *)
(* is reported exactly where there is one, for the worst node.             *)
RollupIsOwn ==
    LET kb(n) == IF n.kind \in {"hash", "store"}
                 THEN BYTES_TO_KB(Max({p.space : p \in ToSet(n.parts)}))
                 ELSE FoldSet(LAMBDA k, x : x + n.parts[k].space, 0,
                              {k \in 1..Len(n.parts) :
                                 n.parts[k].done /\ n.parts[k].disk})
        buf(n) == n.buffers
        lossy(n) == IF n.kind = "bitmap" THEN n.lossy ELSE 0
    IN attrs.set =>
        /\ attrs.node_count = Len(visited)
        /\ attrs.spill = IF Spillers = {} THEN <<>> ELSE <<Total(kb, Spillers)>>
        /\ attrs.buffers = Total(buf, Executed)
        /\ attrs.lossy = Total(lossy, 1..Len(visited))
        /\ attrs.workers =
             IF Short = {} THEN <<>>
             ELSE LET n == visited[Min(Short)] IN <<n.planned, n.launched>>
        /\ [k \in 1..Len(attrs.misestimate) |-> attrs.misestimate[k].tag]
             = Misestimated

(* i comes before j in the list of slow nodes: it took longer per loop or, *)
(* at equal times, was visited first.                                      *)
SlowerThan(i, j) ==
    LET t(k) == <<visited[k].total, visited[k].nloops>> IN
    Exceeds(t(i), t(j)) \/ (~Exceeds(t(j), t(i)) /\ i < j)

(* The slowest nodes on the span are the N_SLOWEST first of the executed   *)
(* nodes that took any time, in descending order.                          *)
SlowestAreRanked ==
    LET timed == {i \in Executed : visited[i].total > 0}
        rank(i) == Cardinality({j \in timed : j # i /\ SlowerThan(j, i)}) + 1
    IN attrs.set =>
        /\ Len(attrs.slowest) = Min({N_SLOWEST, Cardinality(timed)})
        /\ \A i \in timed : rank(i) <= N_SLOWEST =>
             attrs.slowest[rank(i)].tag = visited[i].tag

-----------------------------------------------------------------------------
(* What comments of the code say and the code does not do: none of the     *)
(* statements below holds of this model.                                   *)

(* What the comment in planpath_enabled says: the rollup and the events    *)
(* are independent of each other.                                          *)
RollupNeedsStats == attrs.set => walk.stats

(* What the comment on SlowNode.total_ms says: the nodes are ranked by     *)
(* their total actual time.                                                *)
RankedByTotal ==
    attrs.set => \A i, j \in 1..Len(attrs.slowest) :
        i < j => attrs.slowest[i].val[1] >= attrs.slowest[j].val[1]
=============================================================================

------------------------------ MODULE NodeSpans ------------------------------
(***************************************************************************)
(* Spans of plan nodes: the plan walk (otel_postgres_tracing/              *)
(* otel_planwalk.c), curated child spans and sort wrappers                 *)
(* (otel_planspans.c) and foreign scans (otel_fdw.c).  Each keeps a stack  *)
(* of entries that are found again by the node's address and dropped by    *)
(* the transaction level they were pushed at.                              *)
(*                                                                         *)
(* A query is a portal's, or nested: run from its ExecutorStart to its     *)
(* ExecutorEnd inside another's run, as SPI does.  A portal without nodes  *)
(* stands for one that runs its statements as nested queries or calls      *)
(* (INSERT, CALL).  Node <<q, i>> is the address of the i-th node of query *)
(* q, and is used again when q is.  Statement spans are StatementTracing's;*)
(* otel_api's store is reduced to which nodes have an open span, and under *)
(* which parent, and to who owns what a query leaves open.                 *)
(* Definitions whose names end in _m are faulty variants that no           *)
(* specification uses.                                                     *)
(***************************************************************************)
EXTENDS Naturals, Sequences, FiniteSets, FiniteSetsExt, Stacks

CONSTANTS
    Queries,                    \* query names
    Plans,                      \* plan trees a query may have, nodes in
                                \* the order of the walk
    OTEL_PLANSPANS_STACK_MAX,   \* entries of planspans_ and sortwrap_stack
    OTEL_FDW_SCAN_STACK_MAX,    \* entries of fdw_scan_stack
    OTEL_PLANWALK_MAX_ANCESTORS,\* ancestors that a walk passes on
    CORE_HOOKS,                 \* core has the ForeignScan hooks (PG19)
    MAX_LEVEL,                  \* bound: transaction nesting
    MAX_FRAMES,                 \* bound: nested executor calls
    MAX_DEAD                    \* bound: dead entries a new query meets

(* A node has a kind and the index of its parent, 0 for the root: "span"   *)
(* is a kind that planspans_span_name knows.                               *)
NodeKind == {"span", "sort", "fdw", "other"}
PlanNode == [kind : NodeKind, up : Nat]

ASSUME NodeSpansAssumption ==
    /\ 0 \notin Queries
    /\ \A q \in Queries : \A p \in Plans[q] :
         p \in Seq(PlanNode) /\ \A i \in 1..Len(p) : p[i].up < i
    /\ OTEL_PLANSPANS_STACK_MAX \in Nat /\ OTEL_FDW_SCAN_STACK_MAX \in Nat
    /\ OTEL_PLANWALK_MAX_ANCESTORS \in Nat
    /\ CORE_HOOKS \in BOOLEAN
    /\ MAX_LEVEL \in Nat \ {0} /\ MAX_FRAMES \in Nat
    /\ MAX_DEAD \in Nat

VARIABLES
    child_spans,        \* otel.trace_plan_child_spans
    planspans_stack,    \* last = top
    sortwrap_stack,
    fdw_scan_stack,
    level,              \* core: transaction nest level
    bases,              \* core: frames below each open subtransaction
    frames,             \* core: executor calls in progress; last = innermost
    queries,            \* core: open queries
    sorts,              \* core: what a Sort node's first call has come to
    spans,              \* otel_api: each node's open span
    minted              \* history: Sorts spanned by the step, a query's end

stackVars == <<planspans_stack, sortwrap_stack, fdw_scan_stack>>
coreVars  == <<level, bases, frames, queries, sorts>>
vars == <<child_spans, stackVars, coreVars, spans, minted>>

-----------------------------------------------------------------------------
(* Data.                                                                   *)

NodesOf(q, plan) == [i \in 1..Len(plan) |-> <<q, i>>]
NodesLike(q, plan, K) == {n \in Items(NodesOf(q, plan)) : plan[n[2]].kind \in K}
Nodes == UNION {UNION {Items(NodesOf(q, p)) : p \in Plans[q]} : q \in Queries}

(* moved is history: released into an outer level since it started.        *)
Query   == [plan : UNION {Plans[q] : q \in Queries}, lev : 1..MAX_LEVEL,
            failed : BOOLEAN, moved : BOOLEAN]
Closed  == [plan |-> <<>>, lev |-> 0, failed |-> FALSE, moved |-> FALSE]

(* A node's open span, by its parent: the statement's span, a node's, one  *)
(* that a query left open (see NodeEntry), or whatever else is active.     *)
Stmt    == <<0, 0>>
NoSpan  == <<0, 1>>
Left    == <<0, 2>>
Outer   == <<0, 3>>
Parent  == Nodes \union {Stmt, Left, Outer}

(* The statement's span, as ExecutorStart finds it: not recording;         *)
(* recording, but not what otel_span_current returns, as a detached one    *)
(* is; or current.                                                         *)
StmtSpan == {"none", "aside", "current"}

(* Resource owners: a portal's query's, or that of a transaction level.    *)
Owner  == (Queries \X {0}) \union ({0} \X (1..MAX_LEVEL))
Nobody == <<0, 0>>

(* A ref is never taken for another span's (SpanProducer).  A dead entry   *)
(* has outlived its node; its span is still open if somebody holds it.     *)
NodeEntry == {e \in [node : Nodes, subxact_level : 1..MAX_LEVEL,
                    dead : BOOLEAN, held : Owner \union {Nobody}] :
                e.dead \/ e.held = Nobody}
SortEntry == [node : Nodes, ended : BOOLEAN, subxact_level : 1..MAX_LEVEL,
              dead : BOOLEAN]

(* "plain": ExecProcNode is the executor's own.  "wrapped", "called",      *)
(* "done": sortwrap_exec is to be called, is running, has returned.        *)
SortStatus == {"plain", "wrapped", "called", "done"}

(* "run" is a portal's ExecutorRun, "exec" a nested query.                 *)
Frame == [kind : {"run", "exec"}, node : Queries \X {0}]
           \union [kind : {"sort"}, node : Nodes]

IsOpen(q)    == queries[q].lev > 0
Live(n)      == IsOpen(n[1]) /\ ~queries[n[1]].failed
                /\ n[2] <= Len(queries[n[1]].plan)

Ancestors(plan, i) ==
    LET up[k \in 0..Len(plan)] ==
          IF k = 0 THEN {} ELSE {plan[k].up} \union up[plan[k].up]
    IN up[i] \ {0}

(* The ancestors a walk remembers: the outermost ones.                     *)
Remembered(plan, i) ==
    {a \in Ancestors(plan, i) :
       Cardinality(Ancestors(plan, a)) < OTEL_PLANWALK_MAX_ANCESTORS}

(* The topmost entry of a node, 0 when it has none (sortwrap_find and the  *)
(* searches like it), and a stack without one.                             *)
Find(stk, n) ==
    LET at == {k \in 1..Len(stk) : stk[k].node = n}
    IN IF at = {} THEN 0 ELSE Max(at)

Without_m(stk, k) == SubSeq(stk, 1, k - 1)
Without(stk, k)   == Remove(stk, k)

-----------------------------------------------------------------------------
(* The walks, node by node.  A walk's state is                             *)
(* [ps, sw, fd |-> the stacks, sp |-> spans, so |-> sorts, mi |-> minted]. *)

Walk == [ps |-> planspans_stack, sw |-> sortwrap_stack,
         fd |-> fdw_scan_stack, sp |-> spans, so |-> sorts, mi |-> {}]

(* otel_span_start refuses a parent that is no longer open.                *)
Startable(w, parent) ==
    parent \in {Stmt, Left} \/ (parent \in Nodes /\ w.sp[parent] # NoSpan)

Push(stk, n) ==
    Append(stk, [node |-> n, subxact_level |-> level, dead |-> FALSE,
                 held |-> Nobody])

(* The span an entry refers to.                                            *)
ref(e) == CASE ~e.dead                     -> e.node
            [] e.dead /\ e.held # Nobody -> Left
            [] OTHER                       -> NoSpan

(* planspans_parent: the ref of the nearest ancestor's entry, else the     *)
(* statement's span.                                                       *)
planspans_parent_m(w, plan, n) ==
    IF w.ps = <<>> THEN Stmt ELSE ref(Last(w.ps))

planspans_parent(w, plan, n) ==
    LET tracked == {a \in Remembered(plan, n[2]) : Find(w.ps, <<n[1], a>>) # 0}
    IN IF tracked = {} THEN Stmt
       ELSE ref(w.ps[Find(w.ps, <<n[1], Max(tracked)>>)])

(* planspans_node_begin; otel_span_start grants spans to the nodes in G.   *)
planspans_node_begin(w, plan, n, G) ==
    LET kind   == plan[n[2]].kind
        parent == planspans_parent(w, plan, n)
    IN CASE kind = "sort" /\ Len(w.sw) < OTEL_PLANSPANS_STACK_MAX ->
              [w EXCEPT !.sw = Append(@, [node |-> n, ended |-> FALSE,
                                          subxact_level |-> level,
                                          dead |-> FALSE]),
                        !.so[n] = "wrapped"]
         [] kind = "span" /\ Len(w.ps) < OTEL_PLANSPANS_STACK_MAX
              /\ n \in G /\ Startable(w, parent) ->
              [w EXCEPT !.sp[n] = parent, !.ps = Push(@, n)]
         [] OTHER -> w

(* otel_fdw_scan_begin: a child of otel_span_current().                    *)
otel_fdw_scan_begin(w, n, stmt, G) ==
    IF Len(w.fd) < OTEL_FDW_SCAN_STACK_MAX /\ n \in G
    THEN [w EXCEPT !.sp[n] = IF stmt = "current" THEN Stmt ELSE Outer,
                   !.fd = Push(@, n)]
    ELSE w

(* planspans_sort_span: the wrapper's entry goes, and a span with its      *)
(* interval starts and ends here if the first call returned and            *)
(* otel_span_start grants it.  A Sort without an entry may get one         *)
(* reconstructed from instrumentation; that one ends here too, and is left *)
(* out, as is IncrementalSort, which has only such spans.                  *)
planspans_sort_span(w, plan, n, G) ==
    LET k == Find(w.sw, n)
        parent == planspans_parent(w, plan, n)
    IN IF k = 0 THEN w
       ELSE [w EXCEPT
               !.sw = Without(@, k),
               !.mi = @ \union {m \in {[node |-> n, parent |-> parent]} :
                                  /\ w.sw[k].ended
                                  /\ n \in G /\ Startable(w, parent)}]

(* otel_span_end of an entry's span, which may have ended already.         *)
Ended(sp, e) == IF e.dead THEN sp ELSE [sp EXCEPT ![e.node] = NoSpan]

(* planspans_node_end and otel_fdw_scan_end: the topmost entry's.          *)
planspans_node_end(w, plan, n, G) ==
    LET k == Find(w.ps, n)
    IN CASE plan[n[2]].kind = "sort" -> planspans_sort_span(w, plan, n, G)
         [] plan[n[2]].kind = "span" /\ k # 0 ->
              [w EXCEPT !.sp = Ended(@, w.ps[k]), !.ps = Without(@, k)]
         [] OTHER -> w

otel_fdw_scan_end(w, n) ==
    LET k == Find(w.fd, n)
    IN IF k = 0 THEN w
       ELSE [w EXCEPT !.sp = Ended(@, w.fd[k]), !.fd = Without(@, k)]

(* otel_planwalk_executor_start, and the ForeignScan hooks where core has  *)
(* them: those do not ask whether the statement is recording.              *)
StartNode(w, plan, n, stmt, G) ==
    CASE plan[n[2]].kind = "fdw" /\ (CORE_HOOKS \/ stmt # "none") ->
           otel_fdw_scan_begin(w, n, stmt, G)
      [] plan[n[2]].kind # "fdw" /\ stmt # "none" /\ child_spans ->
           planspans_node_begin(w, plan, n, G)
      [] OTHER -> w

StartWalk(q, plan, stmt, G) ==
    LET walk[i \in 0..Len(plan)] ==
          IF i = 0 THEN Walk
          ELSE StartNode(walk[i - 1], plan, <<q, i>>, stmt, G)
    IN walk[Len(plan)]

(* otel_planwalk_executor_end: the collectors that are enabled now.        *)
EndNode(w, plan, n, G) ==
    CASE plan[n[2]].kind = "fdw" -> otel_fdw_scan_end(w, n)
      [] plan[n[2]].kind # "fdw" /\ child_spans ->
           planspans_node_end(w, plan, n, G)
      [] OTHER -> w

EndWalk(q, plan, G) ==
    LET walk[i \in 0..Len(plan)] ==
          IF i = 0 THEN Walk ELSE EndNode(walk[i - 1], plan, <<q, i>>, G)
    IN walk[Len(plan)]

SetStacks(w) ==
    /\ planspans_stack' = w.ps
    /\ sortwrap_stack' = w.sw
    /\ fdw_scan_stack' = w.fd

-----------------------------------------------------------------------------
(* The executor.                                                           *)

(* What dies with the queries in Q, on otel_api's side and core's.         *)
Released(sp, Q)  == [n \in Nodes |-> IF n[1] \in Q THEN NoSpan ELSE sp[n]]
Forgotten(so, Q) == [n \in Nodes |-> IF n[1] \in Q THEN "plain" ELSE so[n]]

(* The nodes of Q leave their entries behind.                              *)
Outlived(stk, Q) ==
    [k \in 1..Len(stk) |->
       IF stk[k].node[1] \in Q THEN [stk[k] EXCEPT !.dead = TRUE] ELSE stk[k]]

(* The same, with their spans open: the owner o has them.                  *)
LeftWith(stk, Q, o) ==
    [k \in 1..Len(stk) |->
       IF stk[k].node[1] \in Q /\ ~stk[k].dead
       THEN [stk[k] EXCEPT !.dead = TRUE, !.held = o] ELSE stk[k]]

(* The resource owners in O end what they hold.                            *)
OwnersRelease(stk, O) ==
    [k \in 1..Len(stk) |->
       IF stk[k].held \in O THEN [stk[k] EXCEPT !.held = Nobody] ELSE stk[k]]

PortalOwners(Q) == Q \X {0}

(* CurrentResourceOwner: the innermost subtransaction's, if it was begun   *)
(* in the portal run innermost, else that portal's.                        *)
CurrentOwner ==
    LET runs == {k \in 1..Len(frames) : frames[k].kind = "run"}
    IN IF runs = {} \/ (level > 1 /\ Last(bases) >= Max(runs))
       THEN <<0, level>> ELSE frames[Max(runs)].node

Dead == LET dead(stk) == Cardinality({k \in 1..Len(stk) : stk[k].dead})
        IN dead(planspans_stack) + dead(sortwrap_stack) + dead(fdw_scan_stack)

ExecutorStart(q, plan, stmt, G) ==
    LET w == StartWalk(q, plan, stmt, G) IN
    /\ level > 0 /\ ~IsOpen(q) /\ Dead <= MAX_DEAD
    /\ queries' = [queries EXCEPT ![q] =
                     [Closed EXCEPT !.plan = plan, !.lev = level]]
    /\ SetStacks(w)
    /\ spans' = w.sp
    /\ sorts' = w.so
    /\ minted' = {}
    /\ UNCHANGED <<child_spans, level, bases>>

PortalStart(q, plan, stmt, G) ==
    ExecutorStart(q, plan, stmt, G) /\ UNCHANGED frames

(* SPI runs the query at once, in a portal.                                *)
NestedStart(q, plan, stmt, G) ==
    /\ frames # <<>> /\ Len(frames) < MAX_FRAMES
    /\ ExecutorStart(q, plan, stmt, G)
    /\ frames' = Append(frames, [kind |-> "exec", node |-> <<q, 0>>])

Running(q) == \E f \in Items(frames) : f.node[1] = q

ExecutorRun(q) ==
    /\ level > 0 /\ Len(frames) < MAX_FRAMES
    /\ IsOpen(q) /\ ~queries[q].failed /\ ~Running(q)
    /\ frames' = Append(frames, [kind |-> "run", node |-> <<q, 0>>])
    /\ minted' = {}
    /\ UNCHANGED <<child_spans, stackVars, level, bases, queries, sorts,
                   spans>>

(* A Sort node's first call, in its query's run: sortwrap_exec up to the   *)
(* call of the executor's own function, which may run other queries.       *)
(* Without an entry it raises an ERROR: the next step is an abort.         *)
SortCalled(n) ==
    /\ frames # <<>> /\ Len(frames) < MAX_FRAMES
    /\ Last(frames).node = <<n[1], 0>>
    /\ sorts[n] = "wrapped" /\ Find(sortwrap_stack, n) # 0
    /\ sorts' = [sorts EXCEPT ![n] = "called"]
    /\ frames' = Append(frames, [kind |-> "sort", node |-> n])
    /\ minted' = {}
    /\ UNCHANGED <<child_spans, stackVars, level, bases, queries, spans>>

(* A call returns after the subtransactions begun in it.                   *)
MayReturn == Len(frames) > (IF level > 1 THEN Last(bases) ELSE 0)

SortReturns_m(stk, n) == stk

(* sortwrap_exec after the call: the entry is looked up once more.         *)
SortReturns(stk, n) ==
    IF Find(stk, n) = 0 THEN stk
    ELSE [stk EXCEPT ![Find(stk, n)].ended = TRUE]

CallReturns ==
    LET f == Last(frames) IN
    /\ MayReturn /\ f.kind # "exec"
    /\ frames' = Front(frames)
    /\ IF f.kind = "sort"
       THEN /\ sortwrap_stack' = SortReturns(sortwrap_stack, f.node)
            /\ sorts' = [sorts EXCEPT ![f.node] = "done"]
       ELSE UNCHANGED <<sortwrap_stack, sorts>>
    /\ minted' = {}
    /\ UNCHANGED <<child_spans, planspans_stack, fdw_scan_stack, level, bases,
                   queries, spans>>

(* otel_ExecutorEnd, and not that of a failed portal; o is who has the     *)
(* query's spans.  A walk without planspans leaves its entries.  What a    *)
(* portal owns is released with it.                                        *)
ExecutorEnd(q, G, o) ==
    LET w == IF queries[q].failed THEN Walk ELSE EndWalk(q, queries[q].plan, G)
        left == IF child_spans THEN {} ELSE {q}
    IN
    /\ level > 0 /\ IsOpen(q)
    /\ queries' = [queries EXCEPT ![q] = Closed]
    /\ SetStacks([w EXCEPT
           !.ps = OwnersRelease(LeftWith(@, left, o), PortalOwners({q})),
           !.sw = Outlived(@, left)])
    /\ spans' = Released(w.sp, {q})
    /\ sorts' = Forgotten(w.so, {q})
    /\ minted' = w.mi
    /\ UNCHANGED <<child_spans, level, bases>>

PortalEnd(q, G) ==
    ~Running(q) /\ ExecutorEnd(q, G, <<q, 0>>) /\ UNCHANGED frames

NestedEnd(q, G) ==
    /\ MayReturn /\ Last(frames) = [kind |-> "exec", node |-> <<q, 0>>]
    /\ ExecutorEnd(q, G, CurrentOwner)
    /\ frames' = Front(frames)

SetChildSpans ==
    /\ child_spans' = ~child_spans
    /\ minted' = {}
    /\ UNCHANGED <<stackVars, coreVars, spans>>

-----------------------------------------------------------------------------
(* Transactions.                                                           *)

BeginXact ==
    /\ level = 0
    /\ level' = 1
    /\ minted' = {}
    /\ UNCHANGED <<child_spans, stackVars, bases, frames, queries, sorts,
                   spans>>

(* SAVEPOINT, or a PL/pgSQL block with an EXCEPTION clause.                *)
BeginSub ==
    /\ level > 0 /\ level < MAX_LEVEL
    /\ level' = level + 1
    /\ bases' = Append(bases, Len(frames))
    /\ minted' = {}
    /\ UNCHANGED <<child_spans, stackVars, frames, queries, sorts, spans>>

(* RELEASE: open queries pass to the parent; the callbacks ignore it, but  *)
(* what the subtransaction itself owns is released.                        *)
CommitSub ==
    /\ level > 1 /\ Len(frames) = Last(bases)
    /\ level' = level - 1
    /\ bases' = Front(bases)
    /\ queries' = [q \in Queries |->
                     IF queries[q].lev = level
                     THEN [queries[q] EXCEPT !.lev = level - 1, !.moved = TRUE]
                     ELSE queries[q]]
    /\ planspans_stack' = OwnersRelease(planspans_stack, {<<0, level>>})
    /\ minted' = {}
    /\ UNCHANGED <<child_spans, sortwrap_stack, fdw_scan_stack, frames, sorts,
                   spans>>

CommitXact ==
    /\ level = 1 /\ frames = <<>>
    /\ \A q \in Queries : ~IsOpen(q)
    /\ level' = 0
    /\ minted' = {}
    /\ UNCHANGED <<child_spans, stackVars, bases, frames, queries, sorts,
                   spans>>

(* otel_planspans_subxact_abort and otel_fdw_subxact_abort.                *)
Kept_m(stk) == Keep(stk, {e \in Items(stk) : e.subxact_level <= level})
Kept(stk) == Keep(stk, {e \in Items(stk) : e.subxact_level < level})

(* An ERROR caught at the innermost subtransaction, or ROLLBACK TO.  Core  *)
(* frees the queries of that level without ending them, and fails an older *)
(* one whose run is left: what it owns is released, its entries stay.      *)
SubAbort ==
    LET base   == Last(bases)
        left   == {frames[k].node[1] : k \in (base + 1)..Len(frames)}
        gone   == {q \in Queries : queries[q].lev >= level}
        fails  == left \ gone
        dead   == gone \union fails
        stays(stk) == Outlived(Kept(stk), fails)
    IN
    /\ level > 1
    /\ SetStacks([Walk EXCEPT
           !.ps = OwnersRelease(stays(@),
                                PortalOwners(dead) \union {<<0, level>>}),
           !.sw = stays(@), !.fd = stays(@)])
    /\ spans' = Released(spans, dead)
    /\ sorts' = Forgotten(sorts, dead)
    /\ queries' = [q \in Queries |->
                     CASE q \in gone  -> Closed
                       [] q \in fails -> [queries[q] EXCEPT !.failed = TRUE]
                       [] OTHER       -> queries[q]]
    /\ frames' = SubSeq(frames, 1, base)
    /\ level' = level - 1
    /\ bases' = Front(bases)
    /\ minted' = {}
    /\ UNCHANGED child_spans

(* ROLLBACK, or an ERROR nothing catches: otel_planspans_reset and         *)
(* otel_fdw_reset.                                                         *)
Abort ==
    /\ level > 0
    /\ planspans_stack' = <<>> /\ sortwrap_stack' = <<>>
    /\ fdw_scan_stack' = <<>>
    /\ spans' = [n \in Nodes |-> NoSpan]
    /\ sorts' = [n \in Nodes |-> "plain"]
    /\ queries' = [q \in Queries |-> Closed]
    /\ frames' = <<>> /\ level' = 0 /\ bases' = <<>>
    /\ minted' = {}
    /\ UNCHANGED child_spans

-----------------------------------------------------------------------------
Init ==
    /\ child_spans \in BOOLEAN
    /\ planspans_stack = <<>> /\ sortwrap_stack = <<>> /\ fdw_scan_stack = <<>>
    /\ level = 0 /\ bases = <<>> /\ frames = <<>>
    /\ queries = [q \in Queries |-> Closed]
    /\ sorts = [n \in Nodes |-> "plain"]
    /\ spans = [n \in Nodes |-> NoSpan]
    /\ minted = {}

Next ==
    \/ \E q \in Queries :
         \/ \E p \in Plans[q], stmt \in StmtSpan :
              \E G \in SUBSET NodesLike(q, p, {"span", "fdw"}) :
                  PortalStart(q, p, stmt, G) \/ NestedStart(q, p, stmt, G)
         \/ ExecutorRun(q)
         \/ \E G \in SUBSET NodesLike(q, queries[q].plan, {"sort"}) :
                  PortalEnd(q, G) \/ NestedEnd(q, G)
    \/ \E n \in Nodes : SortCalled(n)
    \/ CallReturns \/ SetChildSpans
    \/ BeginXact \/ BeginSub \/ CommitSub \/ CommitXact \/ SubAbort \/ Abort

Spec == Init /\ [][Next]_vars

-----------------------------------------------------------------------------
(* Properties.                                                             *)

(* The node stacks and spans are well typed, and no stack is filled past   *)
(* its fixed size.                                                         *)
TypeOK ==
    /\ child_spans \in BOOLEAN
    /\ planspans_stack \in Seq(NodeEntry) /\ fdw_scan_stack \in Seq(NodeEntry)
    /\ sortwrap_stack \in Seq(SortEntry)
    /\ Len(planspans_stack) <= OTEL_PLANSPANS_STACK_MAX
    /\ Len(sortwrap_stack) <= OTEL_PLANSPANS_STACK_MAX
    /\ Len(fdw_scan_stack) <= OTEL_FDW_SCAN_STACK_MAX
    /\ level \in 0..MAX_LEVEL /\ bases \in Seq(0..MAX_FRAMES)
    /\ frames \in Seq(Frame)
    /\ queries \in [Queries -> Query \union {Closed}]
    /\ sorts \in [Nodes -> SortStatus]
    /\ spans \in [Nodes -> Parent \union {NoSpan}]
    /\ minted \subseteq [node : Nodes, parent : Parent]

(* Every entry of the three stacks is that of a node that still exists and *)
(* is its only one; a node entry's span is open and is the node's.  Only a *)
(* query that failed in a younger subtransaction, or that ended while      *)
(* otel.trace_plan_child_spans was off, leaves entries behind.             *)
EntriesAreLive ==
    LET Sound(stk) ==
          \A j, k \in {i \in 1..Len(stk) : ~stk[i].dead} :
            /\ Live(stk[j].node)
            /\ stk[j].node = stk[k].node => j = k
    IN /\ Sound(planspans_stack) /\ Sound(sortwrap_stack)
       /\ Sound(fdw_scan_stack)
       /\ \A e \in Items(planspans_stack) \union Items(fdw_scan_stack) :
            ~e.dead => spans[e.node] # NoSpan

(* As long as no RELEASE has moved a query to another level, its open node *)
(* spans have entries that their end will find, and a Sort whose           *)
(* ExecProcNode is sortwrap_exec has the entry without which its first     *)
(* call raises an error: no abort, and no other query's end, takes them.   *)
EntriesAreKept ==
    /\ \A n \in Nodes :
         (spans[n] # NoSpan /\ ~queries[n[1]].moved) =>
             \E e \in Items(planspans_stack) \union Items(fdw_scan_stack) :
                 e.node = n /\ ~e.dead
    /\ \A n \in Nodes :
         (sorts[n] # "plain" /\ ~queries[n[1]].moved) =>
             Find(sortwrap_stack, n) # 0

(* A node's span is a child of its statement's span or of the span, still  *)
(* open, of an ancestor in the same plan, also when other queries' entries *)
(* or those of an earlier query at the same addresses are on the stack;    *)
(* but a foreign scan's is a child of what is active, and an entry whose   *)
(* span was left open when its query ended gives parents to the nodes of a *)
(* later one.                                                              *)
ParentsAreAncestors ==
    \A x \in {[node |-> n, parent |-> spans[n]] :
               n \in {m \in Nodes : spans[m] # NoSpan}} \union minted :
        LET plan == queries[x.node[1]].plan IN
        \/ x.parent \in {Stmt, Left}
        \/ x.parent = Outer /\ plan[x.node[2]].kind = "fdw"
        \/ /\ x.parent[1] = x.node[1] /\ spans[x.parent] # NoSpan
           /\ x.parent[2] \in Ancestors(plan, x.node[2])

(* When a query ends that no RELEASE has moved, with the setting still on  *)
(* and no entry of an earlier query at its addresses, each of its wrapped  *)
(* Sorts gets a span with the measured interval exactly if its first call  *)
(* returned and otel_span_start does not refuse.                           *)
SortsAreMeasured ==
    [][\A q \in Queries :
       \A G \in SUBSET NodesLike(q, queries[q].plan, {"sort"}) :
        (/\ child_spans /\ ~queries[q].moved /\ ~queries[q].failed
         /\ PortalEnd(q, G) \/ NestedEnd(q, G)
         /\ \A e \in Items(planspans_stack) \union Items(sortwrap_stack) :
              e.node[1] = q => ~e.dead) =>
          \A n \in {m \in Nodes : m[1] = q} :
            (n \in {m.node : m \in minted'})
              = (sorts[n] = "done" /\ n \in G)]_vars

-----------------------------------------------------------------------------
(* What comments of the code say and the code does not do: none of the     *)
(* statements below holds of this model.                                   *)

(* What the comments say of entries an abort drops: they are those of the  *)
(* aborted subtransaction, so a Sort that lives keeps its wrapper's entry. *)
WrappedSortsHaveEntry ==
    \A n \in Nodes : sorts[n] = "wrapped" => Find(sortwrap_stack, n) # 0

(* What the comments say of entries an abort keeps: they are of nodes that *)
(* are still alive and will be closed normally.                            *)
KeptEntriesEndNormally ==
    \A e \in Items(planspans_stack) \union Items(fdw_scan_stack) : Live(e.node)

(* What the comment on planspans_parent says of a Sort: its span is a      *)
(* child of the nearest ancestor's that has one.                           *)
SortsNestUnderAncestors ==
    [][\A m \in minted' :
        (\E a \in Ancestors(queries[m.node[1]].plan, m.node[2]) :
            spans[<<m.node[1], a>>] # NoSpan)
        => m.parent # Stmt]_vars

(* What the comment on the ancestors says of a node's span: the ancestor   *)
(* whose span it is a child of is one of its own plan.                     *)
ParentsAreInTheirPlan == \A n \in Nodes : spans[n] # Left

(* What the head comment of otel_fdw.c says of a scan's span: it nests     *)
(* under its statement's, whenever that is recording.                      *)
ScansNestUnderStatement ==
    [][\A q \in Queries, stmt \in StmtSpan \ {"none"} :
        \A p \in Plans[q] : \A G \in SUBSET NodesLike(q, p, {"span", "fdw"}) :
            PortalStart(q, p, stmt, G) =>
              \A n \in NodesLike(q, p, {"fdw"}) :
                spans'[n] \in {NoSpan, Stmt}]_vars
=============================================================================

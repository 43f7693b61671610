# TLA+ models of postgres_otel_api

These modules model the stateful core of the OpenTelemetry extensions for
PostgreSQL in this repository: how spans are stored, ended and exported, where
a span's parent and its sampling decision come from, how statements, plan
nodes, PL/pgSQL calls and core's probes get spans, how a parallel worker learns
its leader's span, and how the modules find each other when they are loaded.
TLC checks them on small instances; for ten of the eleven that a run checks,
TLAPS proves safety properties of the run for every value of the constants.

    tlc -workers 2 -config MCSpanProducer.cfg MCSpanProducer
    tlapm SpanProducerProofs.tla

(The proofs of `StatementTracing`, `PlpgsqlTracing`, `NodeSpans` and of the
producer take several minutes each.)

`PROJECT.json` lists the components, the runs with their properties, the
source lines each definition models, the hazards the properties are for, and
the disagreements between comments and code that were found on the way.

## 1. The system

One PostgreSQL backend is a single thread of control; its extensions keep
their state in static variables. What makes the code hard is not threads but
*reentry and unwinding*: core calls hooks and callbacks in the middle of other
operations, `ERROR` leaves C frames without their end call, resource owners
end spans that their starter still holds a handle to, and an exporter's
callback runs inside the end of a span. Shared memory, and with it real
concurrency, is used in one place, the parallel-worker slots.

| Component | State | Operations | Talks to |
|---|---|---|---|
| Span producer (`otel_producer.c`) | slot pool, pool of non-recording entries ("nrecs"), active stack, generations, budgets, counters | start, end, discard, activate, deactivate, setters; transaction callbacks; owner release | exporter hook; core's resource owners; root context; parallel slots |
| Root context (`otel.c`) | `otel_root_ctx`, the `traceparent` setting, `otel_ctx_from_M_header` | `SET`, `SET LOCAL`, the `M` message and its clear, the scan of SQL comments | core's GUC stack; statement tracing |
| Sampling (`otel_api.c`, `otel.c`) | sampler mode and argument, the cached recording gate | assign hooks, exporter registration, decision at start | producer |
| Parallel slots (`otel_parallel.c`) | one slot and spinlock per proc number, in shared memory | publish, clear, read, exit callback, startup | statement tracing writes, the producer in a worker reads |
| Statement tracing (`otel_trace.c`) | `stmt_stack`, `otel_declaring_cursor_name` | executor and utility hooks, transaction callbacks | producer, root context, parallel slots |
| Probe bridge (`otel_sdt_bridge.c`) | stacks of open probe spans, the transaction's span, family mask | probe hook, transaction callback, assign hook | producer |
| PL/pgSQL tracing (`otel_plpgsql.c`) | a statement stack per call, a registry of open session spans | plugin callbacks, resource-release callback | producer |
| Plan and FDW spans (`otel_planwalk.c`, `otel_planspans.c`, `otel_fdw.c`) | stacks of open node spans and of sort wrappers | walks at ExecutorStart and ExecutorEnd, a Sort's first call, transaction aborts | producer, statement tracing |
| Plan actuals (`otel_planpath.c`) | one static accumulator | the walk at ExecutorEnd | statement's span |
| Resource attributes (`otel_resource.c`) | attribute array, tracer scopes | resolution at startup, additions by producers | producers, exporters |
| Rendezvous (`otel_api.c`, `otel_api.h`, `otel_exporter.h`) | published table, queue of registrations, chain of emit hooks, cached lookups | publish, register, look up | producers and exporters, in any load order |
| Log correlation (`otel_log.c`) | its unit's cached lookup | a hook for every message logged | producer |
| Plan shape, startup, demo exporter | none of their own, or files | | |

What makes each part correct:

* **Producer**: a span is exported at most once and is never both exported and
  dropped; no slot, nrec, budget unit or owner entry is lost or held twice; the
  active stack names open spans only; unwinding spares what it must; calls
  return.
* **Span contents**: the byte budget holds whichever allocation fails; what is
  not stored is counted; the worst error is the one reported, and a span that
  an error failed says so.
* **Sampling**: a local tree of spans has one trace and one decision.
* **Root context**: it is the setting's value or a comment's; a client's
  context wins over a comment; a request does not lose or inherit a context;
  a comment gives the context that was written into it.
* **Statement tracing**: each entry belongs to a running statement or open
  cursor and conversely; the parallel slot names the innermost statement.
* **Parallel slots**: a worker reads one published context, whole.
* **PL/pgSQL tracing**: the registry is exactly the open session spans; spans
  end innermost first and none survives the outermost call.
* **Probe bridge**: a held span's DONE probe stays enabled, its stack follows
  what core runs, and no open span is lost from sight.
* **Plan and FDW spans**: every open node span and every wrapped Sort has its
  entry and conversely; a node's parent is its statement or an open ancestor; a
  Sort's span has the measured interval, if it gets one.
* **Plan actuals**: a statement's attributes are computed from its own plan.
* **Startup**: each exporter is called once per span whatever the load order;
  a cached lookup is right unless it was made by logging a message too early;
  resource attributes follow their precedence.

The hazards, each at its line, are in `PROJECT.json`.

## 2. Modules

| Module | Models | Abstraction |
|---|---|---|
| `SpanProducer` | `otel_producer.c` without span contents | see below |
| `SpanContract` | what the producer promises per span | new, open, then exported or dropped |
| `SpanData` | contents of one span | sizes instead of strings |
| `SpanSampling` | parent and decision at start | a trace id is its random part |
| `RootContext` | `otel.c`'s context, and core's GUC stack as the code uses it | contexts are model values |
| `SqlComment` | the comment scanner, on top of `RootContext` | a text is a sequence of tokens |
| `StatementTracing` | `otel_trace.c`, on top of `RootContext` | span contents left out |
| `ParallelContext` | `otel_parallel.c`, one memory access per step | two fields stand for all |
| `AtomicSlot` | one atomic register per backend | |
| `PlpgsqlTracing` | `otel_plpgsql.c` | otel_api reduced to owners and active stack |
| `SdtBridge` | `otel_sdt_bridge.c` | the same; one family stands for all that only nest |
| `NodeSpans` | `otel_planwalk.c`, `otel_planspans.c`, `otel_fdw.c` | otel_api reduced to which nodes have an open span, and who owns one left open |
| `PlanPath` | `otel_planpath.c` | a plan is the sequence of its nodes |
| `ResourceAttrs` | `otel_resource.c` | texts are model values |
| `ModuleLoading` | load order, registration, lookups; uses `ResourceAttrs` | one process |
| `Stacks` | arrays used as stacks | |
| `StackFacts` | lemmas about `Stacks` | |
| `SpanProducerProofs`, `StatementTracingProofs`, `PlpgsqlTracingProofs`, `SdtBridgeProofs`, `NodeSpansProofs` | theorems about the module named | |
| `SpanProofs` | theorems about `SpanSampling` and `SpanData` | |
| `ProcessProofs` | theorems about `RootContext`, `SqlComment`, `ParallelContext` and `ModuleLoading` | |
| `MC*` | instances for TLC | |

Definitions keep the source's names where there is one. A name that ends in
`_m` is a faulty variant of the definition below it, used to make sure that a
property can fail; no specification refers to it. Variables marked *history* in
the declarations are not in the code: they record what a property speaks of.

### SpanProducer

`slots`, `nrecs` and `span_stack` are the arrays of the code; `slot_free` and
`nrec_free` are the chains of `next_free`; a handle is an index with a
generation. `owned` is what core's resource owners remember: one owner per
transaction level and one for a portal. An operation that calls the exporter's
hook is not atomic: `api_span_end` sets `target` and goes to `"unwind"`; each
span above it is ended by a step of its own (`UnwindSlot`, `UnwindNrec`,
`UnwindActivation`); `end_slot` forgets the owner's entry and goes to
`"hook"`, from where the hook returns or throws (`HookReturns`, the same for
the producer, which catches the error) or raises FATAL (`HookFatal`), upon
which the backend exits and its open transaction is aborted with the slot half
ended. Calls from inside the hook are refused by `call_refused`, hence
stutter. The end of a (sub)transaction is the sequence of the callbacks
(`DropNrecEntry`, `DropNrec`, `DropActivation`) and the release of owners
(`ReleaseLeaked`, `ReleaseAborted`), as in core.

Calls are issued with handles that resolve, so an action takes an index and the
generation is that of the slot. A call with a stale handle returns at once and is
a stutter: that `slot_for_ref` compares generations is read off the code, not
exercised. What the model checks is what the comparison rests on, that no two
spans are ever given one generation and that a span which is gone never resolves
again (`ImplementsContract`).

Bounds: two slots, stack depth two, generations up to `GEN_MASK` (a run does
not reuse a generation, `StartBound`; the counter does wrap, from the seed in
`SEEDS`), transaction nesting `MAX_LEVEL`. Two slots are enough for an unwind
over another span or an activation, reuse of a slot and a full pool.

### RootContext, SqlComment and StatementTracing

`guc` and `undo` are the setting and its one-level `GucStack`; `Undone`,
`GucAtCommit` and `GucAtAbort` are what core does with it. `StatementTracing`
instantiates `RootContext` for its own variables and its hooks use
`RootContext`'s operators; `DrivesRootContext` is the check that its steps are
steps of `RootContext`. `frames` is the C stack of hook calls, so that `Error`
can run the `PG_CATCH` and `PG_FINALLY` blocks of every frame that is left.
Keys of `stmt_stack` are frame depths and portals, reused as addresses are.

`ActivePortal` is the portal of the innermost frame in which core starts one
(`PortalStart`, `OtherPortalStart`) or runs one (`ExecutorRun`); SPI's queries and
utility statements leave it alone. Every ExecutorStart asks whether that is the
portal a `DECLARE` in progress names. So it is not only the cursor's own start
that may answer yes: a query that runs inside the cursor's `standard_ExecutorStart`
is started detached too, and `otel_ExecutorRun` then activates its span for the run
(`QueryRun`); and so is a cursor of the same name that SPI opens while the `DECLARE`
is planned (`taken`). An `EXECUTE` makes a portal active that is no cursor's (name
0). `taken`, `orphan`, a frame's `span` and `disturbed` are history.

`SqlComment` has two sides. The client's (`Text`) puts lists of pairs into
comments before or after the code of a statement; the server's
(`find_block_comment`, `extract_traceparent`) is the code's scanner and parser,
with its scan budget. `Meant` says what a statement was meant to carry without
looking at its text, and `CommentIsRead` compares the two. A token is one
character, except keys, traceparents and their percent-encoded forms.

Left out: messages that arrive inside a subtransaction (the GUC stack has one
level), a new error inside a failed block, non-recording statement spans, and
portals of the extended protocol that a client gives the name of a cursor.

### ParallelContext

Each field access is a step; the spinlock is a variable. Processes start, run
as backend or worker, exit by `ProcKill` and then `proc_exit_cb`, and their
proc numbers are used again; `CrashRestart` may happen at any point, inside a
section too. A context carries the life of the backend that published it.

### SpanSampling, SpanData

`SpanSampling` keeps every span ever started, with parent and decision, while
settings change. `SpanData` is one slot: every call may fail for lack of budget
or of memory, at each of its allocations. Both have history variables for what
callers asked for. `error_description`'s 256 bytes and the exception event's
attribute array are not charged to the budget in the code, and not in the
model. `otel_emit_log_hook` walks the active stack; of a single span it either
records the error (`slot_record_error`) or, further down the stack, marks the
span as failed (the action named after the hook). `blamed` and `no_memory` are
history: an error failed the span, and its description could not be allocated.
`SpanProofs` extends both, which is why `SpanSampling`'s specification is
`SamplingSpec`; `ProcessProofs` extends `RootContext`, `ParallelContext` and
`ModuleLoading`, whose are `Spec`, `SlotsSpec` and `LoadingSpec`.

### PlpgsqlTracing

`frames` is what runs: calls, each with its `PlpgsqlSpanState`, statements, and
statements that `otel_postgres_tracing` gives a span between them. A block with
an `EXCEPTION` clause is a statement with a subtransaction. An error takes
several steps: `Raise`; `Unwind`, which leaves everything inside the innermost
such block (or everything) and releases resource owners; `EndLeaked`, one round
of the release callback's loop; then `SubAborted` or `Aborted`. A `ROLLBACK`
statement runs the same callback while the calls go on (`Rollback`,
`EndLeaked`, `RolledBack`). A call may be nonatomic where PL/pgSQL allows it:
outside a transaction block, called by nonatomic code, not in a
subtransaction. Spans that could not be recorded are handle 0. `misuse` is
history: what otel_api would warn of or assert against.

### SdtBridge

`mask` is `pg_sdt_probe_enabled_mask` as pairs of family and START or DONE; for
`txn`, DONE is both COMMIT and ABORT. Core is `frames` (operations between a
START and its DONE: a query, executions, and "plan" for every family that only
nests), `sorts`, and transactions with subtransactions. A probe is an action
also when it is disabled, since core goes on regardless. The context that a
START asks for is the active stack's or any: the root context may change at any
time. Which owner a span gets is core's `CurrentResourceOwner`: none before the
transaction starts. The COMMIT probe, then the owner's release, are one action,
as are the ABORT probe, the callback and the release: nothing of the bridge
runs between them. `skipped`, `prepared` and `forgotten` are history and mark
the three situations in which the code does lose track (section 3).

### NodeSpans

A query is a portal's, from ExecutorStart (`PortalStart`) to ExecutorEnd
(`PortalEnd`) with runs between them, or nested, one frame from `NestedStart` to
`NestedEnd` as SPI has it. Its plan is a sequence of nodes with their parents, in
the order of the walk, and node `<<q, i>>` is an address, so that a later query of
the same name finds its nodes where an earlier one's were. The two walks are
recursive functions that run the collectors' callbacks (`StartNode`, `EndNode`)
over the nodes; the settings are read at each walk, as in `build_enabled_mask`. A
Sort's first call is a frame (`SortCalled`, `CallReturns`) in which other queries
start, run and fail. Aborts run the callbacks and what core does with open
queries: those of the aborted level are freed without their end walk, and a portal
of an outer level whose run was left is marked failed. An entry whose query is
gone is marked `dead`; the code cannot tell. `MAX_DEAD` bounds how many of them a
new query meets.

A node's span has a `Parent`. A curated node's is what `planspans_parent` finds by
the ancestors' addresses; a foreign scan's is what `otel_span_current` returns:
the statement's span (`Stmt`) only if that is on the active stack, otherwise
whatever is (`Outer`), as under a declared cursor, whose span is detached
(`StmtSpan` = "aside"). Whether `otel_span_start` grants a span is a choice (`G`),
for a Sort's at the end walk too, except that it refuses a parent that has ended
(`Startable`).

A span belongs to the resource owner that is current when it starts: the portal's,
or, for a nested query, that of the portal or subtransaction it runs in. When the
setting is off at the end walk, a query leaves its entries. A portal's spans are
then released with it, a nested query's stay open: the entry is `dead` and `held`
by that owner until `OwnersRelease`. A later node whose ancestor has that address
gets that span as its parent (`Left`).

Left out: set-returning SQL functions that are run lazily, row by row, and
transactions that procedures end.

### PlanPath

`planpath_node_end` is one action per node of the walk, in any order and number
up to `MAX_NODES`, over the nodes of the instance. What a node's own state and
its parallel workers report about spilling are its `parts`. Times and ratios are
exact fractions instead of doubles. A walk may fail half way (`InstrEndLoop`
raises an error for a node that is still running), which leaves the accumulator
as it is.

### ModuleLoading and ResourceAttrs

Each module is loaded once. otel_api is loaded among the preloaded libraries or
never; an exporter before it, after it or when the process already runs. An
exporter that finds no root table queues its registration, and otel_api
registers what is queued. Producers look the tables up on first use in each
translation unit and keep the answer. Most do so from executor hooks and
callbacks, which run in backends (`ProducerCalls`); the unit of `otel_log.c` does so
whenever a message is logged (`otel_emit_log_hook`), which may be while libraries
are still being preloaded. `too_early` is history, the units that looked up in vain
then: their answer is inherited by every backend. A unit that logs must fit
the tables (`ModuleLoadingAssumption`), because one that does not would log a warning
from its own lookup without end. `RootFits` and `TableFits` say which
modules were built for the tables that otel_api publishes. `Chain` follows the
hooks a span passes. When otel_api is loaded it resolves the resource attributes
from the settings and the environment, of which the instance has 24.

## 3. Runs

| Run | Instance | Shows |
|---|---|---|
| `producer` | 2 slots, stack 2, 2 generations, 2 levels, fair | the proofs' invariant (pools and stack sound); owners, budget and counters consistent; unwinds spare activated spans; implements `SpanContract`; calls return |
| `root_context` | 2 contexts, 301 statements with up to 2 comments of up to 2 pairs | context and setting agree, comments yield and are read as they were meant, quiet requests keep their context |
| `statements` | 3 frames, 2 levels, stack of 2, 1 cursor (declared or SPI's), 1 context | bookkeeping and parallel slot agree with what runs, also when the stack is full; a span is detached only if its start asked while the cursor of a `DECLARE` in progress was the active portal; no statement ends another's span; refinement of `RootContext` |
| `parallel` | 2 processes, 2 lives, 2 spans, fair | atomic registers, publish completes |
| `sampling` | 3 trace ids, 2 spans | trees agree |
| `span_data` | 2 keys, budget 17, 5 calls | budget, counts, worst error, failed spans say why |
| `plpgsql` | 5 frames, 3 levels, 3 statement ids (symmetric), 6 spans | registry exact, ends innermost first, running spans open, nothing leaks |
| `probes` | 3 frames over a stack of 2, 1 sort, 2 levels, 3 settings, 3 handles (symmetric) | DONE probes stay enabled, entries follow nesting, open spans tracked |
| `node_spans` | 2 queries, 3 plans, 2 frames, 2 levels, stacks of 2, any start refused | entries live and kept, parents are ancestors unless an entry was left, sorts measured |
| `plan_path` | 7 kinds of nodes, plans of up to 4, 3 slots | the rollup is the plan's own, the slowest are ranked |
| `startup` | 3 exporters, 3 units of which 1 logs, 24 environments, 4 attributes | exporters served, lookups current but for messages logged early, resource resolved |

Two processes are a leader and a worker, the only pair that shares a slot; the
proofs cover any number. One cursor and two frames are enough for a cursor to
be opened by one statement and run or closed inside another; with three, a query
runs inside the start of the cursor's portal, below the `DECLARE`, or inside a
FETCH. `InstanceBound` constrains the run of `statements`: a nested utility command
that declares nothing takes a frame and changes nothing else, so it is followed
only inside procedures, which may end the transaction, and a subtransaction begun
with all three frames taken, which no statement could follow, is left out. The
theorems have neither bound. Five frames are a
statement, a nonatomic call, a block with a handler in it, a statement in the
block and a call or statement inside that. For the bridge, three operations
over an array of two entries make a START that is dropped inside two that are
held, and three handles make otel_api refuse a start. Two queries are one that
runs inside the other's first Sort call; two plans for the first of them put
different kinds of nodes at one address, and two span nodes fill a stack, as do
two Sorts; with an entry left behind there is one too many. `CORE_HOOKS` makes no difference to the
properties; the run has it on (PostgreSQL 19), and TLC passes with it off too.
Four nodes are one more than the slots of the slowest; the nodes of the instance
tie in time per loop and lie on both sides of the threshold. An array of four
attributes is one more than otel_api fills itself, and five pairs one less than
the longest list.

Some statements of comments and documentation do not agree with the code. One is
kept as a run, `sort_wrapper`, because what follows from it is an error in the
user's query; `PROJECT.json` has it under "findings":

* `WrappedSortsHaveEntry` (`NodeSpans`): a cursor over a Sort, declared in a
  savepoint that is released, loses its wrapper's entry to the abort of a later
  savepoint of that level, and its first FETCH then raises "sort node has no
  wrapper entry" (`otel_planspans.c:419` and 119-120; comment at 416).

The modules state the others as formulas that TLC refutes when they are added
to a configuration:

* `OtherAttributesKept` (`SpanData`): setting a known key to a value that
  cannot be copied removes the last attribute, whichever key it has
  (`otel_producer.c:1549`; comment at 1548).
* `NoStaleHandle` (`PlpgsqlTracing`): a `ROLLBACK` statement ends the spans of
  the calls that run it, and their end callbacks use stale handles
  (`otel_plpgsql.c:306`; comment at 357-359).
* `RealignForgetsNoOpenSpan` (`SdtBridge`): the COMMIT probe comes before
  QUERY_DONE and forgets the statement's `pg.query` span, which nothing ends
  (`otel_sdt_bridge.c:537`; comment at 507-508).
* `KeptEntriesEndNormally` (`NodeSpans`): the entries of a portal that failed
  in a younger subtransaction stay, although its nodes are never ended
  (`otel_fdw.c:330`; comment at 305-306).
* `SortsNestUnderAncestors` (`NodeSpans`): the end walk ends a node before it
  comes to the Sort below it, so a Sort's span is the statement's child also
  under a Gather (`otel_planspans.c:273`; comment at 165).
* `RollupNeedsStats` (`PlanPath`): the rollup is put on the span also when only
  the events are asked for (`otel_planpath.c:251`; comment at 246-249).
* `RankedByTotal` (`PlanPath`): the slowest nodes are ranked by time per loop
  (`otel_planpath.c:531`; comments at 97 and 529).
* `EveryLookupIsCurrent` (`ModuleLoading`): with `otel_postgres_tracing` preloaded
  before `otel_api`, a message logged between the two makes the unit of `otel_log.c`
  keep the answer that there is no otel_api; every backend inherits it, and no log
  line carries trace ids (`otel_log.c:80`; `README.md:118-125`).
* `UnfitExportersAreRefused` (`ModuleLoading`): an exporter built for another
  table is refused when it is loaded after otel_api and registered when it is
  loaded before (`otel_api.c:218`; `README.md:118`).
* `LastQueuedIsOutermost` (`ModuleLoading`): the queue is registered latest
  first, so the first one queued ends up outermost (`otel_api.c:218`; comment at
  217).
* `EitherCommentIsRead` (`SqlComment`): any comment at the start hides the list
  at the end (`otel.c:668`; comment at 621-623).
* `OuterEntriesEndNormally` (`StatementTracing`): the entry of a cursor that
  failed in a younger subtransaction is dropped by no abort and removed by no
  end call (`otel_trace.c:764`; comment at 79).
* `MContextEndsWithRequest` (`RootContext`): a message's context comes back
  when `SET LOCAL` ends or a `SET` is rolled back (`otel.c:358`; comments at
  104-105 and 161-162).
* `CursorsKeepEntry` (`StatementTracing`): a cursor declared in a savepoint
  keeps its level after `RELEASE` and loses its entry to the abort of a later
  savepoint of that level (`otel_trace.c:744`; comment at 80-82).
* `NoContextOfPreviousBackend` (`ParallelContext`): the exit callback runs when
  `MyProcNumber` is already invalid and clears nothing (`otel_parallel.c:142`;
  comments at 152-153 and 191-192).
* `NrecsEndWithSubxact`, `ActivationsEndWithSubxact` (`SpanProducer`): the
  subtransaction callback acts on aborts only, so a released savepoint leaves
  its non-recording entries and activations behind until the transaction ends
  (`otel_producer.c:1148`; comments at 39-40, 141-143 and 1207-1208).
* `OwnerEndedStaysQuiet` (`SpanProducer`): a slot remembers only the last
  generation its owner ended, so an older handle of the same slot is counted
  as stale (`otel_producer.c:269`; comments at 29-31 and 265-266).
* `ClearSparesUserContext` (`RootContext`): `otel_ctx_from_M_header` stays set
  when a `SET` follows the message, and the clear takes the `SET` context
  (`otel.c:347`; comment at 352-353).
* `CommentEndsWithStatement` (`StatementTracing`): a comment's context outlives
  a statement that got no span or failed (`otel_trace.c:470`; comments at
  `otel.c:863` and `otel_trace.c:300-302`).
* `LaterQueriesFindNoLeader` (`StatementTracing`): an abort leaves the parallel
  slot published (`otel_trace.c:717`; comment at `otel_parallel.c:235-237`).
* `OnlyCursorsAreDetached` (`StatementTracing`): a query that runs while the
  declared cursor's own portal is being started is detached as well
  (`otel_trace.c:488`; comment at 119-121).
* `ParentsAreInTheirPlan` (`NodeSpans`): a nested query that ends while the setting
  is off leaves entries with open spans, and a later query's nodes at the same
  addresses become their children (`otel_planspans.c:170`; comment at 165).
* `ScansNestUnderStatement` (`NodeSpans`): a foreign scan of a declared cursor is
  not a child of the cursor's span, which is detached (`otel_fdw.c:123`; comment at
  42-44).
* `RunningQueryIsCurrent` (`StatementTracing`): an SPI
  cursor's span need not be current while it runs (`otel_trace.c:565`; comment
  at 566-568).

In `SdtBridge` two more situations show where its comments promise too much. An
error caught in a subtransaction (`CatchError`) leaves entries of ended spans
on `sdt_stack`, because the callback hears of top-level aborts only
(`otel_sdt_bridge.c:1004`; the comment at 1012-1019 counts `ROLLBACK TO
SAVEPOINT` among what it catches); `EntriesFollowNesting` excepts it by
`skipped`. After `PREPARE TRANSACTION`, `txn_span` holds a released handle and
the next transaction gets no `pg.txn` (line 516; the comment at 1036-1038 says
that it "is always live once a transaction has started"); `OpenSpansAreTracked`
excepts it by `prepared`.

Fairness. `SpanProducer!FairSpec` has weak fairness on the continuation of a
call only: a backend does not stop inside otel_api, and an exporter hook that
never returns is outside the promise. Nothing is assumed about new calls.
`ParallelContext!FairSpec` has weak fairness on a process inside a section and
strong fairness on acquiring the lock: spinlock sections contain no waits, and
`s_lock` raises PANIC on a lock that stays stuck, which is a `CrashRestart`.

## 4. Proofs

The theorems hold for every value of the constants that the module's own
`ASSUME` admits, and these say no more than what kind of value each constant is
(sizes are natural numbers, a null value is not a proper one, a transaction has
at least one level). No proof bounds the number of steps, spans, calls or
backends. Every theorem of an invariant has the same three parts: the initial
states satisfy an inductive invariant, every step preserves it (one lemma per
action, or per conjunct where a conjunct concerns most actions), and it implies
the property. Below is why the properties are not inductive as they stand.

| Theorems in | Inductive invariant | Properties |
|---|---|---|
| `SpanProducerProofs` | `IInv` | `TypeCorrect`, `SlotsNeverLost`, `NrecsNeverLost`, `StackIsSound`, `ExportedAtMostOnce`, `Refinement` |
| | `OwnInv`, on top of `IInv` | `OwnersAreExact`, `SpansHaveAnOwner` |
| | `CountersAddUp`, on top of `IInv` | `CountersAreExact` |
| | a step lemma under `IInv` | `UnwindSparesDetached` |
| `ProcessProofs` | `RootInv` | `SettingIsShown`, `SettingIsShownWithComments`, `CommentsNeverOverride`, `QuietRequestsKeepContext` |
| | `SectionInv` | `SectionsHold`, `NeverTorn`, `Linearizable` |
| | `LoadingInv` | `ExportersAreServed`, `CachedLookupsAreCurrent` |
| `SpanProofs` | `TreeInv` | `TreesAreOfOneMind` |
| | `DataInv` | `BudgetIsNeverExceeded`, `DroppedIsCounted`, `WorstErrorWins`, `FailuresAreDescribed` |
| `StatementTracingProofs` | `StmtInv` | `NoEntryOutlivesItsStatement`, `EndsFindTheirSpan`, `OnlyDeclaredIsDetached`, `StackIsNotOverrun` |
| | a step lemma under `StmtInv` | `HooksDriveRootContext` |
| | `ActiveInv`, `OrphansEnded`, `SpanLevels` | `StatementsKeepTheirSpans` |
| | `Calm`, on top of these | `WorkersReadTheInnermost` |
| `SdtBridgeProofs` | `SdtInv` | `HeldSpansGetTheirDone`, `StackFollowsNesting`, `NoSpanIsLost`, `StacksAreNotOverrun` |
| `PlpgsqlTracingProofs` | `PlInv` | `RegistryIsExact`, `EndsAreLastInFirstOut`, `HandledErrorsEndNoOuterSpan`, `NoSpanOutlivesTheCall`, `WellTyped` |
| `NodeSpansProofs` | `NodeSpansInv` | `NoEntryMisleads`, `NoEntryIsLost`, `NodesNestInTheirPlan`, `SortsGetTheirSpans`, `NodeStacksFit` |

**Producer.** That a finished unwind may end its target needs to know that the
target is still open and where it was found, although hooks ran in between.
`IInv` adds

* `NeverUsedIsFree`: slots above `slots_used` are free;
* `CallInProgress`: during an unwind the target is open, not dispatching and at
  the position found; the slot inside the hook is open and marked;
* `DispatchAccounted`: a slot is marked dispatching only inside the hook, or
  after a FATAL;
* `UnexportedWhileOpen`: an open span's generation was issued, is unique among
  open spans and has not been exported unless marked.

Each conjunct is preserved by every step: the pools by `PoolStep` and
`NrecStep`, the stack by `StackStep`, the call by `CallStep`, exports by
`ExportStep`, on top of lemmas that say what `release_slot`, `free_nrec`,
`dispatch_span` and the stack operations do. `Refinement` shows that every step
is a step of `SpanContract` or a stutter.

Which owner will end a span depends on what is in flight. `OwnInv` adds that no
two owners remember one span (`OneOwner`), that the span inside the hook is
already forgotten unless its owner is the caller (`HookForgotten`), that an
open span's owner lives (`OwnedWhileOpen`), and that the owners being released
are those of the transaction level that ends (`EndingMatches`). The counters
are an account: `Balance` is the number of spans that they say are open, and a
step changes it exactly as it changes the number of open slots; the cardinality
of the set of open slots is followed with the library's finite-set theorems.

**Root context.** The clear at the end of a request acts when the flag of an
`M` message is up, so one needs that the flag is up only while the request that
brought the message lasts (`FlagMeansMessage`). The proof is about
`RootContext`'s steps with a comment that offers *any* context; both
`RootContext`'s and `SqlComment`'s steps are such steps, whatever the scanner
returns, so that nothing about its recursion has to be known.

**Sampling.** A parent precedes its child (`ParentsComeFirst`) and the active
stack holds spans that were started (`StackNamesSpans`), so that the parent a
new span is compared with is there and stays as it is.

**Span contents.** `DataInv` has the account of what was asked for beside what
is stored, charged and dropped, and `Blame`, which says at every moment why a
failed span failed: it was described, its user described it, or the error that
will describe it at the end is still recorded.

**Statement tracing.** An entry's key is the address of something that may end
and be created again. `StmtInv` ties each entry to what it stands for: a call
still in progress, below exactly the subtransactions that its level says, or an
open portal not younger than its level (`LiveEntries`, `BasesFit`); the entries
of failed cursors lie below the live one with the same key (`OrphansBelow`), so
that popping the topmost one is right; `DeclaringChain` ties
`otel_declaring_cursor_name` and every value saved of it to the innermost
`DECLARE`. A detached span's entry then points back to that `DECLARE` and to the start
or run of a portal of that name (`Cursored`), which is `DetachedIffDeclared`.
`HooksDriveRootContext` then is one lemma per hook: each does to the
root context what one action of `RootContext` does, or nothing.

For the spans themselves it must be known what an unwind can reach. `ActiveInv`
says that what is on the active stack is open or activated for a run
(`ActiveHeld`), nothing is there twice (`Distinct`), above the entry of a call
there are only those of calls inside it (`NestedActive`), a declared cursor is
there only while it runs (`DeclaredActive`), a run activates its portal's span and a
query its own (`RunFrames`), and that no two calls or cursors share a span
(`SpansDiffer`). Since SPI cursors start spans that are not detached and
outlive the call that opened them, `NestedActive` speaks of calls, and the
theorem is, like the property, about steps with declared cursors only.
`SpanLevels` says that no span's owner is younger than what the span belongs to,
hence an abort that ends it leaves neither the call nor the portal.
`WorkersFindInnermost` speaks of states that nothing has disturbed; `Calm` says
what holds until then: the slot has the top entry's span, the entries are those
of open spans, in the order of the calls, and all open cursors are declared ones.

**Parallel slots.** `SectionInv` says that a process inside a section holds the
lock, that a slot whose owner is not in its section holds the value it was last
unlocked with, and how far each section has got. It gives `NeverTorn` and, with
the unlocks as linearization points, `Linearizable`: the slots implement
`AtomicSlot`.

**Probe bridge.** `WantedIsEnabled` covers the time between two computations of
the mask: an entry pushed then has its DONE enabled already. `FrameLevels`
orders the operations by the subtransactions they run in, so that an abort takes
a suffix of them and with it a suffix of the stack; `TxnSpanApart` keeps the
transaction's span off all stacks, so that no unwind reaches it.

**PL/pgSQL.** The registry, the statement stacks of the calls, the active stack
and core's nesting must agree, and an error takes them out of step one at a
time. `PlInv` has two halves. `ShapeInv` is about what runs: each statement is one
of a call, the statements of a call are on its stack in their order, among
entries that errors have left there (`StacksFit`), and the subtransactions are
those of the blocks, from the outermost inwards (`BlocksFit`). `SpanInv` binds it
to the spans: frames have spans of their own, which nest as the frames do
(`SpansDiffer`, `SpansNest`), and a span's level, the owner's or the registry's, is
younger than a block's subtransaction exactly if its frame is inside that block
(`LevelsFit`). That is why the suffix of the registry that the abort callback ends
is what the error left, and no more. While the callback has not finished, the
open spans without a frame are those it has still to end (`SpansHeld`), and they
are above all that stays (`AbortEndsTop`). A `ROLLBACK` statement ends spans whose
frames go on; it ends those of the outer frames too (`StaleOutside`), so that an end
callback that finds its span ended, and forgets the top of the registry, finds
the registry empty or its own entry. `NothingLeaks` follows: without frames no span
has one.

**Plan and foreign-scan spans.** An entry is found by its node's address, and an
address is used again while entries of an earlier query may still be there. The
invariant therefore speaks of the entries that are not `dead`: such an entry is the
topmost of its node (`OnTop`), hence the one that `Find` finds, and it is that of a
live node (`Fits`); conversely every node with an open span, and every Sort whose
first call is wrapped, has one, unless a `RELEASE` has moved its query (`Tracked`).
With it goes what an entry and the query it belongs to agree on: the level,
whether a Sort's first call has returned, and the parent of the span, which is an
ancestor with an open span (`ParentFits`). An abort drops entries by level and
core ends queries by level, so the two take the same ones; `CallsNest` and
`LevelsNest` say that the calls which an abort does not leave are those of
queries of outer levels, which it does not touch. What a nested query leaves open
is the business of owners and of `dead` entries only (`LeftWithTop`,
`OwnersReleased`): neither changes the entries that are not dead. That a query ends
in its own frame while nothing else of it runs is `TopIsAlone`.

The walks are inductions over the index of the node: `StartInv` and `EndInv` say
what holds when the first nodes of the plan have been visited, the nodes behind
them having no entry yet, or still their entries. `ParentsAreAncestors` holds in
the end walk because a node is ended before the nodes below it, so that no Sort
finds an ancestor's open span there and all spans minted by the walk are children
of the statement's or of one left open (`SortsNestUnderAncestors` in section 3 is
the other side of this). `SortsAreMeasured` is about queries without dead entries at
their addresses, so that no Sort is refused because of its parent.

**Loading.** `Linked` says that a sequence of exporters is what the hooks run
through, each once; registration puts one in front of it. Before otel_api is
loaded the invariant is about the queue, after it about the sequence; `FoldLinks`
takes one to the other. It is an induction over the queue: the library's fold is
a recursive function on the subsets of the queue's indexes, and `FoldExists` shows
that there is one. `ChainIs` shows that walking from the hook passes that sequence and
stops, which needs that there are finitely many exporters. The lookups need that
otel_api is loaded before the process runs or never (`SlotIsSettled`); only a message
logged before that can leave a wrong answer, and `CachesAgree` says which units have
one.

**Stacks.** `StackFacts` proves what `Stacks`' operators do. `Keep` is recursive
in the length of the stack; the induction is over a *set* of naturals
(`SetInduction`, from the library's theorem that nonempty sets have least
elements), which needs no operator as a parameter.

Only model-checked:

* liveness, `CallsReturn` and `PublishCompletes`: fairness and ENABLED are out of
  the prover's reach;
* `PlanPath` (`RollupIsOwn`, `SlowestAreRanked`): sums, maxima and sorting by
  folds, and comparisons of fractions, which are products of variables;
* `ModuleLoading`'s `ResourceIsResolved`: the precedence of values is stated and
  computed with `SelectSeq`;
* `SqlComment`'s `CommentIsRead`: the scanner is recursive over texts.

Some theorems state what no run checks by itself: `TypeCorrect`,
`StackIsNotOverrun`, `StacksAreNotOverrun`, `WellTyped`, `NodeStacksFit`,
`DataInvariant`, `PlInvariant`, `LoadingInvariant`, `NodeSpansInvariant` and
`SettingIsShown` are types, inductive invariants, and a theorem that a checked one
extends;
`SlotsNeverLost`, `NrecsNeverLost`, `StackIsSound` and `ExportedAtMostOnce` are
conjuncts of `IInv`, which the run `producer` checks; `SectionsHold` and
`NeverTorn` are what `SlotsAreAtomic` rests on.

## 5. Not modelled

Left out:

* conversions of bytes: the characters of a traceparent, hex digits, the binary
  codec, percent escapes beyond whether they are well formed, JSON, attribute
  wording. They keep no state, and unit tests reach them;
* `otel_planshape.c`, a pure function from a plan to a text and its digest;
* tracer scopes and the commit trace-context callback, which allocate or format
  and keep no state; the ids that log correlation puts into a message; the demo
  exporter's file; the definition of settings and the installation of hooks;
* growth of the PL/pgSQL registry, which can raise an error after the span was
  started;
* statements in an aborted block, and API calls made by other extensions during
  backend exit, which the producer refuses;
* in `SqlComment`, a line comment that ends in `*/` after a literal that
  contains `/*`: the scanner would read the code between them as a list. The
  instance has no such statement;
* in `NodeSpans`, spans of sorts that are reconstructed from instrumentation,
  which start and end in one step, set-returning SQL functions that are run lazily,
  and transactions that procedures end;
* in `SpanProducer`, calls with stale handles (section 2);
* in `StatementTracing`, extended-protocol portals with a cursor's name;
* the bridge together with the statement spans of `otel_trace.c`: an execution
  whose START was not seen may end an outer one's span from under a statement
  span. Both models have what core runs in their own terms, and their product is
  out of TLC's reach at bounds where this happens.

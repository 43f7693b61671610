----------------------------- MODULE SdtBridge ------------------------------
(***************************************************************************)
(* The probe bridge (otel_postgres_tracing/otel_sdt_bridge.c): spans made  *)
(* of core's START and DONE probes.  Probes are enabled by family and only *)
(* while they are in pg_sdt_probe_enabled_mask.  The bridge keeps the      *)
(* handles of open spans on a stack of its own, those of sorts on another, *)
(* and the transaction's in txn_span.                                      *)
(*                                                                         *)
(* frames is what core runs between a START and its DONE: a query, begun   *)
(* before its transaction, executions, and operations inside them ("plan"  *)
(* stands for parse, rewrite, plan, smgr, syncrep and lock_wait).  Sorts   *)
(* do not nest.  otel_api is reduced to who owns the open spans and to the *)
(* active stack.  Left out: the statement spans of otel_trace.c, what a    *)
(* client sends in an aborted block, probes in a critical section (which   *)
(* the bridge ignores), attributes and links, and the replica's probe,     *)
(* which starts and ends a span at once.  A definition named ..._m is a    *)
(* faulty variant that no specification uses.                              *)
(***************************************************************************)
EXTENDS Integers, Sequences, Stacks

CONSTANTS
    Settings,           \* the values otel.trace_sdt_probes is given
    SDT_STACK_SIZE,
    SORT_STACK_SIZE,
    MAX_LEVEL,          \* bound: transaction nesting
    MAX_FRAMES,         \* bound: nested operations
    MAX_SORTS,          \* bound: sorts open at once
    Spans               \* bound: handles; 0 is OTEL_SPAN_NONE

Nested   == {"query", "execute", "plan"}
Families == Nested \union {"txn", "sort"}

ASSUME SdtAssumption ==
    /\ Settings \subseteq SUBSET Families
    /\ SDT_STACK_SIZE \in Nat /\ SORT_STACK_SIZE \in Nat
    /\ MAX_LEVEL \in Nat \ {0}
    /\ MAX_FRAMES \in Nat /\ MAX_SORTS \in Nat
    /\ 0 \notin Spans

VARIABLES
    frames,         \* core: operations under way; last = innermost
    sorts,          \* core: the level each open sort belongs to
    level,          \* core: transaction nesting, 0 outside a transaction
    owner,          \* otel_api: owner of each span, NoSpan if not open
    active,         \* otel_api: the active stack
    wanted,         \* sdt_wanted_mask, as families
    mask,           \* pg_sdt_probe_enabled_mask
    sdt_stack, sort_stack, txn_span,
    forgotten,      \* history: open spans a COMMIT probe made us forget
    skipped,        \* history: a caught error skipped DONEs
    prepared        \* history: txn_span is that of a prepared transaction

core     == <<frames, sorts, level>>
otel_api == <<owner, active>>
bridge   == <<wanted, mask, sdt_stack, sort_stack, txn_span>>
history  == <<forgotten, skipped, prepared>>
vars     == <<core, otel_api, bridge, history>>

SESSION == 0        \* owner of a span without a resource owner
NoSpan  == -1

Ref    == Spans \union {0}
(* TRANSACTION_COMMIT and _ABORT are enabled together: both are txn's DONE. *)
Probes == Families \X {"START", "DONE"}
Entry  == [fam : Nested, span : Ref]
Frame  == [fam : Nested, level : 0..MAX_LEVEL]

IsOpen(s) == s # 0 /\ owner[s] # NoSpan
Open      == {s \in Spans : IsOpen(s)}

Stacked == {e.span : e \in Items(sdt_stack)} \union Items(sort_stack)

(* Ids nothing refers to: refs are never confused.                         *)
Unused == Spans \ (Open \union Stacked \union {txn_span})

-----------------------------------------------------------------------------
(* otel_api.  A start returns no span (0) at its limit.                    *)

(* root: a root or leader context is set; it changes at any time.          *)
HaveContext(root) == active # <<>> \/ root

StartSpan(s, own, detached) ==
    /\ IF Unused = {} THEN s = 0 ELSE s \in Unused
    /\ owner'  = IF s = 0 THEN owner ELSE [owner EXCEPT ![s] = own]
    /\ active' = IF s = 0 \/ detached THEN active ELSE Append(active, s)

Above(s) == {active[k] : k \in {j \in 1..Len(active) :
                \E i \in 1..Len(active) : active[i] = s /\ i < j}}

(* These spans are no longer open: ended, discarded or released.           *)
Close(gone) ==
    /\ owner'  = [t \in Spans |-> IF t \in gone THEN NoSpan ELSE owner[t]]
    /\ active' = Keep(active, Spans \ gone)
    /\ forgotten' = forgotten \ gone

otel_span_end(s) == Close(IF IsOpen(s) THEN {s} \union Above(s) ELSE {})

OwnedFrom(l) == {s \in Spans : owner[s] >= l}

-----------------------------------------------------------------------------
(* The mask of enabled probes.                                             *)

Wants(w) == w \X {"START", "DONE"}

OpenFamilies_m(stack, sort, txn) == {}
OpenFamilies(stack, sort, txn) ==
    {e.fam : e \in Items(stack)}
      \union (IF sort # <<>> THEN {"sort"} ELSE {})
      \union (IF txn # 0 THEN {"txn"} ELSE {})

sdt_sync_probe_mask ==
    mask' = Wants(wanted')
              \union (OpenFamilies(sdt_stack', sort_stack', txn_span')
                        \X {"DONE"})

Enabled(fam, what) == <<fam, what>> \in mask

(* sdt_probes_check_hook refuses unknown families before this.             *)
sdt_probes_assign_hook(w) ==
    /\ w \in Settings /\ wanted' = w
    /\ UNCHANGED <<sdt_stack, sort_stack, txn_span>>
    /\ sdt_sync_probe_mask
    /\ UNCHANGED <<core, otel_api, history>>

-----------------------------------------------------------------------------
(* START and DONE of operations that nest.                                 *)

StackFull == Len(sdt_stack) >= SDT_STACK_SIZE

(* A query begins outermost, in or outside a transaction; everything else  *)
(* in one.                                                                 *)
Starts(fam, root, s) ==
    LET traced == Enabled(fam, "START") /\ HaveContext(root) /\ ~StackFull
    IN /\ Len(frames) < MAX_FRAMES
       /\ fam = "query" => frames = <<>>
       /\ fam # "query" => level > 0
       /\ IF traced
          THEN /\ StartSpan(s, level, FALSE)
               /\ sdt_stack' = Append(sdt_stack, [fam |-> fam, span |-> s])
          ELSE s = 0 /\ UNCHANGED <<otel_api, sdt_stack>>
       /\ frames' = Append(frames, [fam |-> fam, level |-> level])
       /\ UNCHANGED <<sorts, level, wanted, mask, sort_stack,
                      txn_span, history>>

(* Only the family tells whether the top entry is this DONE's.             *)
Done ==
    LET fam == Last(frames).fam
        match == Enabled(fam, "DONE") /\ sdt_stack # <<>>
                   /\ Last(sdt_stack).fam = fam
    IN /\ frames # <<>>
       /\ fam # "query" => level > 0
       /\ frames' = Front(frames)
       /\ UNCHANGED <<wanted, sort_stack, txn_span>>
       /\ IF match
          THEN /\ sdt_stack' = Front(sdt_stack)
               /\ sdt_sync_probe_mask
               /\ otel_span_end(Last(sdt_stack).span)
          ELSE UNCHANGED <<sdt_stack, mask, otel_api, forgotten>>
       /\ UNCHANGED <<sorts, level, skipped, prepared>>

-----------------------------------------------------------------------------
(* Sorts: detached spans, their DONEs matched by position only.            *)

SortStarts(root, s) ==
    /\ level > 0 /\ frames # <<>> /\ Len(sorts) < MAX_SORTS
    /\ sorts' = Append(sorts, level)
    /\ IF Enabled("sort", "START") /\ HaveContext(root)
            /\ Len(sort_stack) < SORT_STACK_SIZE
       THEN /\ StartSpan(s, level, TRUE)
            /\ sort_stack' = Append(sort_stack, s)
       ELSE s = 0 /\ UNCHANGED <<otel_api, sort_stack>>
    /\ UNCHANGED <<frames, level, wanted, mask, sdt_stack,
                   txn_span, history>>

SortDone(k) ==
    /\ k \in 1..Len(sorts)
    /\ sorts' = Remove(sorts, k)
    /\ UNCHANGED <<wanted, sdt_stack, txn_span>>
    /\ IF Enabled("sort", "DONE") /\ sort_stack # <<>>
       THEN /\ sort_stack' = Front(sort_stack)
            /\ sdt_sync_probe_mask
            /\ otel_span_end(Last(sort_stack))
       ELSE UNCHANGED <<sort_stack, mask, otel_api, forgotten>>
    /\ UNCHANGED <<frames, level, skipped, prepared>>

-----------------------------------------------------------------------------
(* Transactions.                                                           *)

(* A txn_span left over from a prepared transaction stays.                 *)
TransactionStart(s) ==
    /\ level = 0 /\ level' = 1
    /\ IF Enabled("txn", "START") /\ txn_span = 0
       THEN StartSpan(s, 1, TRUE) /\ txn_span' = s
       ELSE s = 0 /\ UNCHANGED <<otel_api, txn_span>>
    /\ UNCHANGED <<frames, sorts, wanted, mask, sdt_stack,
                   sort_stack, history>>

(* At the end of a statement, before its QUERY_DONE, or in a procedure.    *)
MayCommit == level = 1 /\ \A f \in Items(frames) : f.fam # "plan"

(* The COMMIT probe comes before the resource owner's release, which ends  *)
(* what the transaction owns; there is nothing to do for the callback.     *)
Commit ==
    LET probed == Enabled("txn", "DONE")
        gone == OwnedFrom(1) \union
                  (IF probed /\ IsOpen(txn_span) THEN {txn_span} ELSE {})
    IN /\ MayCommit
       /\ level' = 0 /\ wanted' = wanted
       /\ owner'  = [t \in Spans |-> IF t \in gone THEN NoSpan ELSE owner[t]]
       /\ active' = Keep(active, Spans \ gone)
       /\ IF probed
          THEN /\ txn_span' = 0 /\ sdt_stack' = <<>> /\ sort_stack' = <<>>
               /\ sdt_sync_probe_mask
               /\ forgotten' = (forgotten \union (Stacked \intersect Open))
                                 \ gone
               /\ skipped' = FALSE /\ prepared' = FALSE
          ELSE /\ UNCHANGED <<txn_span, sdt_stack, sort_stack, mask>>
               /\ forgotten' = forgotten \ gone
               /\ UNCHANGED <<skipped, prepared>>
       /\ UNCHANGED <<frames, sorts>>

(* No probe, and the callback ignores XACT_EVENT_PREPARE.                  *)
Prepare ==
    /\ level = 1 /\ \A f \in Items(frames) : f.fam = "query"
    /\ level' = 0
    /\ Close(OwnedFrom(1))
    /\ prepared' = (txn_span # 0)
    /\ UNCHANGED <<frames, sorts, bridge, skipped>>

(* What sdt_discard_open_spans discards.                                   *)
Discarded_m == {}
Discarded == Stacked

(* An error at the top level: the ABORT probe if it is enabled, then the   *)
(* callback, which does the same again, then the release.  A ROLLBACK in a *)
(* procedure (keep) leaves what runs running.                              *)
AbortTransaction(keep) ==
    /\ level > 0
    /\ keep => level = 1 /\ \A f \in Items(frames) : f.fam # "plan"
    /\ frames' = IF keep THEN frames ELSE <<>>
    /\ sorts' = <<>> /\ level' = 0
    /\ txn_span' = 0 /\ sdt_stack' = <<>> /\ sort_stack' = <<>>
    /\ wanted' = wanted /\ sdt_sync_probe_mask
    /\ Close(Discarded \union OwnedFrom(1))
    /\ skipped' = FALSE /\ prepared' = FALSE

-----------------------------------------------------------------------------
(* Subtransactions, of which the bridge hears nothing.                     *)

Inner == frames # <<>> /\ Last(frames).level = level

BeginSub ==
    /\ level \in 1..MAX_LEVEL - 1 /\ frames # <<>>
    /\ level' = level + 1
    /\ UNCHANGED <<frames, sorts, otel_api, bridge, history>>

(* Portals, with their sorts, go to the parent; other spans are released.  *)
CommitSub ==
    LET gone == OwnedFrom(level) \ Items(sort_stack)
    IN /\ level > 1 /\ (Inner => Last(frames).fam = "query")
       /\ level' = level - 1
       /\ sorts' = [k \in 1..Len(sorts) |->
                      IF sorts[k] = level THEN level - 1 ELSE sorts[k]]
       /\ owner' = [t \in Spans |->
                      IF t \in gone THEN NoSpan
                      ELSE IF owner[t] = level THEN level - 1 ELSE owner[t]]
       /\ active' = Keep(active, Spans \ gone)
       /\ frames' = [k \in 1..Len(frames) |->
                       IF frames[k].level = level
                       THEN [frames[k] EXCEPT !.level = level - 1]
                       ELSE frames[k]]
       /\ forgotten' = forgotten \ gone
       /\ UNCHANGED <<bridge, skipped, prepared>>

(* An error that a handler or a savepoint stops: control leaves what was   *)
(* begun in the subtransaction.                                            *)
CatchError ==
    /\ level > 1 /\ frames # <<>>
    /\ level' = level - 1
    /\ frames' = Keep(frames, {f \in Items(frames) : f.level < level})
    /\ sorts'  = Keep(sorts, 1..(level - 1))
    /\ Close(OwnedFrom(level))
    /\ skipped' = (skipped \/ (Inner /\ sdt_stack # <<>>))
    /\ UNCHANGED <<bridge, prepared>>

(* ROLLBACK TO: the statement itself goes on.                              *)
RollbackTo ==
    /\ level > 1 /\ frames # <<>>
    /\ \A f \in Items(frames) : f.fam = "query"
    /\ sorts' = Keep(sorts, 1..(level - 1))
    /\ Close(OwnedFrom(level))
    /\ UNCHANGED <<frames, level, bridge, skipped, prepared>>

Init ==
    /\ frames = <<>> /\ sorts = <<>> /\ level = 0
    /\ owner = [s \in Spans |-> NoSpan] /\ active = <<>>
    /\ wanted \in Settings /\ mask = Wants(wanted)
    /\ sdt_stack = <<>> /\ sort_stack = <<>> /\ txn_span = 0
    /\ forgotten = {} /\ skipped = FALSE /\ prepared = FALSE

Next ==
    \/ \E w \in Settings : sdt_probes_assign_hook(w)
    \/ \E fam \in Nested, root \in BOOLEAN, s \in Ref : Starts(fam, root, s)
    \/ Done
    \/ \E root \in BOOLEAN, s \in Ref : SortStarts(root, s)
    \/ \E k \in 1..MAX_SORTS : SortDone(k)
    \/ \E s \in Ref : TransactionStart(s)
    \/ Commit
    \/ Prepare
    \/ \E keep \in BOOLEAN : AbortTransaction(keep)
    \/ BeginSub
    \/ CommitSub
    \/ CatchError
    \/ RollbackTo

Spec == Init /\ [][Next]_vars

-----------------------------------------------------------------------------
(* Properties.                                                             *)

(* Every variable keeps its type, and neither array of handles is overrun  *)
(* however deep probes nest.                                               *)
TypeOK ==
    /\ Items(frames) \subseteq Frame /\ Len(frames) <= MAX_FRAMES
    /\ Items(sorts) \subseteq 1..MAX_LEVEL /\ level \in 0..MAX_LEVEL
    /\ owner \in [Spans -> {NoSpan, SESSION} \union 1..MAX_LEVEL]
    /\ Items(active) \subseteq Open
    /\ wanted \in Settings /\ mask \subseteq Probes
    /\ Items(sdt_stack) \subseteq Entry /\ Len(sdt_stack) <= SDT_STACK_SIZE
    /\ Items(sort_stack) \subseteq Ref /\ Len(sort_stack) <= SORT_STACK_SIZE
    /\ txn_span \in Ref
    /\ forgotten \subseteq Open /\ skipped \in BOOLEAN /\ prepared \in BOOLEAN

(* The probe that ends a span the bridge holds is enabled as long as it    *)
(* holds it, whatever otel.trace_sdt_probes is set to in between; probes   *)
(* that start spans are enabled only for the families asked for.           *)
DoneProbesStayEnabled ==
    /\ \A e \in Items(sdt_stack) : Enabled(e.fam, "DONE")
    /\ sort_stack # <<>> => Enabled("sort", "DONE")
    /\ txn_span # 0 => Enabled("txn", "DONE")
    /\ \A fam \in Families : Enabled(fam, "START") => fam \in wanted

(* The stack holds entries of operations that still run, in the order they *)
(* nest, so the DONE of an operation finds its own entry on top and a      *)
(* backend that runs nothing holds none; setting changes, transactions and *)
(* errors in between do not matter, except errors caught in a              *)
(* subtransaction, which leave entries behind until the next realignment.  *)
EntriesFollowNesting ==
    ~skipped => \E at \in [1..Len(sdt_stack) -> 1..Len(frames)] :
        /\ \A j, k \in 1..Len(sdt_stack) : j < k => at[j] < at[k]
        /\ \A k \in 1..Len(sdt_stack) : frames[at[k]].fam = sdt_stack[k].fam

(* The bridge never loses a span: every open span is on one of its stacks  *)
(* or is the transaction's, so that its DONE, an abort or the owner ends   *)
(* it; the spans a COMMIT probe forgot are the exception.  Before a        *)
(* PREPARE, txn_span is open.                                              *)
OpenSpansAreTracked ==
    /\ Open \subseteq Stacked \union {txn_span} \union forgotten
    /\ txn_span # 0 /\ ~prepared => IsOpen(txn_span) /\ level > 0

(* What the comment on the transaction probes says, that when COMMIT fires *)
(* every statement's span has had its DONE, so that resetting sdt_top      *)
(* forgets none that is open: pg.query, which begins before the            *)
(* transaction and is ended after it, refutes it.                          *)
RealignForgetsNoOpenSpan == forgotten = {}
=============================================================================

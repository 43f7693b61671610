-------------------------- MODULE StatementTracing --------------------------
(***************************************************************************)
(* Statement spans (otel_postgres_tracing/otel_trace.c): the executor and  *)
(* utility hooks, the bookkeeping stack that finds a statement's span      *)
(* again when the statement ends, cursors, the sqlcommenter context of a   *)
(* statement, and the context published for parallel workers.  The root    *)
(* context is RootContext's; otel_api's store is reduced to which spans    *)
(* are open, who owns them and the active stack (SpanProducer has it all); *)
(* every span started is taken to be recording.                            *)
(*                                                                         *)
(* frames is the C stack of hook calls.  An exec frame is a query from its *)
(* ExecutorStart to its ExecutorEnd; a util frame is a ProcessUtility      *)
(* call; a start frame is a PortalStart, a run frame an ExecutorRun of a   *)
(* portal.  A portal is a cursor: DECLAREd, or opened through SPI; one     *)
(* whose name is no cursor's, as EXECUTE's, is 0.  Definitions whose names *)
(* end in _m are faulty variants that no specification uses.               *)
(***************************************************************************)
EXTENDS Integers, Sequences, FiniteSets, Stacks

CONSTANTS
    Ctx, None,              \* as in RootContext
    OTEL_STMT_STACK_MAX,    \* entries of stmt_stack
    MAX_LEVEL,              \* bound: transaction nesting
    MAX_FRAMES,             \* bound: nested hook calls
    Portals,                \* portal names, positive numbers
    SPI_CURSORS,            \* whether SPI may open portals
    CTX_WITH_CURSORS,       \* bound: FALSE explores contexts and portals
                            \* one at a time
    Spans                   \* bound: span ids, positive numbers

ASSUME TracingAssumption ==
    /\ OTEL_STMT_STACK_MAX \in Nat \ {0}
    /\ MAX_LEVEL \in Nat \ {0}
    /\ MAX_FRAMES \in Nat \ {0}
    /\ Portals \subseteq Nat \ {0}
    /\ SPI_CURSORS \in BOOLEAN /\ CTX_WITH_CURSORS \in BOOLEAN
    /\ Spans \subseteq Nat \ {0}

(* RootContext's NoneAssumption.                                           *)
ASSUME ContextsAssumption == None \notin Ctx

VARIABLES
    guc, undo, root_ctx, otel_ctx_from_M_header, ready, m_seen,
    stmt_stack,             \* the bookkeeping stack; last = top
    declaring,              \* otel_declaring_cursor_name, 0 = NULL
    leader,                 \* span in this backend's parallel slot, 0 = clear
    trace_all,              \* otel.trace_all_queries
    level,                  \* core: transaction nest level
    bases,                  \* core: frames below each open subtransaction
    failed,                 \* core: the transaction block is in error
    frames,                 \* core: hook calls in progress; last = innermost
    portals,                \* core: open portals
    owner,                  \* otel_api: level of an open span's owner, 0 = ended
    active,                 \* otel_api: the active stack
    disturbed               \* history: see WorkersFindInnermost

rootVars  == <<guc, undo, root_ctx, otel_ctx_from_M_header>>
coreVars  == <<level, bases, failed>>
spanVars  == <<stmt_stack, leader, owner, active>>
vars == <<rootVars, ready, m_seen, declaring, trace_all, coreVars, frames,
          portals, spanVars, disturbed>>

(* An aborted transaction's settings are already rolled back.              *)
RC == INSTANCE RootContext WITH in_xact <- level > 1 \/ (level = 1 /\ ~failed)

-----------------------------------------------------------------------------
(* Data.  A key is a frame's depth or minus a portal's name: addresses are *)
(* used again, and so are these.                                           *)

Key == (1..MAX_FRAMES) \union {-p : p \in Portals}

(* orphan is history: the entry's portal failed (see Error).               *)
StmtSpanEntry == [key : Key, ref : Spans, subxact_level : 0..MAX_LEVEL,
                  detached : BOOLEAN, orphan : BOOLEAN]

(* span is history (the span started for the frame, 0: none); name is the  *)
(* portal started or run, or the one a DECLARE declares; saved is          *)
(* save_declaring_cursor_name; act is the activation of otel_ExecutorRun.  *)
Frame == [kind : {"exec", "util", "start", "run"}, span : Spans \union {0},
          toplevel : BOOLEAN, name : Portals \union {0},
          saved : Portals \union {0}, act : Spans \union {0}]
ExecFrame == [kind |-> "exec", span |-> 0, toplevel |-> FALSE, name |-> 0,
              saved |-> 0, act |-> 0]

(* taken is history: SPI opened the portal while a DECLARE of the same     *)
(* name was in progress.                                                   *)
Portal    == [lev : 0..MAX_LEVEL, span : Spans \union {0},
              declared : BOOLEAN, taken : BOOLEAN, failed : BOOLEAN]
NoPortal  == [lev |-> 0, span |-> 0, declared |-> FALSE, taken |-> FALSE,
              failed |-> FALSE]
IsOpen(p) == portals[p].lev > 0
OnlyDeclared == \A p \in Portals : IsOpen(p) => portals[p].declared

ActiveEntry == [span : Spans, is_activation : BOOLEAN, lev : 0..MAX_LEVEL]

Depth == Len(frames)

(* An id nothing refers to: refs are never confused (SpanProducer's        *)
(* generations).                                                           *)
Unused ==
    Spans \ ({s \in Spans : owner[s] > 0}
             \union {e.ref : e \in Items(stmt_stack)}
             \union {f.span : f \in Items(frames)}
             \union {f.act : f \in Items(frames)}
             \union {portals[p].span : p \in Portals}
             \union {leader})

-----------------------------------------------------------------------------
(* otel_api, as SpanProducer has it: positions of a span on a stack, and   *)
(* what an end or a deactivation leaves.                                   *)

PosIn(act, s) == {k \in 1..Len(act) : act[k].span = s}

(* Everything above the span's entry goes, and the entry with it.          *)
Cut(act, s) ==
    IF PosIn(act, s) = {} THEN act
    ELSE Prefix(act, (CHOOSE k \in PosIn(act, s) : TRUE) - 1)

(* The spans that go with the entry above s: not activated ones.           *)
Above(act, s) ==
    {act[k].span : k \in {j \in 1..Len(act) :
        /\ \E i \in PosIn(act, s) : j > i
        /\ ~act[j].is_activation}}

EndSpans(own, S) == [s \in Spans |-> IF s \in S THEN 0 ELSE own[s]]

-----------------------------------------------------------------------------
(* The bookkeeping stack, as functions of its old value.                   *)

(* pop_stmt_span: the topmost entry with the key.                          *)
Found(stk, key) == {k \in 1..Len(stk) : stk[k].key = key}
FoundAt(stk, key) ==
    CHOOSE k \in Found(stk, key) : \A j \in Found(stk, key) : j <= k

Popped(stk, key) ==
    IF Found(stk, key) = {} THEN stk ELSE Remove(stk, FoundAt(stk, key))

PoppedRef(stk, key) ==
    IF Found(stk, key) = {} THEN 0 ELSE stk[FoundAt(stk, key)].ref

(* restore_leader_context, after the stack became stk and owners own.      *)
RestoredLeader_m(stk, own) == leader

RestoredLeader(stk, own) ==
    CASE stk = <<>>               -> 0
      [] stk # <<>> /\ own[Last(stk).ref] > 0 -> Last(stk).ref
      [] OTHER                    -> leader

(* maybe_reset_comment_context, reached only when the statement had a span.*)
ContextAfter_m(s) == IF s = 0 THEN root_ctx ELSE RC!ResetCtx
ContextAfter(s) == IF s = 0 THEN root_ctx ELSE RC!Uncommented(root_ctx)

(* pop_stmt_span(key) then finalize_stmt_span: the span ends, whatever is  *)
(* above it on the active stack with it.  Then a portal's owner releases   *)
(* the span it may still hold.                                             *)
PopAndFinalize(key, held) ==
    LET s   == PoppedRef(stmt_stack, key)
        stk == Popped(stmt_stack, key)
        own == IF s # 0 /\ owner[s] > 0
               THEN EndSpans(owner, {s} \union Above(active, s)) ELSE owner
        act == IF s # 0 /\ owner[s] > 0 THEN Cut(active, s) ELSE active
    IN /\ stmt_stack' = stk
       /\ owner' = EndSpans(own, {held})
       /\ active' = Keep(act, {e \in Items(act) : e.span # held})
       /\ leader' = IF s = 0 THEN leader ELSE RestoredLeader(stk, own)
       /\ root_ctx' = ContextAfter(s)
       /\ UNCHANGED <<guc, undo, otel_ctx_from_M_header>>

(* start_stmt_span's gate: a context to join, or trace_all_queries.        *)
HaveContext(rc) == active # <<>> \/ rc.is_set

StackFull == Len(stmt_stack) >= OTEL_STMT_STACK_MAX

(* maybe_apply_sqlcommenter(c), start_stmt_span, push_stmt_span(key): s is *)
(* the span, 0 when the gate or otel_span_start says no.  A full stack     *)
(* ends the span at once, after it was published.                          *)
StartAndPush(key, c, s, detached) ==
    LET rc == RC!Commented(root_ctx, c)
    IN /\ root_ctx' = rc
       /\ s # 0 => HaveContext(rc) \/ trace_all
       /\ leader' = IF s = 0 THEN leader ELSE s
       /\ IF s = 0 \/ StackFull THEN UNCHANGED <<stmt_stack, owner, active>>
          ELSE /\ stmt_stack' = Append(stmt_stack,
                     [key |-> key, ref |-> s, subxact_level |-> level,
                      detached |-> detached, orphan |-> FALSE])
               /\ owner' = [owner EXCEPT ![s] = level]
               /\ active' = IF detached THEN active
                            ELSE Append(active, [span |-> s, lev |-> level,
                                                 is_activation |-> FALSE])
       /\ UNCHANGED <<guc, undo, otel_ctx_from_M_header>>

(* History, for WorkersFindInnermost: SPI opened a cursor, or the stack was *)
(* found full.                                                             *)
Disturbs(s, spi) == disturbed' = (disturbed \/ spi \/ (s # 0 /\ StackFull))

(* The span a start may return: none, or one with the least unused id.     *)
Startable ==
    LET U == Unused IN {0} \union {s \in U : \A t \in U : s <= t}

(* CTX_WITH_CURSORS: no portal has left a trace, no context is in force.   *)
NoCursors ==
    /\ \A p \in Portals : ~IsOpen(p)
    /\ \A e \in Items(stmt_stack) : ~e.orphan
NoContexts ==
    /\ guc = RC!RESET_VAL /\ undo = RC!NoUndo
    /\ root_ctx = RC!ResetCtx /\ ~otel_ctx_from_M_header /\ ~m_seen

Comments == {None} \union {c \in Ctx : CTX_WITH_CURSORS \/ NoCursors}

-----------------------------------------------------------------------------
(* Hooks.                                                                  *)

is_declaring_cursor_m(p) == FALSE

(* otel_active_portal_is_declaring_cursor, ActivePortal being p.           *)
is_declaring_cursor(p) == declaring # 0 /\ declaring = p

(* The portal that is being started or run innermost: queries of SPI and   *)
(* utility statements do not change it, and an error puts it back.         *)
ActivePortal ==
    LET P == {k \in 1..Depth : frames[k].kind \in {"start", "run"}}
    IN IF P = {} THEN 0 ELSE frames[CHOOSE k \in P : \A j \in P : j <= k].name

(* otel_ExecutorStart of a query that is no cursor's, by the client or     *)
(* nested.                                                                 *)
ExecutorStart(c, s) ==
    /\ level > 0 /\ ~failed
    /\ Depth < MAX_FRAMES
    /\ StartAndPush(Depth + 1, c, s, is_declaring_cursor(ActivePortal))
    /\ Disturbs(s, FALSE)
    /\ frames' = Append(frames, [ExecFrame EXCEPT !.span = s])
    /\ ready' = FALSE
    /\ UNCHANGED <<m_seen, declaring, trace_all, coreVars, portals>>

(* A statement ends after the subtransactions begun in it.                 *)
MayReturn == Depth > (IF level > 1 THEN Last(bases) ELSE 0)

ExecutorEnd ==
    /\ MayReturn /\ Last(frames).kind = "exec" /\ Last(frames).act = 0
    /\ PopAndFinalize(Depth, 0)
    /\ frames' = Front(frames)
    /\ ready' = FALSE
    /\ UNCHANGED <<m_seen, declaring, trace_all, coreVars, portals, disturbed>>

(* otel_ProcessUtility up to the call of the next hook.  declares is the   *)
(* cursor a DECLARE CURSOR names, else 0.  Only the client's own command   *)
(* gets a span; in a failed transaction block only that command runs.      *)
ProcessUtility(c, s, declares) ==
    /\ level > 0 /\ (failed => Depth = 0 /\ declares = 0)
    /\ Depth < MAX_FRAMES
    /\ frames' = Append(frames, [kind |-> "util", span |-> s,
                                 toplevel |-> (Depth = 0), name |-> declares,
                                 saved |-> declaring, act |-> 0])
    /\ declaring' = IF declares # 0 THEN declares ELSE declaring
    /\ IF Depth = 0 THEN StartAndPush(1, c, s, FALSE)
       ELSE s = 0 /\ c = None /\ UNCHANGED <<rootVars, spanVars>>
    /\ Disturbs(s, FALSE)
    /\ ready' = FALSE
    /\ UNCHANGED <<m_seen, trace_all, coreVars, portals>>

(* A DECLARE that finds its cursor's name taken fails.                     *)
ProcessUtilityReturns ==
    /\ MayReturn /\ Last(frames).kind = "util"
    /\ \A p \in Portals : Last(frames).name = p /\ IsOpen(p) => portals[p].declared
    /\ declaring' = Last(frames).saved
    /\ IF Last(frames).toplevel THEN PopAndFinalize(Depth, 0)
       ELSE UNCHANGED <<rootVars, spanVars>>
    /\ frames' = Front(frames)
    /\ ready' = FALSE
    /\ UNCHANGED <<m_seen, trace_all, coreVars, portals, disturbed>>

Declares(f, p) == f.kind = "util" /\ f.name = p

(* PortalStart makes the portal the active one and calls                   *)
(* otel_ExecutorStart for its query: by DECLARE CURSOR, or by SPI.         *)
PortalStart(p, c, s, declared) ==
    /\ level > 0 /\ ~failed
    /\ 0 < Depth /\ Depth < MAX_FRAMES /\ ~IsOpen(p)
    /\ CTX_WITH_CURSORS \/ (c = None /\ NoContexts)
    /\ IF declared THEN Declares(Last(frames), p) ELSE SPI_CURSORS
    /\ StartAndPush(-p, c, s, is_declaring_cursor(p))
    /\ Disturbs(s, ~declared)
    /\ portals' = [portals EXCEPT ![p] =
                     [lev |-> level, span |-> s, failed |-> FALSE,
                      declared |-> declared,
                      taken |-> ~declared /\ \E f \in Items(frames) : Declares(f, p)]]
    /\ frames' = Append(frames, [ExecFrame EXCEPT !.kind = "start", !.name = p])
    /\ ready' = FALSE
    /\ UNCHANGED <<m_seen, declaring, trace_all, coreVars>>

(* EXECUTE makes a portal active whose name is no cursor's: where none is  *)
(* that is one's, it makes no difference.                                  *)
OtherPortalStart ==
    /\ level > 0 /\ ~failed
    /\ ActivePortal # 0 /\ Depth < MAX_FRAMES
    /\ frames' = Append(frames, [ExecFrame EXCEPT !.kind = "start"])
    /\ ready' = FALSE
    /\ UNCHANGED <<rootVars, m_seen, declaring, trace_all, coreVars, portals,
                   spanVars, disturbed>>

(* PortalStart returns, when the query's standard_ExecutorStart, which may *)
(* run other queries, has; or EXECUTE does.                                *)
PortalStartReturns ==
    /\ MayReturn /\ Last(frames).kind = "start"
    /\ frames' = Front(frames)
    /\ ready' = FALSE
    /\ UNCHANGED <<rootVars, m_seen, declaring, trace_all, coreVars, portals,
                   spanVars, disturbed>>

Running(p) ==
    \E f \in Items(frames) : f.kind \in {"start", "run"} /\ f.name = p

(* CLOSE, or the end of the transaction, which drops portals before        *)
(* anything else: otel_ExecutorEnd of the portal's query, which core never *)
(* calls for a portal that failed.                                         *)
PortalEnd(p) ==
    /\ level > 0 /\ ~failed
    /\ IsOpen(p) /\ ~Running(p)
    /\ IF portals[p].failed THEN UNCHANGED <<rootVars, spanVars>>
       ELSE PopAndFinalize(-p, portals[p].span)
    /\ portals' = [portals EXCEPT ![p] = NoPortal]
    /\ ready' = FALSE
    /\ UNCHANGED <<m_seen, declaring, trace_all, coreVars, frames, disturbed>>

(* peek_cursor_span: the cursor's span, if its entry is there and is       *)
(* detached.                                                               *)
peek_cursor_span(key) ==
    IF Found(stmt_stack, key) # {}
       /\ stmt_stack[FoundAt(stmt_stack, key)].detached
    THEN PoppedRef(stmt_stack, key) ELSE 0

(* otel_span_activate.                                                     *)
Activatable(s) == s # 0 /\ owner[s] > 0 /\ PosIn(active, s) = {}
Activation(s) == [span |-> s, lev |-> level, is_activation |-> TRUE]

(* otel_ExecutorRun of a portal's query (FETCH): a cursor's span is        *)
(* activated for the run, if it is still open.                             *)
ExecutorRun(p) ==
    /\ level > 0 /\ ~failed
    /\ Depth > 0 /\ Depth < MAX_FRAMES
    /\ IsOpen(p) /\ ~Running(p) /\ ~portals[p].failed
    /\ LET s == peek_cursor_span(-p)
           a == IF Activatable(s) THEN s ELSE 0
       IN /\ frames' = Append(frames, [ExecFrame EXCEPT
                                !.kind = "run", !.name = p, !.act = a])
          /\ active' = IF a = 0 THEN active ELSE Append(active, Activation(a))
    /\ ready' = FALSE
    /\ UNCHANGED <<rootVars, m_seen, declaring, trace_all, coreVars, portals,
                   stmt_stack, leader, owner, disturbed>>

(* otel_span_deactivate of the run's token.                                *)
Deactivated(a) ==
    /\ owner' = IF PosIn(active, a) = {} THEN owner
                ELSE EndSpans(owner, Above(active, a))
    /\ active' = Cut(active, a)

ExecutorRunReturns ==
    /\ MayReturn /\ Last(frames).kind = "run"
    /\ Deactivated(Last(frames).act)
    /\ frames' = Front(frames)
    /\ ready' = FALSE
    /\ UNCHANGED <<rootVars, m_seen, declaring, trace_all, coreVars, portals,
                   stmt_stack, leader, disturbed>>

(* otel_ExecutorRun of another query, which matters when the query was     *)
(* taken for the cursor's: its span, which is detached, is activated.      *)
QueryRun ==
    /\ MayReturn /\ Last(frames).kind = "exec" /\ Last(frames).act = 0
    /\ LET s == peek_cursor_span(Depth)
       IN /\ Activatable(s)
          /\ frames' = [frames EXCEPT ![Depth].act = s]
          /\ active' = Append(active, Activation(s))
    /\ ready' = FALSE
    /\ UNCHANGED <<rootVars, m_seen, declaring, trace_all, coreVars, portals,
                   stmt_stack, leader, owner, disturbed>>

QueryRunReturns ==
    /\ MayReturn /\ Last(frames).kind = "exec" /\ Last(frames).act # 0
    /\ Deactivated(Last(frames).act)
    /\ frames' = [frames EXCEPT ![Depth].act = 0]
    /\ ready' = FALSE
    /\ UNCHANGED <<rootVars, m_seen, declaring, trace_all, coreVars, portals,
                   stmt_stack, leader, disturbed>>

-----------------------------------------------------------------------------
(* Transactions, and what the callbacks do.                                *)

BeginXact ==
    /\ level = 0
    /\ level' = 1
    /\ ready' = FALSE
    /\ UNCHANGED <<rootVars, m_seen, declaring, trace_all, bases, failed,
                   frames, portals, spanVars, disturbed>>

(* SAVEPOINT, or a PL/pgSQL block with an EXCEPTION clause.                *)
BeginSub ==
    /\ level > 0 /\ ~failed /\ level < MAX_LEVEL
    /\ level' = level + 1
    /\ bases' = Append(bases, Depth)
    /\ ready' = FALSE
    /\ UNCHANGED <<rootVars, m_seen, declaring, trace_all, failed, frames,
                   portals, spanVars, disturbed>>

(* RELEASE, or the end of such a block: portals and the spans their owners *)
(* hold pass to the parent.  The hooks ignore it.                          *)
CommitSub ==
    /\ level > 1 /\ ~failed
    /\ Depth = Last(bases)
    /\ level' = level - 1
    /\ bases' = Front(bases)
    /\ portals' = [p \in Portals |->
                     IF portals[p].lev = level
                     THEN [portals[p] EXCEPT !.lev = level - 1] ELSE portals[p]]
    /\ owner' = [s \in Spans |->
                   IF owner[s] = level THEN level - 1 ELSE owner[s]]
    /\ ready' = FALSE
    /\ UNCHANGED <<rootVars, m_seen, declaring, trace_all, failed, frames,
                   stmt_stack, leader, active, disturbed>>

(* COMMIT; portals are dropped first (PortalEnd).                          *)
CommitXact ==
    /\ level = 1 /\ ~failed /\ Depth = 0
    /\ \A p \in Portals : ~IsOpen(p)
    /\ RC!GucAtCommit
    /\ level' = 0
    /\ owner' = [s \in Spans |-> 0]
    /\ active' = <<>>
    /\ ready' = FALSE
    /\ UNCHANGED <<otel_ctx_from_M_header, m_seen, declaring, trace_all, bases,
                   failed, frames, portals, stmt_stack, leader, disturbed>>

(* The entries a (sub)transaction abort at lev leaves:                     *)
(* otel_pgtracing_xact_callback empties the stack, the subtransaction      *)
(* callback drops the entries pushed at that level.                        *)
KeptEntries_m(stk, lev) ==
    Keep(stk, {e \in Items(stk) : lev > 1 /\ e.subxact_level <= lev})

KeptEntries_m2(stk, lev) == <<>>

KeptEntries(stk, lev) ==
    Keep(stk, {e \in Items(stk) : lev > 1 /\ e.subxact_level < lev})

(* What otel_api and core drop at an abort of lev; F are the portals that  *)
(* fail.                                                                   *)
Aborted(lev, own, act, F) ==
    /\ owner' = [s \in Spans |-> IF own[s] >= lev THEN 0 ELSE own[s]]
    /\ active' = Keep(act, {e \in Items(act) :
                    own[e.span] < lev /\ ~(e.is_activation /\ e.lev >= lev)})
    /\ portals' = [p \in Portals |->
                     IF portals[p].lev >= lev THEN NoPortal
                     ELSE [portals[p] EXCEPT !.failed = @ \/ p \in F]]

(* declaring after the frames above base are unwound: the last restore is  *)
(* the outermost one.                                                      *)
Unwound(base, kind) == {k \in (base + 1)..Depth : frames[k].kind = kind}

DeclaringAfter_m(base) == declaring

DeclaringAfter(base) ==
    LET U == Unwound(base, "util")
    IN IF U = {} THEN declaring
       ELSE frames[CHOOSE k \in U : \A j \in U : k <= j].saved

(* An ERROR, up to whoever catches it: a PL/pgSQL block, or the main loop. *)
(* ProcessUtility frames on the way pop their entry and restore the cursor *)
(* name, ExecutorRun frames deactivate; then the innermost (sub)           *)
(* transaction aborts.  An older portal whose run is left fails: core      *)
(* releases what it owns with the subtransaction and never ends its query, *)
(* and the callbacks, which go by levels, keep its entry.                  *)
Error ==
    LET base == IF level > 1 THEN Last(bases) ELSE 0
        acts == {a \in {frames[k].act : k \in (base + 1)..Depth} :
                   PosIn(active, a) # {}}
        low  == {a \in acts : \A b \in acts :
                   \A i \in PosIn(active, a), j \in PosIn(active, b) : i <= j}
        ends == UNION {Above(active, a) : a \in low}
        act  == IF low = {} THEN active
                ELSE Cut(active, CHOOSE a \in low : TRUE)
        stk  == IF base = 0 /\ Depth > 0 /\ frames[1].toplevel
                THEN Popped(stmt_stack, 1) ELSE stmt_stack
        kept == KeptEntries(stk, level)
        F    == {frames[k].name : k \in Unwound(base, "run")}
        lost == {portals[p].span : p \in F} \ {0}
        own  == EndSpans(owner, ends)
    IN
    /\ level > 0 /\ ~failed
    /\ declaring' = DeclaringAfter(base)
    /\ stmt_stack' = [k \in DOMAIN kept |-> [kept[k] EXCEPT
                        !.orphan = @ \/ (\E p \in F : kept[k].key = -p)]]
    /\ Aborted(level, [s \in Spans |-> IF s \in lost THEN level ELSE own[s]],
               act, F)
    /\ frames' = Prefix(frames, base)
    /\ IF level = 1 THEN RC!GucAtAbort ELSE UNCHANGED <<guc, undo, root_ctx>>
    /\ failed' = (base = 0)
    /\ level' = IF base = 0 THEN level ELSE level - 1
    /\ bases' = IF base = 0 THEN bases ELSE Front(bases)
    /\ disturbed' = TRUE
    /\ ready' = FALSE
    /\ UNCHANGED <<otel_ctx_from_M_header, m_seen, trace_all, leader>>

(* ROLLBACK TO SAVEPOINT after an error: the savepoint starts afresh.      *)
RollbackTo ==
    /\ failed /\ level > 1 /\ Depth = 0
    /\ failed' = FALSE
    /\ ready' = FALSE
    /\ UNCHANGED <<rootVars, m_seen, declaring, trace_all, level, bases,
                   frames, portals, spanVars, disturbed>>

(* ROLLBACK after an error, or the end of a single failed statement: the   *)
(* levels left are aborted.                                                *)
Rollback ==
    /\ failed /\ Depth = 0
    /\ IF level = 1 THEN UNCHANGED <<guc, undo, root_ctx>> ELSE RC!GucAtAbort
    /\ stmt_stack' = KeptEntries(stmt_stack, 1)
    /\ Aborted(1, owner, active, {})
    /\ level' = 0 /\ bases' = <<>> /\ failed' = FALSE
    /\ ready' = FALSE
    /\ UNCHANGED <<otel_ctx_from_M_header, m_seen, declaring, trace_all, frames,
                   leader, disturbed>>

(* A procedure's own COMMIT or ROLLBACK: only CALLs and DOs are running.   *)
InProcedure ==
    /\ level = 1 /\ ~failed /\ Depth > 0
    /\ \A f \in Items(frames) : f.kind = "util" /\ f.name = 0
    /\ \A p \in Portals : ~IsOpen(p)

InnerCommit ==
    /\ InProcedure
    /\ RC!GucAtCommit
    /\ owner' = [s \in Spans |-> 0]
    /\ active' = <<>>
    /\ disturbed' = TRUE
    /\ ready' = FALSE
    /\ UNCHANGED <<otel_ctx_from_M_header, m_seen, declaring, trace_all,
                   coreVars, frames, portals, stmt_stack, leader>>

InnerRollback ==
    /\ InProcedure
    /\ RC!GucAtAbort
    /\ stmt_stack' = KeptEntries(stmt_stack, 1)
    /\ Aborted(1, owner, active, {})
    /\ disturbed' = TRUE
    /\ ready' = FALSE
    /\ UNCHANGED <<otel_ctx_from_M_header, m_seen, declaring, trace_all,
                   coreVars, frames, leader>>

-----------------------------------------------------------------------------
(* The protocol.  Messages are explored outside subtransactions only, and  *)
(* not at all when clients have no context to send.                        *)

MessageM ==
    /\ Depth = 0 /\ level < 2
    /\ CTX_WITH_CURSORS \/ NoCursors
    /\ \/ \E c \in Ctx : RC!trace_context_apply(RC!MValue(c))
       \/ Ctx # {} /\ RC!trace_context_rejected
    /\ ready' = FALSE
    /\ m_seen' = TRUE
    /\ UNCHANGED <<declaring, trace_all, coreVars, frames, portals, spanVars,
                   disturbed>>

ReadyForQuery ==
    /\ Depth = 0 /\ ~ready
    /\ RC!trace_context_clear
    /\ ready' = TRUE
    /\ m_seen' = FALSE
    /\ disturbed' = (disturbed /\
                      ~(stmt_stack = <<>> /\ leader = 0 /\ OnlyDeclared))
    /\ UNCHANGED <<declaring, trace_all, coreVars, frames, portals, spanVars>>

Init ==
    /\ stmt_stack = <<>>
    /\ declaring = 0
    /\ leader = 0
    /\ trace_all \in BOOLEAN
    /\ level = 0 /\ bases = <<>> /\ failed = FALSE
    /\ frames = <<>>
    /\ portals = [p \in Portals |-> NoPortal]
    /\ owner = [s \in Spans |-> 0]
    /\ active = <<>>
    /\ disturbed = FALSE
    /\ RC!Init

Next ==
    \/ \E c \in Comments, s \in Startable :
         \/ ExecutorStart(c, s)
         \/ \E d \in Portals \union {0} : ProcessUtility(c, s, d)
         \/ \E p \in Portals, d \in BOOLEAN : PortalStart(p, c, s, d)
    \/ OtherPortalStart \/ PortalStartReturns
    \/ ExecutorEnd \/ ProcessUtilityReturns \/ ExecutorRunReturns
    \/ QueryRun \/ QueryRunReturns
    \/ \E p \in Portals : PortalEnd(p) \/ ExecutorRun(p)
    \/ BeginXact \/ BeginSub \/ CommitSub \/ CommitXact
    \/ Error \/ RollbackTo \/ Rollback \/ InnerCommit \/ InnerRollback
    \/ MessageM \/ ReadyForQuery

Spec == Init /\ [][Next]_vars


-----------------------------------------------------------------------------
(* Properties.                                                             *)

(* The statement tracer's state is well typed; in particular               *)
(* push_stmt_span never fills stmt_stack past its fixed size.              *)
TypeOK ==
    /\ RC!TypeOK
    /\ stmt_stack \in Seq(StmtSpanEntry)
    /\ Len(stmt_stack) <= OTEL_STMT_STACK_MAX
    /\ declaring \in Portals \union {0}
    /\ leader \in Spans \union {0}
    /\ trace_all \in BOOLEAN
    /\ level \in 0..MAX_LEVEL
    /\ bases \in Seq(0..MAX_FRAMES)
    /\ failed \in BOOLEAN
    /\ frames \in Seq(Frame)
    /\ portals \in [Portals -> Portal]
    /\ owner \in [Spans -> 0..MAX_LEVEL]
    /\ active \in Seq(ActiveEntry)
    /\ disturbed \in BOOLEAN

(* Every bookkeeping entry belongs to a statement that is still running or *)
(* a portal that is still open, and is its only one: no error path leaves  *)
(* an entry behind to fill the fixed-size stack, or to be taken for that   *)
(* of a later statement at the same address.  The one exception is the     *)
(* entry of a cursor that failed in a subtransaction younger than it is.   *)
EntriesAreLive ==
    LET Kept == {k \in 1..Len(stmt_stack) : ~stmt_stack[k].orphan}
    IN \A k \in Kept :
         LET e == stmt_stack[k]
         IN /\ IF e.key > 0 THEN e.key <= Depth /\ frames[e.key].span = e.ref
               ELSE IsOpen(-e.key) /\ portals[-e.key].span = e.ref
            /\ \A j \in Kept : stmt_stack[j].key = e.key => j = k

(* A running statement whose span is open has its entry, so its end will   *)
(* find the span: no abort of a subtransaction it encloses, and no end of  *)
(* another statement, takes the entry away.                                *)
RunningStatementsKeepEntry ==
    \A k \in 1..Depth :
        (frames[k].span # 0 /\ owner[frames[k].span] > 0) =>
            \E e \in Items(stmt_stack) :
                e.key = k /\ e.ref = frames[k].span

(* A declared cursor's executor span is detached.  No other span is, also  *)
(* after statements nested in a DECLARE failed, but those of queries run   *)
(* while the cursor a DECLARE in progress names was being started or run,  *)
(* and of a cursor of the same name that SPI opened during that DECLARE.   *)
DetachedIffDeclared ==
    \A e \in Items(stmt_stack) : ~e.orphan =>
        IF e.key < 0
        THEN /\ portals[-e.key].declared => e.detached
             /\ e.detached => portals[-e.key].declared \/ portals[-e.key].taken
        ELSE e.detached =>
               \E i, j \in 1..(e.key - 1) :
                 /\ Declares(frames[i], frames[j].name)
                 /\ frames[j].kind \in {"start", "run"} /\ frames[j].name # 0

(* Unless a procedure ends the transaction, a statement that goes on keeps *)
(* its span open, and so does a cursor that has not failed itself: no      *)
(* other statement's end, FETCH or failure ends it.  This is what          *)
(* detaching a cursor's span is for; SPI's cursors are not detached, and   *)
(* while one is open nothing is said.                                      *)
StatementSpansSurvive ==
    [][(/\ ~InnerCommit /\ ~InnerRollback
        /\ OnlyDeclared) =>
        /\ \A k \in 1..Depth :
             (/\ k <= Len(frames') /\ frames[k].span = frames'[k].span
              /\ frames[k].span # 0 /\ owner[frames[k].span] > 0)
             => owner'[frames[k].span] > 0
        /\ \A p \in Portals :
             (/\ IsOpen(p) /\ portals'[p].lev > 0 /\ ~portals'[p].failed
              /\ portals[p].span # 0 /\ owner[portals[p].span] > 0)
             => owner'[portals[p].span] > 0]_vars

(* As long as no statement failed, ended its transaction or found the      *)
(* stack full, SPI opened no cursor and no cursor is open, the slot        *)
(* parallel workers read names the innermost running statement that has a  *)
(* span, also after statements nested in it have come and gone.            *)
WorkersFindInnermost ==
    LET Spanned == {k \in 1..Depth :
                      frames[k].span # 0 /\ owner[frames[k].span] > 0}
    IN (~disturbed /\ \A p \in Portals : ~IsOpen(p)) =>
         \/ Spanned = {} /\ leader = 0
         \/ \E k \in Spanned : /\ \A j \in Spanned : j <= k
                               /\ leader = frames[k].span

(* The hooks drive the root context only in the ways RootContext allows.   *)
DrivesRootContext == RC!Spec

-----------------------------------------------------------------------------
(* What comments of the code say and the code does not do: none of the     *)
(* statements below holds of this model.                                   *)

(* What the comments say of a comment's context: it does not outlive the   *)
(* statement.                                                              *)
CommentEndsWithStatement == Depth = 0 => ~root_ctx.from_comment

(* What the comments say of the parallel slot: cleared when the published  *)
(* span ends, so that workers of a later query do not read it.             *)
LaterQueriesFindNoLeader == ready /\ stmt_stack = <<>> => leader = 0

(* What the comments say of entries dropped by an abort: their spans are   *)
(* ended by it.  So a cursor whose span is open has its entry.             *)
CursorsKeepEntry ==
    \A p \in Portals :
        (IsOpen(p) /\ portals[p].span # 0 /\ owner[portals[p].span] > 0) =>
            \E e \in Items(stmt_stack) : e.key = -p

(* What the comments say of entries of enclosing levels: what they stand   *)
(* for is still alive and will be ended normally.                          *)
OuterEntriesEndNormally == ready /\ level = 0 => stmt_stack = <<>>

(* What the comment on otel_ExecutorRun says of a query that is not a      *)
(* declared cursor's: its span is current while it runs.                   *)
RunningQueryIsCurrent ==
    \A p \in Portals :
        (/\ Depth > 0 /\ Last(frames).kind = "run" /\ Last(frames).name = p
         /\ IsOpen(p) /\ ~portals[p].declared /\ portals[p].span # 0)
        => active # <<>> /\ Last(active).span = portals[p].span

(* "true only for the cursor's own ExecutorStart": so only cursors' spans  *)
(* are detached.                                                           *)
OnlyCursorsAreDetached ==
    \A e \in Items(stmt_stack) : e.detached => e.key < 0
=============================================================================

--------------------------- MODULE PlpgsqlTracing ---------------------------
(***************************************************************************)
(* PL/pgSQL tracing (otel_plpgsql/otel_plpgsql.c): a span per call and per *)
(* statement, started and ended by plugin callbacks that get no end event  *)
(* when an error passes.  Spans of atomic calls belong to the current      *)
(* resource owner; those of nonatomic calls are session spans, which the   *)
(* module keeps in a registry and ends itself when a (sub)transaction      *)
(* aborts.                                                                 *)
(*                                                                         *)
(* frames is what runs: calls, their statements, and statements of another *)
(* extension's making (otel_postgres_tracing), each with a span.  A block  *)
(* with an EXCEPTION clause is a statement with a subtransaction.  otel_api*)
(* is reduced to who owns the open spans and to the active stack           *)
(* (SpanProducer has it all).  The growth of arrays is left out.           *)
(* Definitions whose names end in _m are faulty variants that no           *)
(* specification uses.                                                     *)
(***************************************************************************)
EXTENDS Integers, Sequences, Stacks

CONSTANTS
    StmtIds,        \* statement ids of a function
    MAX_LEVEL,      \* bound: transaction nesting
    MAX_FRAMES,     \* bound: nested calls and statements
    Spans           \* bound: span ids, positive numbers

ASSUME PlpgsqlAssumption ==
    /\ MAX_LEVEL \in Nat \ {0}
    /\ MAX_FRAMES \in Nat
    /\ Spans \subseteq Nat \ {0}

VARIABLES
    frames,         \* PL/pgSQL: calls and statements; last = innermost
    level,          \* core: GetCurrentTransactionNestLevel()
    registry,       \* otel_plpgsql_session_stack; last = top
    owner,          \* otel_api: owner of each span, NoSpan if it has ended
    active,         \* otel_api: the active stack
    pc,             \* see below
    misuse,         \* history: what otel_api would have warned about
    rolled_back     \* history: a ROLLBACK ran in the calls in progress

vars == <<frames, level, registry, owner, active, pc, misuse, rolled_back>>

(* run: PL/pgSQL runs; error: an error looks for its handler; subabort,    *)
(* abort and rollback: the release callback runs, in the abort of a        *)
(* block's subtransaction, of the transaction, or for a ROLLBACK statement.*)
Stages == {"run", "error", "subabort", "abort", "rollback"}

SESSION == 0        \* owner of a session span; others are owned by a level
NoSpan  == -1

Ref == Spans \union {0}
Entry == [stmtid : StmtIds, span : Ref]

(* A call's frame holds its PlpgsqlSpanState, whether plugin_info was set  *)
(* (traced), whether it is nonatomic, and whether its body has begun.      *)
NewCall(traced, nonatomic, session, s) ==
    [kind |-> "fn", traced |-> traced, nonatomic |-> nonatomic,
     use_session_owner |-> session, func_span |-> s, stack |-> <<>>,
     begun |-> FALSE]

(* A statement's frame: span is history; sub is the subtransaction of a    *)
(* block whose EXCEPTION clause can still catch an error.                  *)
StmtFrame == [kind : {"stmt"}, stmtid : StmtIds, span : Ref,
              sub : 0..MAX_LEVEL]
OtherFrame == [kind : {"other"}, span : Ref]

IsOpen(s) == owner[s] # NoSpan

Innermost(kind) == frames # <<>> /\ Last(frames).kind = kind
FnIndexes == {k \in 1..Len(frames) : frames[k].kind = "fn"}
Fn        == CHOOSE k \in FnIndexes : \A j \in FnIndexes : j <= k
Nonatomic == FnIndexes # {} /\ frames[Fn].nonatomic

Blocks == {k \in 1..Len(frames) : frames[k].kind = "stmt"
                                  /\ frames[k].sub > 0}
InnerBlock == CHOOSE k \in Blocks : \A j \in Blocks : j <= k

(* Ids nothing refers to: refs are never confused.                         *)
RefsOf(f) ==
    CASE f.kind = "fn"    -> {f.func_span} \union {e.span : e \in Items(f.stack)}
      [] f.kind = "stmt"  -> {f.span}
      [] f.kind = "other" -> {f.span}
Unused == {s \in Spans : /\ ~IsOpen(s)
                         /\ \A f \in Items(frames) : s \notin RefsOf(f)
                         /\ \A e \in Items(registry) : e.span # s}
Fresh  == IF Unused = {} THEN {}
          ELSE {CHOOSE s \in Unused : \A t \in Unused : s <= t}

-----------------------------------------------------------------------------
(* otel_api.  A start returns no span (0) when nothing can be recorded or  *)
(* a limit is reached.                                                     *)

otel_span_start(s, own) ==
    /\ s \in Fresh \union {0}
    /\ owner'  = IF s = 0 THEN owner ELSE [owner EXCEPT ![s] = own]
    /\ active' = IF s = 0 THEN active ELSE Append(active, s)

Above(s) == {active[k] : k \in {j \in 1..Len(active) :
                \E i \in 1..Len(active) : active[i] = s /\ i < j}}

(* Ending a span ends what is above it on the active stack.                *)
EndSpan(s) ==
    LET gone == {s} \union Above(s)
    IN IF s = 0 \/ ~IsOpen(s) THEN UNCHANGED <<owner, active>>
       ELSE /\ owner'  = [t \in Spans |->
                            IF t \in gone THEN NoSpan ELSE owner[t]]
            /\ active' = Keep(active, Spans \ gone)

(* otel_span_end as this module calls it, with the misuse otel_api warns   *)
(* about and asserts against.                                              *)
otel_span_end(s) ==
    /\ EndSpan(s)
    /\ misuse' = misuse
         \union (IF s # 0 /\ ~IsOpen(s) THEN {"stale"} ELSE {})
         \union (IF s # 0 /\ IsOpen(s) /\ Above(s) # {} THEN {"lifo"} ELSE {})

(* Spans of the levels from l up end with their resource owners.           *)
ReleaseOwners_m(l) == UNCHANGED <<owner, active>>

ReleaseOwners(l) ==
    /\ owner'  = [s \in Spans |-> IF owner[s] >= l THEN NoSpan ELSE owner[s]]
    /\ active' = Keep(active, {s \in Spans : owner[s] < l})

-----------------------------------------------------------------------------
(* The registry of session spans.                                          *)

session_push(st_session, s) ==
    registry' = IF st_session /\ s # 0
                THEN Append(registry, [span |-> s, nest_level |-> level])
                ELSE registry

session_forget_m(st_session, s) == UNCHANGED registry

session_forget(st_session, s) ==
    registry' = IF st_session /\ s # 0 /\ registry # <<>>
                THEN Front(registry) ELSE registry

otel_plpgsql_owner(st_session) == IF st_session THEN SESSION ELSE level

-----------------------------------------------------------------------------
(* The plugin's callbacks.                                                 *)

(* A call is nonatomic if it is made outside a transaction block, by other *)
(* nonatomic code if by PL/pgSQL, and not in a subtransaction.             *)
MayBeNonatomic == level = 1 /\ \A k \in FnIndexes : frames[k].nonatomic

(* estate->atomic, when func_setup reads it, is always true.               *)
UseSessionOwner_m(nonatomic) == FALSE
UseSessionOwner(nonatomic) == nonatomic

(* func_setup, and func_beg if it left a plugin_info.                      *)
func_beg(traced, nonatomic, s) ==
    LET session == traced /\ UseSessionOwner(nonatomic)
    IN /\ pc = "run" /\ Len(frames) < MAX_FRAMES
       /\ ~Innermost("fn")
       /\ nonatomic => MayBeNonatomic
       /\ ~traced => s = 0
       /\ otel_span_start(s, otel_plpgsql_owner(session))
       /\ session_push(session, s)
       /\ frames' = Append(frames, NewCall(traced, nonatomic, session, s))
       /\ UNCHANGED <<level, pc, misuse, rolled_back>>

(* A block with an EXCEPTION clause then begins its subtransaction.  Ids   *)
(* are unique in a function, and a function's body is one block.           *)
stmt_beg(id, block, s) ==
    LET st == frames[Fn]
    IN /\ pc = "run" /\ Len(frames) < MAX_FRAMES
       /\ Innermost("stmt") \/ (Innermost("fn") /\ ~st.begun)
       /\ \A e \in Items(st.stack) : e.stmtid # id
       /\ \A k \in Fn + 1..Len(frames) : frames[k].stmtid # id
       /\ block => level < MAX_LEVEL
       /\ ~st.traced => s = 0
       /\ otel_span_start(s, otel_plpgsql_owner(st.use_session_owner))
       /\ session_push(st.use_session_owner, s)
       /\ level' = IF block THEN level + 1 ELSE level
       /\ frames' = Append(
            [frames EXCEPT
               ![Fn].begun = TRUE,
               ![Fn].stack = IF st.traced
                             THEN Append(@, [stmtid |-> id, span |-> s])
                             ELSE @],
            [kind |-> "stmt", stmtid |-> id, span |-> s,
             sub |-> IF block THEN level + 1 ELSE 0])
       /\ UNCHANGED <<pc, misuse, rolled_back>>

(* Where stmt_end finds the entry of the statement, 0 if nowhere.          *)
Matching(stack, id) == {k \in 1..Len(stack) : stack[k].stmtid = id}
MatchAt(stack, id) ==
    IF Matching(stack, id) = {} THEN 0
    ELSE CHOOSE k \in Matching(stack, id) :
           \A j \in Matching(stack, id) : j <= k

(* The subtransaction of a block that ran to its end has been released.    *)
stmt_end ==
    LET st == frames[Fn]
        at == MatchAt(st.stack, Last(frames).stmtid)
    IN /\ pc = "run" /\ Innermost("stmt")
       /\ level' = IF Last(frames).sub > 0 THEN level - 1 ELSE level
       /\ IF at = 0 THEN UNCHANGED <<registry, owner, active, misuse>>
          ELSE /\ session_forget(st.use_session_owner, st.stack[at].span)
               /\ otel_span_end(st.stack[at].span)
       /\ frames' = [Front(frames) EXCEPT
                       ![Fn].stack = IF at = 0 THEN <<>>
                                     ELSE SubSeq(@, 1, at - 1)]
       /\ UNCHANGED <<pc, rolled_back>>

func_end ==
    LET st == Last(frames)
    IN /\ pc = "run" /\ Innermost("fn") /\ st.begun
       /\ session_forget(st.use_session_owner, st.func_span)
       /\ otel_span_end(st.func_span)
       /\ frames' = Front(frames)
       /\ rolled_back' = (rolled_back /\ Len(frames) > 1)
       /\ UNCHANGED <<level, pc>>

-----------------------------------------------------------------------------
(* Statements of the other extension: the one that makes the outermost     *)
(* call, and those PL/pgSQL runs.                                          *)

OtherBegins(s) ==
    /\ pc = "run" /\ Len(frames) < MAX_FRAMES
    /\ frames = <<>> \/ Innermost("stmt")
    /\ s # 0
    /\ otel_span_start(s, level)
    /\ frames' = Append(frames, [kind |-> "other", span |-> s])
    /\ UNCHANGED <<level, registry, pc, misuse, rolled_back>>

OtherEnds ==
    /\ pc = "run" /\ Innermost("other")
    /\ EndSpan(Last(frames).span)
    /\ frames' = Front(frames)
    /\ rolled_back' = (rolled_back /\ Len(frames) > 1)
    /\ UNCHANGED <<level, registry, pc, misuse>>

-----------------------------------------------------------------------------
(* COMMIT and ROLLBACK statements, and errors.                             *)

TransactionControl ==
    pc = "run" /\ Innermost("stmt") /\ Nonatomic /\ level = 1

Commit ==
    /\ TransactionControl
    /\ ReleaseOwners(1)
    /\ UNCHANGED <<frames, level, registry, pc, misuse, rolled_back>>

Rollback ==
    /\ TransactionControl
    /\ ReleaseOwners(1)
    /\ pc' = "rollback" /\ rolled_back' = TRUE
    /\ UNCHANGED <<frames, level, registry, misuse>>

Raise ==
    /\ pc = "run" /\ frames # <<>>
    /\ pc' = "error"
    /\ UNCHANGED <<frames, level, registry, owner, active, misuse, rolled_back>>

(* Control leaves everything inside the innermost block, which rolls its   *)
(* subtransaction back, or everything, which aborts the transaction.       *)
Unwind ==
    /\ pc = "error"
    /\ frames' = IF Blocks = {} THEN <<>> ELSE SubSeq(frames, 1, InnerBlock)
    /\ pc'     = IF Blocks = {} THEN "abort" ELSE "subabort"
    /\ ReleaseOwners(IF Blocks = {} THEN 1 ELSE level)
    /\ UNCHANGED <<level, registry, misuse, rolled_back>>

(* otel_plpgsql_resource_release_callback, one round of its loop.          *)
MoreToEnd_m == registry # <<>> /\ Last(registry).nest_level > level
MoreToEnd == registry # <<>> /\ Last(registry).nest_level >= level

EndLeaked ==
    /\ pc \in {"subabort", "abort", "rollback"} /\ MoreToEnd
    /\ registry' = Front(registry)
    /\ otel_span_end(Last(registry).span)
    /\ UNCHANGED <<frames, level, pc, rolled_back>>

(* A block that rolled back handles the error or passes it on.             *)
SubAborted(caught) ==
    /\ pc = "subabort" /\ ~MoreToEnd
    /\ level' = level - 1
    /\ frames' = [frames EXCEPT ![Len(frames)].sub = 0]
    /\ pc' = IF caught THEN "run" ELSE "error"
    /\ UNCHANGED <<registry, owner, active, misuse, rolled_back>>

Aborted ==
    /\ pc = "abort" /\ ~MoreToEnd
    /\ level' = 1 /\ pc' = "run" /\ rolled_back' = FALSE
    /\ UNCHANGED <<frames, registry, owner, active, misuse>>

RolledBack ==
    /\ pc = "rollback" /\ ~MoreToEnd
    /\ pc' = "run"
    /\ UNCHANGED <<frames, level, registry, owner, active, misuse, rolled_back>>

Init ==
    /\ frames = <<>> /\ level = 1 /\ registry = <<>>
    /\ owner = [s \in Spans |-> NoSpan] /\ active = <<>>
    /\ pc = "run" /\ misuse = {} /\ rolled_back = FALSE

Next ==
    \/ \E traced, nonatomic \in BOOLEAN, s \in Ref :
         func_beg(traced, nonatomic, s)
    \/ \E id \in StmtIds, block \in BOOLEAN, s \in Ref : stmt_beg(id, block, s)
    \/ stmt_end
    \/ func_end
    \/ \E s \in Ref : OtherBegins(s)
    \/ OtherEnds
    \/ Commit
    \/ Rollback
    \/ Raise
    \/ Unwind
    \/ EndLeaked
    \/ \E caught \in BOOLEAN : SubAborted(caught)
    \/ Aborted
    \/ RolledBack

Spec == Init /\ [][Next]_vars

-----------------------------------------------------------------------------
(* Properties.                                                             *)

(* Every variable keeps its type: what stmt_end and Unwind find at the top *)
(* of frames is what they take it for, and the level never passes its      *)
(* bounds.                                                                 *)
TypeOK ==
    /\ \A f \in Items(frames) :
          CASE f.kind = "fn" ->
                 /\ f.func_span \in Ref
                 /\ f.use_session_owner => f.nonatomic
                 /\ Items(f.stack) \subseteq Entry
            [] f.kind = "stmt"  -> f \in StmtFrame
            [] f.kind = "other" -> f \in OtherFrame
    /\ level \in 1..MAX_LEVEL
    /\ Items(registry) \subseteq [span : Spans, nest_level : 1..MAX_LEVEL]
    /\ owner \in [Spans -> {NoSpan, SESSION} \union 1..MAX_LEVEL]
    /\ Items(active) \subseteq Spans
    /\ pc \in Stages
    /\ misuse \subseteq {"lifo", "stale"}
    /\ rolled_back \in BOOLEAN

(* The registry is exactly this module's open session spans, in the order  *)
(* they have on the active stack and by nesting level, whatever errors,    *)
(* handlers and commits come between a push and its forget: the abort      *)
(* callback relies on it when it ends a suffix from the top.               *)
RegistryExact ==
    /\ \A s \in Spans : (owner[s] = SESSION)
          <=> \E e \in Items(registry) : e.span = s
    /\ \A j, k \in 1..Len(registry) : j < k =>
          /\ registry[j].nest_level <= registry[k].nest_level
          /\ \E a, b \in 1..Len(active) : /\ a < b
                                          /\ active[a] = registry[j].span
                                          /\ active[b] = registry[k].span

(* Neither the end callbacks nor the abort callback ever end a span that   *)
(* has another open span, of this module or another, above it.             *)
EndsInnermostFirst == "lifo" \notin misuse

(* The spans of the calls and statements still running are open, also      *)
(* after handled errors and inner COMMITs; so no end callback uses a stale *)
(* handle.  After a ROLLBACK statement this fails.                         *)
RunningSpansStayOpen ==
    (pc = "run" /\ ~rolled_back) =>
        \A k \in 1..Len(frames) :
            /\ frames[k].kind = "fn" /\ frames[k].func_span # 0
                  => IsOpen(frames[k].func_span)
            /\ frames[k].kind = "stmt" /\ frames[k].span # 0
                  => IsOpen(frames[k].span)

(* When the outermost call is over, however it ended, no span is open and  *)
(* the active stack is empty.                                              *)
NothingLeaks ==
    (frames = <<>> /\ pc = "run") =>
        /\ registry = <<>> /\ active = <<>>
        /\ \A s \in Spans : ~IsOpen(s)

(* What PlpgsqlSpanState's comment says of a nonatomic call's spans, that  *)
(* an inner COMMIT/ROLLBACK leaves them untouched and the end callbacks    *)
(* end them as usual: no end callback meets a span that has ended.         *)
(* A ROLLBACK statement refutes it.                                        *)
NoStaleHandle == "stale" \notin misuse
=============================================================================

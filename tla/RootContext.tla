----------------------------- MODULE RootContext -----------------------------
(***************************************************************************)
(* The backend's root trace context (otel_api/otel.c): the parent of spans *)
(* that have no local one.  It is installed by the otel_api.traceparent    *)
(* setting, by an 'M' TraceContext message, which goes through that same   *)
(* setting, and by a traceparent in an SQL comment, which does not.        *)
(*                                                                         *)
(* The setting is transactional: core keeps what SET and SET LOCAL         *)
(* replaced and calls the assign hook when it puts it back.                *)
(***************************************************************************)
EXTENDS Naturals

CONSTANTS
    Ctx,        \* valid trace contexts a client may send
    None        \* no context: the empty setting

ASSUME NoneAssumption == None \notin Ctx

VARIABLES
    guc,                    \* otel_api.traceparent, and who gave the value
    undo,                   \* core: the setting's GucStack entry
    root_ctx,               \* otel_root_ctx, and who gave the context
    otel_ctx_from_M_header,
    in_xact,                \* core: a transaction is open
    ready,                  \* core: ReadyForQuery sent, nothing received since
    m_seen                  \* history: this request carried an 'M' message

gucVars  == <<guc, undo, root_ctx>>
rootVars == <<gucVars, otel_ctx_from_M_header>>
rcVars   == <<rootVars, in_xact, ready, m_seen>>

-----------------------------------------------------------------------------
(* Data.  by is history: the origin of a value or a context.               *)

Origin   == {"reset", "set", "M", "comment"}
GucValue == [ctx : Ctx \union {None}, by : {"reset", "set", "M"}]
RESET_VAL == [ctx |-> None, by |-> "reset"]

Undo   == [state : {"none", "set", "local", "set_local"},
           prior : GucValue, masked : GucValue]
NoUndo == [state |-> "none", prior |-> RESET_VAL, masked |-> RESET_VAL]

RootCtx == [is_set : BOOLEAN, ctx : Ctx \union {None}, from_comment : BOOLEAN,
            by : Origin]

(* otel_root_ctx_reset.                                                    *)
ResetCtx == [is_set |-> FALSE, ctx |-> None, from_comment |-> FALSE,
             by |-> "reset"]

(* The context assign_traceparent leaves for a value.                      *)
Assigned(v) ==
    IF v.ctx = None THEN ResetCtx
    ELSE [is_set |-> TRUE, ctx |-> v.ctx, from_comment |-> FALSE, by |-> v.by]

(* What otel_try_apply_sqlcommenter_context makes of the context, None     *)
(* being a statement with no usable comment or the parsing switched off.   *)
Commented_m(rc, c) ==
    IF c = None THEN rc
    ELSE [is_set |-> TRUE, ctx |-> c, from_comment |-> TRUE, by |-> "comment"]

Commented(rc, c) ==
    IF rc.is_set \/ c = None THEN rc
    ELSE [is_set |-> TRUE, ctx |-> c, from_comment |-> TRUE, by |-> "comment"]

(* maybe_reset_comment_context.                                            *)
Uncommented(rc) == IF rc.from_comment THEN ResetCtx ELSE rc

-----------------------------------------------------------------------------
(* The setting.                                                            *)

assign_traceparent_m(v) ==
    guc' = v /\ root_ctx' = IF v.ctx = None THEN root_ctx ELSE Assigned(v)

assign_traceparent(v) == guc' = v /\ root_ctx' = Assigned(v)

(* push_old_value at the transaction's level; outside a transaction        *)
(* nothing is kept.                                                        *)
Undone(local) ==
    CASE ~in_xact               -> NoUndo
      [] undo.state = "none"    -> [NoUndo EXCEPT
                                      !.state = IF local THEN "local"
                                                ELSE "set",
                                      !.prior = guc]
      [] undo.state = "set" /\ local
                                -> [undo EXCEPT !.state = "set_local",
                                                !.masked = guc]
      [] undo.state # "none" /\ ~local
                                -> [undo EXCEPT !.state = "set",
                                                !.masked = RESET_VAL]
      [] OTHER                  -> undo

SetConfig(v, local) ==
    /\ undo' = Undone(local)
    /\ assign_traceparent(v)

(* The restore of a value.  The assign hook is not called when the setting *)
(* already holds that very string, which only the reset value can be.      *)
Restored(v) ==
    IF v = RESET_VAL /\ guc = RESET_VAL THEN UNCHANGED <<guc, root_ctx>>
    ELSE assign_traceparent(v)

(* AtEOXact_GUC.                                                           *)
GucAtCommit ==
    /\ undo' = NoUndo
    /\ CASE undo.state = "local"     -> Restored(undo.prior)
         [] undo.state = "set_local" -> Restored(undo.masked)
         [] OTHER                    -> UNCHANGED <<guc, root_ctx>>

GucAtAbort ==
    /\ undo' = NoUndo
    /\ IF undo.state = "none" THEN UNCHANGED <<guc, root_ctx>>
       ELSE Restored(undo.prior)

-----------------------------------------------------------------------------
(* The trace-context message.                                              *)

(* otel_trace_context_apply_cb.  A malformed value is rejected by          *)
(* check_traceparent and leaves the setting alone; an empty one resets it. *)
trace_context_apply(v) ==
    /\ SetConfig(v, FALSE)
    /\ otel_ctx_from_M_header' =
         (otel_ctx_from_M_header \/ Assigned(v).is_set)

MValue(c) == IF c = None THEN RESET_VAL ELSE [ctx |-> c, by |-> "M"]

trace_context_rejected ==
    /\ otel_ctx_from_M_header' = (otel_ctx_from_M_header \/ root_ctx.is_set)
    /\ UNCHANGED gucVars

trace_context_clear_m ==
    /\ root_ctx' = IF otel_ctx_from_M_header THEN ResetCtx ELSE root_ctx
    /\ UNCHANGED <<guc, undo, otel_ctx_from_M_header>>

(* otel_trace_context_clear_cb.                                            *)
trace_context_clear ==
    /\ root_ctx' = IF otel_ctx_from_M_header THEN ResetCtx ELSE root_ctx
    /\ otel_ctx_from_M_header' = FALSE
    /\ UNCHANGED <<guc, undo>>

-----------------------------------------------------------------------------
Init ==
    /\ guc = RESET_VAL
    /\ undo = NoUndo
    /\ root_ctx = ResetCtx
    /\ otel_ctx_from_M_header = FALSE
    /\ in_xact = FALSE
    /\ ready = TRUE
    /\ m_seen = FALSE

(* An 'M' message, received outside or inside a transaction.               *)
MessageM ==
    /\ \/ \E c \in Ctx \union {None} : trace_context_apply(MValue(c))
       \/ trace_context_rejected
    /\ ready' = FALSE
    /\ m_seen' = TRUE
    /\ UNCHANGED in_xact

Begin ==
    /\ ~in_xact
    /\ in_xact' = TRUE
    /\ ready' = FALSE
    /\ UNCHANGED <<rootVars, m_seen>>

(* SET and SET LOCAL, to a context or to the empty string, or to DEFAULT.  *)
SetStatement ==
    /\ in_xact
    /\ \E local \in BOOLEAN :
         \/ \E c \in Ctx \union {None} :
              SetConfig([ctx |-> c, by |-> "set"], local)
         \/ SetConfig(RESET_VAL, local)
    /\ ready' = FALSE
    /\ UNCHANGED <<otel_ctx_from_M_header, in_xact, m_seen>>

(* A statement starts: its comment is looked at.                           *)
StatementStarts ==
    /\ \E c \in Ctx : root_ctx' = Commented(root_ctx, c)
    /\ ready' = FALSE
    /\ UNCHANGED <<guc, undo, otel_ctx_from_M_header, in_xact, m_seen>>

(* A statement's span ends.                                                *)
StatementEnds ==
    /\ root_ctx' = Uncommented(root_ctx)
    /\ ready' = FALSE
    /\ UNCHANGED <<guc, undo, otel_ctx_from_M_header, in_xact, m_seen>>

(* A transaction ends; a procedure's COMMIT or ROLLBACK begins the next at *)
(* once.                                                                   *)
EndXact ==
    /\ in_xact
    /\ GucAtCommit \/ GucAtAbort
    /\ in_xact' \in BOOLEAN
    /\ ready' = FALSE
    /\ UNCHANGED <<otel_ctx_from_M_header, m_seen>>

ReadyForQuery ==
    /\ ~ready
    /\ trace_context_clear
    /\ ready' = TRUE
    /\ m_seen' = FALSE
    /\ UNCHANGED in_xact

Next == \/ MessageM \/ Begin \/ SetStatement \/ StatementStarts
        \/ StatementEnds \/ EndXact \/ ReadyForQuery

Spec == Init /\ [][Next]_rcVars

-----------------------------------------------------------------------------
(* Properties.                                                             *)

(* The root context of otel.c is well typed, and set exactly if it has a   *)
(* valid context: a reset one is never taken for a parent.                 *)
TypeOK ==
    /\ guc \in GucValue
    /\ undo \in Undo
    /\ root_ctx \in RootCtx
    /\ root_ctx.is_set <=> root_ctx.ctx # None
    /\ otel_ctx_from_M_header \in BOOLEAN
    /\ in_xact \in BOOLEAN
    /\ ready \in BOOLEAN
    /\ m_seen \in BOOLEAN

(* A root context that is set is the setting's value or a comment's: no    *)
(* sequence of messages, SETs, rollbacks and clears leaves a context in    *)
(* use that SHOW otel_api.traceparent would not show.                      *)
RootContextIsTheSetting ==
    root_ctx.is_set /\ ~root_ctx.from_comment =>
        /\ root_ctx.ctx = guc.ctx
        /\ root_ctx.by = guc.by

(* A context a client supplied by message or setting is never replaced by  *)
(* one found in a comment.                                                 *)
ClientContextWins ==
    [][root_ctx.is_set /\ ~root_ctx.from_comment
        => ~root_ctx'.from_comment]_rcVars

(* A request that carried no message loses nothing at ReadyForQuery: the   *)
(* flag of an earlier request's message is never left behind to wipe a     *)
(* context that SET has installed since.                                   *)
QuietRequestKeepsContext ==
    [][ReadyForQuery /\ ~m_seen => root_ctx' = root_ctx]_rcVars

-----------------------------------------------------------------------------
(* What comments of the code say and the code does not do: none of the     *)
(* statements below holds of this model.                                   *)

(* What the comments say of the ReadyForQuery boundary: an M context does  *)
(* not outlive its request.                                                *)
MContextEndsWithRequest ==
    ready => ~(root_ctx.is_set /\ root_ctx.by = "M")

(* What the comments say of the clear callback: a context installed by SET *)
(* or SET LOCAL is left alone.                                             *)
ClearSparesUserContext ==
    [][ReadyForQuery /\ root_ctx.is_set /\ root_ctx.by = "set"
        => root_ctx'.is_set]_rcVars
=============================================================================

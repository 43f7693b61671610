---------------------------- MODULE SpanSampling ----------------------------
(***************************************************************************)
(* The decision a span gets when it starts (otel_api/otel_producer.c and   *)
(* otel_api.c): its parent, its trace, and whether it is recorded, while   *)
(* the sampler setting, its argument, the exporters and the root context   *)
(* change under way.  Storage is SpanProducer's; here spans are kept for   *)
(* good, with the tree they form.  Definitions whose names end in _m are   *)
(* faulty variants that no specification uses.                             *)
(***************************************************************************)
EXTENDS Naturals, Sequences, Stacks

CONSTANTS
    RANDOM_RANGE,   \* trace ids, reduced to their random part: 0 .. this - 1
    MAX_SPANS       \* bound: spans started

ASSUME SamplingAssumption ==
    RANDOM_RANGE \in Nat \ {0} /\ MAX_SPANS \in Nat

VARIABLES
    otel_sampler_mode,
    threshold,              \* otel_sampler_arg, as the rejection threshold
    emit_hook,              \* an exporter is registered
    otel_emit_spans_to_log,
    recording_possible,     \* otel_recording_possible_flag
    root_ctx,               \* the root context: a remote parent
    spans,                  \* history: every span started, by number
    stack                   \* the active stack; last = top

samplingVars ==
    <<otel_sampler_mode, threshold, emit_hook, otel_emit_spans_to_log,
      recording_possible, root_ctx, spans, stack>>
configVars == <<otel_sampler_mode, threshold, emit_hook,
                otel_emit_spans_to_log, recording_possible>>

-----------------------------------------------------------------------------
Mode == {"always_on", "always_off", "traceidratio", "parentbased_always_on",
         "parentbased_always_off", "parentbased_traceidratio"}
ParentBased == {"parentbased_always_on", "parentbased_always_off",
                "parentbased_traceidratio"}

TraceId == 0..(RANDOM_RANGE - 1)
Remote  == [trace_id : TraceId, sampled : BOOLEAN]
NoCtx   == [trace_id |-> 0, sampled |-> FALSE, set |-> FALSE]

(* parent: a span's number, 0 for a remote parent or none.  An nrec is     *)
(* not recorded.  sampled is the bit its context propagates.               *)
Span == [trace_id : TraceId, recorded : BOOLEAN, sampled : BOOLEAN,
         parent : Nat, open : BOOLEAN]

-----------------------------------------------------------------------------
(* otel_update_recording_possible.                                         *)
RecordingPossible(m, h, l) == (h \/ l) /\ m # "always_off"

assign_sampler(m) ==
    /\ otel_sampler_mode' = m
    /\ recording_possible' =
         RecordingPossible(m, emit_hook, otel_emit_spans_to_log)
    /\ UNCHANGED <<threshold, emit_hook, otel_emit_spans_to_log, root_ctx,
                   spans, stack>>

assign_emit_spans_to_log(l) ==
    /\ otel_emit_spans_to_log' = l
    /\ recording_possible' = RecordingPossible(otel_sampler_mode, emit_hook, l)
    /\ UNCHANGED <<otel_sampler_mode, threshold, emit_hook, root_ctx, spans,
                   stack>>

api_register_emit_hook ==
    /\ emit_hook' = TRUE
    /\ recording_possible' =
         RecordingPossible(otel_sampler_mode, TRUE, otel_emit_spans_to_log)
    /\ UNCHANGED <<otel_sampler_mode, threshold, otel_emit_spans_to_log,
                   root_ctx, spans, stack>>

(* otel_api.sampler_arg changes: the threshold computed from it is t.      *)
SetSamplerArg(t) ==
    /\ threshold' = t
    /\ UNCHANGED <<otel_sampler_mode, emit_hook, otel_emit_spans_to_log,
                   recording_possible, root_ctx, spans, stack>>

(* The root context changes, as RootContext has it.                        *)
SetRootContext(c) ==
    /\ root_ctx' = c
    /\ UNCHANGED <<configVars, spans, stack>>

-----------------------------------------------------------------------------
(* otel_traceidratio_sample: consistent probability sampling.              *)
traceidratio_sample(t) == t >= threshold

(* otel_run_sampler: whether the span is recorded and sampled; it never    *)
(* decides RECORD_ONLY.                                                    *)
otel_run_sampler(t, new_root, remote_sampled) ==
    IF otel_sampler_mode \in ParentBased /\ ~new_root THEN remote_sampled
    ELSE CASE otel_sampler_mode \in {"always_on", "parentbased_always_on"}
                -> TRUE
           [] otel_sampler_mode \in {"always_off", "parentbased_always_off"}
                -> FALSE
           [] OTHER -> traceidratio_sample(t)

Decided(t, recorded, sampled, parent) ==
    [trace_id |-> t, recorded |-> recorded, sampled |-> sampled,
     parent |-> parent, open |-> TRUE]

(* A child of a recorded span (a slot) or of an nrec: the parent's         *)
(* decision, whatever the sampler and force_sample say by now.             *)
LocalChild_m(p, force) ==
    LET d == spans[p].recorded \/ force
    IN Decided(spans[p].trace_id, d, d, p)

LocalChild(p, force) ==
    Decided(spans[p].trace_id, spans[p].recorded, spans[p].sampled, p)

RemoteChild(c) ==
    LET d == otel_run_sampler(c.trace_id, FALSE, c.sampled)
    IN Decided(c.trace_id, d, d, 0)

NewRoot(t, force) ==
    LET d == force \/ otel_run_sampler(t, TRUE, FALSE)
    IN Decided(t, d, d, 0)

(* resolve_parent and the decision.  An active parent is the top of the    *)
(* stack, else the root context, else there is none; the context a         *)
(* parallel worker reads from its leader is among the remote ones of       *)
(* Starts.  t is what new_trace_id would give.                             *)
ActiveStart(t, force) ==
    IF stack # <<>> THEN LocalChild(stack[Len(stack)], force)
    ELSE IF root_ctx.set THEN RemoteChild(root_ctx)
    ELSE NewRoot(t, force)

Starts(t, force) ==
    {ActiveStart(t, force), NewRoot(t, force)}
    \union {RemoteChild(c) : c \in Remote}
    \union {LocalChild(p, force) : p \in {q \in 1..Len(spans) : spans[q].open}}

(* otel_span_start, behind its inline gate.  A detached span stays off the *)
(* stack.                                                                  *)
otel_span_start(s, detached) ==
    /\ recording_possible
    /\ Len(spans) < MAX_SPANS
    /\ spans' = Append(spans, s)
    /\ stack' = IF detached THEN stack ELSE Append(stack, Len(spans) + 1)
    /\ UNCHANGED <<configVars, root_ctx>>

(* otel_span_end: the span, and those above it on the stack, end.          *)
otel_span_end(p) ==
    LET above == {k \in 1..Len(stack) :
                    \E j \in 1..Len(stack) : j <= k /\ stack[j] = p}
        gone == {p} \union {stack[k] : k \in above}
    IN
    /\ spans[p].open
    /\ spans' = [q \in 1..Len(spans) |->
                   IF q \in gone THEN [spans[q] EXCEPT !.open = FALSE]
                   ELSE spans[q]]
    /\ stack' = Keep(stack, (1..Len(spans)) \ gone)
    /\ UNCHANGED <<configVars, root_ctx>>

-----------------------------------------------------------------------------
SamplingInit ==
    /\ otel_sampler_mode \in Mode
    /\ threshold \in 0..RANDOM_RANGE
    /\ emit_hook = FALSE
    /\ otel_emit_spans_to_log = FALSE
    /\ recording_possible = FALSE
    /\ root_ctx = NoCtx
    /\ spans = <<>>
    /\ stack = <<>>

SamplingNext ==
    \/ \E m \in Mode : assign_sampler(m)
    \/ \E l \in BOOLEAN : assign_emit_spans_to_log(l)
    \/ api_register_emit_hook
    \/ \E t \in 0..RANDOM_RANGE : SetSamplerArg(t)
    \/ \E c \in {NoCtx} \union [trace_id : TraceId, sampled : BOOLEAN,
                                set : {TRUE}] : SetRootContext(c)
    \/ \E t \in TraceId, force, detached \in BOOLEAN :
         \E s \in Starts(t, force) : otel_span_start(s, detached)
    \/ \E p \in 1..Len(spans) : otel_span_end(p)

SamplingSpec == SamplingInit /\ [][SamplingNext]_samplingVars

-----------------------------------------------------------------------------
(* Properties.                                                             *)

(* The sampler's configuration and every span's decision are well typed;   *)
(* the threshold stays within the random range.                            *)
SamplingTypeOK ==
    /\ otel_sampler_mode \in Mode
    /\ threshold \in 0..RANDOM_RANGE
    /\ emit_hook \in BOOLEAN
    /\ otel_emit_spans_to_log \in BOOLEAN
    /\ recording_possible \in BOOLEAN
    /\ root_ctx \in [trace_id : TraceId, sampled : BOOLEAN, set : BOOLEAN]
    /\ spans \in Seq(Span)
    /\ stack \in Seq(Nat)

(* Every local tree of spans is of one mind: a child has its parent's      *)
(* trace, and is recorded and flagged sampled exactly if the parent is,    *)
(* however the sampler was set in between.  So no recorded span has a      *)
(* local parent that is never exported.                                    *)
TreesAgree ==
    \A k \in 1..Len(spans) : spans[k].parent # 0 =>
        LET p == spans[spans[k].parent]
        IN /\ spans[k].trace_id = p.trace_id
           /\ spans[k].recorded = p.recorded
           /\ spans[k].sampled = p.sampled
=============================================================================

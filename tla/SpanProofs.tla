------------------------------ MODULE SpanProofs ----------------------------
(***************************************************************************)
(* Proofs about a span: the decision it gets when it starts (SpanSampling),*)
(* for any range of trace ids and any number of spans, and what it carries *)
(* (SpanData), for any keys, sizes, budget and number of calls.            *)
(***************************************************************************)
EXTENDS SpanSampling, SpanData, StackFacts, FiniteSetTheorems

(***************************************************************************)
(* Sampling and parent resolution: every local tree is of one mind.        *)
(***************************************************************************)

(* A span's parent was started before it, and what is on the active stack  *)
(* was started.                                                            *)
ParentsComeFirst ==
    \A k \in 1..Len(spans) : spans[k].parent \in 0..(k - 1)

StackNamesSpans == \A k \in 1..Len(stack) : stack[k] \in 1..Len(spans)

(* The inductive invariant.                                                *)
TreeInv == SamplingTypeOK /\ ParentsComeFirst /\ StackNamesSpans /\ TreesAgree

(* otel_run_sampler decides one way or the other.                          *)
LEMMA SamplerDecides ==
    ASSUME NEW t, NEW new_root, NEW remote \in BOOLEAN
    PROVE  otel_run_sampler(t, new_root, remote) \in BOOLEAN
<1>1. traceidratio_sample(t) \in BOOLEAN
  BY DEF traceidratio_sample
<1>2. CASE otel_sampler_mode \in ParentBased /\ ~new_root
  BY <1>2, Zenon DEF otel_run_sampler
<1>3. CASE ~(otel_sampler_mode \in ParentBased /\ ~new_root)
  <2> DEFINE on == otel_sampler_mode \in {"always_on", "parentbased_always_on"}
             off == otel_sampler_mode \in
                      {"always_off", "parentbased_always_off"}
             decision == CASE on -> TRUE [] off -> FALSE
                           [] OTHER -> traceidratio_sample(t)
  <2>1. otel_run_sampler(t, new_root, remote) = decision
    BY <1>3, Zenon DEF otel_run_sampler
  <2>2. ~(on /\ off)
    OBVIOUS
  <2> HIDE DEF on, off
  <2>3. decision \in BOOLEAN
    BY <1>1, <2>2, Zenon
  <2> QED
    BY <2>1, <2>3, Zenon
<1> QED
  BY <1>2, <1>3

(* Whatever parent is resolved, the new span is a well-typed one whose     *)
(* local parent, if any, has the same trace and the same decision.         *)
LEMMA StartsAgree ==
    ASSUME TreeInv, NEW t \in TraceId, NEW force \in BOOLEAN,
           NEW s \in Starts(t, force)
    PROVE  /\ s \in Span
           /\ s.parent \in 0..Len(spans)
           /\ s.parent # 0 => /\ s.trace_id = spans[s.parent].trace_id
                              /\ s.recorded = spans[s.parent].recorded
                              /\ s.sampled = spans[s.parent].sampled
<1> DEFINE Agrees(c) ==
      /\ c \in Span
      /\ c.parent \in 0..Len(spans)
      /\ c.parent # 0 => /\ c.trace_id = spans[c.parent].trace_id
                         /\ c.recorded = spans[c.parent].recorded
                         /\ c.sampled = spans[c.parent].sampled
<1>0. /\ Len(spans) \in Nat /\ Len(stack) \in Nat
      /\ \A k \in 1..Len(spans) : spans[k] \in Span
      /\ 0 \in 0..Len(spans) /\ threshold \in Nat
      /\ TraceId \subseteq Nat
  BY SamplingAssumption DEF TreeInv, SamplingTypeOK, TraceId
<1>1. ASSUME NEW c, c.trace_id \in TraceId, c.sampled \in BOOLEAN
      PROVE  Agrees(RemoteChild(c))
  <2>1. otel_run_sampler(c.trace_id, FALSE, c.sampled) \in BOOLEAN
    BY <1>1, SamplerDecides
  <2> QED
    BY <1>0, <1>1, <2>1 DEF RemoteChild, Decided, Span
<1>2. Agrees(NewRoot(t, force))
  <2>1. otel_run_sampler(t, TRUE, FALSE) \in BOOLEAN
    BY SamplerDecides
  <2>2. (force \/ otel_run_sampler(t, TRUE, FALSE)) \in BOOLEAN
    BY <2>1
  <2> QED
    BY <1>0, <2>2 DEF NewRoot, Decided, Span
<1>3. ASSUME NEW p \in 1..Len(spans)
      PROVE  Agrees(LocalChild(p, force))
  BY <1>0, <1>3 DEF LocalChild, Decided, Span
<1>4. Agrees(ActiveStart(t, force))
  <2>1. CASE stack # <<>>
    <3>1. stack[Len(stack)] \in 1..Len(spans)
      BY <1>0, <2>1 DEF TreeInv, StackNamesSpans, SamplingTypeOK
    <3> QED
      BY <1>3, <2>1, <3>1 DEF ActiveStart
  <2>2. CASE stack = <<>> /\ root_ctx.set
    BY <1>1, <2>2 DEF ActiveStart, TreeInv, SamplingTypeOK
  <2>3. CASE stack = <<>> /\ ~root_ctx.set
    BY <1>2, <2>3 DEF ActiveStart
  <2> QED
    BY <2>1, <2>2, <2>3
<1>5. ASSUME NEW c \in Remote
      PROVE  Agrees(RemoteChild(c))
  BY <1>1, <1>5 DEF Remote
<1> HIDE DEF Agrees
<1>6. Agrees(s)
  BY <1>2, <1>3, <1>4, <1>5 DEF Starts
<1> QED
  BY <1>6 DEF Agrees

LEMMA NoCtxType ==
    NoCtx \in [trace_id : TraceId, sampled : BOOLEAN, set : BOOLEAN]
<1>1. 0 \in TraceId
  BY SamplingAssumption DEF TraceId
<1> QED
  BY <1>1 DEF NoCtx

LEMMA InitTree == SamplingInit => TreeInv
<1> SUFFICES ASSUME SamplingInit
             PROVE  TreeInv
  OBVIOUS
<1>1. SamplingTypeOK
  <2>1. root_ctx \in [trace_id : TraceId, sampled : BOOLEAN, set : BOOLEAN]
    BY NoCtxType DEF SamplingInit
  <2>2. spans \in Seq(Span) /\ stack \in Seq(Nat)
    BY DEF SamplingInit
  <2> QED
    BY <2>1, <2>2 DEF SamplingInit, SamplingTypeOK
<1>2. Len(spans) = 0 /\ Len(stack) = 0
  BY DEF SamplingInit
<1> QED
  BY <1>1, <1>2 DEF TreeInv, ParentsComeFirst, StackNamesSpans, TreesAgree

(* A start appends a span that agrees with its parent.                     *)
LEMMA StartTree ==
    ASSUME TreeInv, NEW t \in TraceId, NEW force \in BOOLEAN,
           NEW detached \in BOOLEAN, NEW s \in Starts(t, force),
           otel_span_start(s, detached)
    PROVE  TreeInv'
<1>1. /\ s \in Span
      /\ s.parent \in 0..Len(spans)
      /\ s.parent # 0 => /\ s.trace_id = spans[s.parent].trace_id
                         /\ s.recorded = spans[s.parent].recorded
                         /\ s.sampled = spans[s.parent].sampled
  BY StartsAgree
<1>2. /\ spans' = Append(spans, s)
      /\ stack' = IF detached THEN stack ELSE Append(stack, Len(spans) + 1)
      /\ UNCHANGED <<configVars, root_ctx>>
  BY DEF otel_span_start
<1>3. /\ spans' \in Seq(Span) /\ Len(spans') = Len(spans) + 1
      /\ Len(spans) \in Nat
      /\ \A k \in 1..Len(spans) : spans'[k] = spans[k]
      /\ spans'[Len(spans) + 1] = s
  BY <1>1, <1>2, PushFacts DEF TreeInv, SamplingTypeOK
<1>4. stack' \in Seq(Nat) /\ StackNamesSpans'
  <2>1. CASE detached
    BY <1>2, <1>3, <2>1 DEF TreeInv, SamplingTypeOK, StackNamesSpans
  <2>2. CASE ~detached
    <3>1. /\ stack' \in Seq(Nat) /\ Len(stack') = Len(stack) + 1
          /\ Len(stack) \in Nat
          /\ \A k \in 1..Len(stack) : stack'[k] = stack[k]
          /\ stack'[Len(stack) + 1] = Len(spans) + 1
      BY <1>2, <1>3, <2>2, PushFacts DEF TreeInv, SamplingTypeOK
    <3>2. ASSUME NEW k \in 1..Len(stack')
          PROVE  stack'[k] \in 1..Len(spans')
      <4>1. CASE k = Len(stack) + 1
        BY <1>3, <3>1, <4>1
      <4>2. CASE k \in 1..Len(stack)
        <5>1. stack'[k] \in 1..Len(spans)
          BY <3>1, <4>2 DEF TreeInv, StackNamesSpans
        <5> QED
          BY <1>3, <5>1
      <4> QED
        BY <3>1, <4>1, <4>2
    <3> QED
      BY <3>1, <3>2 DEF StackNamesSpans
  <2> QED
    BY <2>1, <2>2
<1>5. SamplingTypeOK'
  BY <1>2, <1>3, <1>4 DEF TreeInv, SamplingTypeOK, configVars
<1>6. ParentsComeFirst'
  <2> SUFFICES ASSUME NEW k \in 1..Len(spans')
               PROVE  spans'[k].parent \in 0..(k - 1)
    BY DEF ParentsComeFirst
  <2>1. CASE k = Len(spans) + 1
    BY <1>1, <1>3, <2>1
  <2>2. CASE k \in 1..Len(spans)
    BY <1>3, <2>2 DEF TreeInv, ParentsComeFirst
  <2> QED
    BY <1>3, <2>1, <2>2
<1>7. TreesAgree'
  <2> SUFFICES ASSUME NEW k \in 1..Len(spans'), spans'[k].parent # 0
               PROVE  /\ spans'[k].trace_id = spans'[spans'[k].parent].trace_id
                      /\ spans'[k].recorded = spans'[spans'[k].parent].recorded
                      /\ spans'[k].sampled = spans'[spans'[k].parent].sampled
    BY DEF TreesAgree
  <2>1. CASE k = Len(spans) + 1
    <3>1. s.parent \in 1..Len(spans)
      BY <1>1, <1>3, <2>1
    <3> QED
      BY <1>1, <1>3, <2>1, <3>1
  <2>2. CASE k \in 1..Len(spans)
    <3>1. spans[k].parent \in 1..Len(spans)
      BY <1>3, <2>2 DEF TreeInv, ParentsComeFirst
    <3> QED
      BY <1>3, <2>2, <3>1 DEF TreeInv, TreesAgree
  <2> QED
    BY <1>3, <2>1, <2>2
<1> QED
  BY <1>4, <1>5, <1>6, <1>7 DEF TreeInv

(* An end changes which spans are open and takes entries off the stack.    *)
LEMMA EndTree ==
    ASSUME TreeInv, NEW p \in 1..Len(spans), otel_span_end(p)
    PROVE  TreeInv'
<1>1. PICK gone :
        /\ spans' = [q \in 1..Len(spans) |->
                       IF q \in gone THEN [spans[q] EXCEPT !.open = FALSE]
                       ELSE spans[q]]
        /\ stack' = Keep(stack, (1..Len(spans)) \ gone)
        /\ UNCHANGED <<configVars, root_ctx>>
  BY DEF otel_span_end
<1>2. Len(spans) \in Nat /\ \A k \in 1..Len(spans) : spans[k] \in Span
  BY DEF TreeInv, SamplingTypeOK
<1>3. \A k \in 1..Len(spans) : /\ spans'[k] \in Span
                               /\ spans'[k].trace_id = spans[k].trace_id
                               /\ spans'[k].recorded = spans[k].recorded
                               /\ spans'[k].sampled = spans[k].sampled
                               /\ spans'[k].parent = spans[k].parent
  BY <1>1, <1>2 DEF Span
<1>4. spans' \in [1..Len(spans) -> Span]
  BY <1>1, <1>3
<1>5. spans' \in Seq(Span) /\ Len(spans') = Len(spans)
  BY <1>2, <1>4
<1>6. stack' \in Seq(Nat) /\ Items(stack') \subseteq Items(stack)
  BY <1>1, KeepItems DEF TreeInv, SamplingTypeOK
<1>7. StackNamesSpans'
  <2> SUFFICES ASSUME NEW k \in 1..Len(stack')
               PROVE  stack'[k] \in 1..Len(spans')
    BY DEF StackNamesSpans
  <2>1. stack'[k] \in Items(stack)
    BY <1>6 DEF Items
  <2> QED
    BY <1>5, <2>1 DEF Items, TreeInv, StackNamesSpans
<1>8. SamplingTypeOK'
  BY <1>1, <1>5, <1>6 DEF TreeInv, SamplingTypeOK, configVars
<1>9. ParentsComeFirst' /\ TreesAgree'
  <2>1. \A k \in 1..Len(spans) : spans[k].parent # 0 =>
                                     spans[k].parent \in 1..Len(spans)
    BY <1>2 DEF TreeInv, ParentsComeFirst
  <2>2. ParentsComeFirst'
    BY <1>3, <1>5 DEF TreeInv, ParentsComeFirst
  <2>3. TreesAgree'
    <3> SUFFICES ASSUME NEW k \in 1..Len(spans), spans[k].parent # 0
                 PROVE  /\ spans'[k].trace_id = spans'[spans[k].parent].trace_id
                        /\ spans'[k].recorded = spans'[spans[k].parent].recorded
                        /\ spans'[k].sampled = spans'[spans[k].parent].sampled
      BY <1>3, <1>5 DEF TreesAgree
    <3> QED
      BY <1>3, <2>1 DEF TreeInv, TreesAgree
  <2> QED
    BY <2>2, <2>3
<1> QED
  BY <1>7, <1>8, <1>9 DEF TreeInv

LEMMA StepTree == TreeInv /\ [SamplingNext]_samplingVars => TreeInv'
<1> SUFFICES ASSUME TreeInv, [SamplingNext]_samplingVars
             PROVE  TreeInv'
  OBVIOUS
<1>1. ASSUME UNCHANGED <<spans, stack>>, SamplingTypeOK'
      PROVE  TreeInv'
  BY <1>1 DEF TreeInv, ParentsComeFirst, StackNamesSpans, TreesAgree
<1>2. ASSUME NEW m \in Mode, assign_sampler(m)
      PROVE  TreeInv'
  BY <1>1, <1>2 DEF assign_sampler, RecordingPossible, TreeInv, SamplingTypeOK
<1>3. ASSUME NEW l \in BOOLEAN, assign_emit_spans_to_log(l)
      PROVE  TreeInv'
  BY <1>1, <1>3 DEF assign_emit_spans_to_log, RecordingPossible, TreeInv,
                    SamplingTypeOK
<1>4. CASE api_register_emit_hook
  BY <1>1, <1>4
     DEF api_register_emit_hook, RecordingPossible, TreeInv, SamplingTypeOK
<1>5. ASSUME NEW t \in 0..RANDOM_RANGE, SetSamplerArg(t)
      PROVE  TreeInv'
  BY <1>1, <1>5 DEF SetSamplerArg, TreeInv, SamplingTypeOK
<1>6. ASSUME NEW c \in {NoCtx} \union [trace_id : TraceId, sampled : BOOLEAN,
                                       set : {TRUE}],
             SetRootContext(c)
      PROVE  TreeInv'
  <2>1. c \in [trace_id : TraceId, sampled : BOOLEAN, set : BOOLEAN]
    BY NoCtxType
  <2> QED
    BY <1>1, <1>6, <2>1 DEF SetRootContext, configVars, TreeInv, SamplingTypeOK
<1>7. ASSUME NEW t \in TraceId, NEW force \in BOOLEAN,
             NEW detached \in BOOLEAN, NEW s \in Starts(t, force),
             otel_span_start(s, detached)
      PROVE  TreeInv'
  BY <1>7, StartTree
<1>8. ASSUME NEW p \in 1..Len(spans), otel_span_end(p)
      PROVE  TreeInv'
  BY <1>8, EndTree
<1>9. CASE UNCHANGED samplingVars
  BY <1>1, <1>9 DEF samplingVars, TreeInv, SamplingTypeOK
<1> QED
  BY <1>2, <1>3, <1>4, <1>5, <1>6, <1>7, <1>8, <1>9 DEF SamplingNext

(***************************************************************************)
(* Theorems.                                                               *)
(***************************************************************************)

(* However the sampler, its argument, the exporters and the root context   *)
(* change while spans start and end, a child has its parent's trace and    *)
(* its parent's decision (resolve_parent and api_span_start).              *)
THEOREM TreesAreOfOneMind == SamplingSpec => []TreesAgree
<1>1. TreeInv => TreesAgree
  BY DEF TreeInv
<1> QED
  BY <1>1, InitTree, StepTree, PTL DEF SamplingSpec

(***************************************************************************)
(* What a span carries.  DataInv is the inductive invariant: types, the byte*)
(* budget, the account of what was asked for, the most severe error, and   *)
(* what is known of the status of a span that failed.                      *)
(***************************************************************************)

(* The keys that were asked for and have no attribute.                     *)
Missing == {key \in keys_set : IndexOf(key) = {}}

(* While a span is open, it is known why it failed: the log hook described *)
(* it, its user did, or it holds the ERROR that will; only the end of the  *)
(* span writes a warning's text or "unwound" into the description.         *)
Blame ==
    /\ ~ended => description \in {"none", "user", "error"}
    /\ blamed => /\ status = "error"
                 /\ \/ no_memory
                    \/ description \in {"user", "error"}
                    \/ ~ended /\ err = ERROR

DataInv ==
    /\ TypeOK
    /\ IsFiniteSet(keys_set)
    /\ BudgetHolds
    /\ NothingLostSilently
    /\ WorstErrorIsReported
    /\ Blame

-----------------------------------------------------------------------------
(* The operators.                                                          *)

LEMMA FunctionIsSeq ==
    ASSUME NEW S, NEW n \in Nat, NEW f \in [1..n -> S]
    PROVE  f \in Seq(S) /\ Len(f) = n
  OBVIOUS

(* An array never shrinks, has room for what it grew for, and what growing *)
(* it costs is not negative.                                               *)
LEMMA GrownFacts ==
    ASSUME NEW cap \in Nat, NEW want \in Nat
    PROVE  /\ Grown(cap, want) \in Nat
           /\ Grown(cap, want) >= cap
           /\ Grown(cap, want) >= want
           /\ GrowCost(cap, want) \in Nat
           /\ GrowCost(cap, want) = 0 => Grown(cap, want) = cap
<1> DEFINE g == Grown(cap, want)
<1>1. g \in Nat /\ g >= cap /\ g >= want
  BY DEF Grown, MaxOf
<1> HIDE DEF g
<1>2. g - cap \in Nat
  BY <1>1
<1>3. ELEM_SIZE \in Nat /\ ELEM_SIZE > 0
  BY DataAssumption
<1>4. /\ (g - cap) * ELEM_SIZE \in Nat
      /\ (g - cap) * ELEM_SIZE = 0 => g - cap = 0
  <2> DEFINE d == g - cap
  <2>1. d \in Nat
    BY <1>2
  <2> HIDE DEF d
  <2>2. d * ELEM_SIZE \in Nat /\ (d # 0 => d * ELEM_SIZE > 0)
    BY <1>3, <2>1
  <2> QED
    BY <2>2 DEF d
<1>5. g = cap <=> g - cap = 0
  BY <1>1
<1> QED
  BY <1>1, <1>4, <1>5 DEF g, GrowCost

(* A growing array's capacities stay natural numbers.                      *)
LEMMA GrowType ==
    ASSUME TypeOK, NEW a \in Array, NEW want \in Nat
    PROVE  /\ caps[a] \in Nat
           /\ Grown(caps[a], want) \in Nat
           /\ GrowCost(caps[a], want) \in Nat
           /\ [caps EXCEPT ![a] = Grown(@, want)] \in [Array -> Nat]
<1>1. caps[a] \in Nat /\ caps \in [Array -> Nat]
  BY DEF TypeOK
<1> QED
  BY <1>1, GrownFacts

(* The attributes after one was looked up or appended, and after its value *)
(* was refused: the sequence SetAttr calls stored.                         *)
Stored(key) == IF IndexOf(key) # {} THEN attrs
               ELSE Append(attrs, [key |-> key, set_by |-> calls'])

LEMMA StoredFacts ==
    ASSUME TypeOK, NEW key \in Keys, calls' \in Nat
    PROVE  /\ Stored(key) \in Seq(Attr)
           /\ Len(attrs) \in Nat
           /\ IndexOf(key) # {} => Stored(key) = attrs /\ Len(attrs) > 0
           /\ IndexOf(key) = {} =>
                /\ Len(Stored(key)) = Len(attrs) + 1
                /\ \A k \in 1..Len(attrs) : Stored(key)[k] = attrs[k]
                /\ Stored(key)[Len(attrs) + 1].key = key
<1>1. attrs \in Seq(Attr) /\ Len(attrs) \in Nat
  BY DEF TypeOK
<1>2. [key |-> key, set_by |-> calls'] \in Attr
  BY DEF Attr
<1>3. CASE IndexOf(key) # {}
  BY <1>1, <1>3 DEF Stored, IndexOf
<1>4. CASE IndexOf(key) = {}
  BY <1>1, <1>2, <1>4 DEF Stored
<1> QED
  BY <1>1, <1>3, <1>4

-----------------------------------------------------------------------------
(* What the calls do.                                                      *)

(* The array a grew, or stayed, and its growth was charged.                *)
Charged(a) ==
    /\ bytes' \in Nat /\ bytes' <= MAX_SPAN_BYTES
    /\ \/ caps' = caps /\ bytes' >= bytes
       \/ \E want \in Nat :
            /\ caps' = [caps EXCEPT ![a] = Grown(@, want)]
            /\ bytes' >= bytes + GrowCost(caps[a], want)

LEMMA ChargedFacts ==
    ASSUME TypeOK, BudgetHolds, NEW a \in Array, Charged(a)
    PROVE  /\ caps' \in [Array -> Nat]
           /\ \A b \in Array : caps'[b] >= caps[b]
           /\ bytes' \in Nat
           /\ bytes' <= MAX_SPAN_BYTES
           /\ (caps'["attrs"] + caps'["events"] + caps'["links"]
                 - INLINE_ATTRS) * ELEM_SIZE <= bytes'
<1> DEFINE total == caps["attrs"] + caps["events"] + caps["links"]
                    - INLINE_ATTRS
           total1 == caps'["attrs"] + caps'["events"] + caps'["links"]
                     - INLINE_ATTRS
<1>1. /\ bytes \in Nat /\ bytes' \in Nat /\ bytes' <= MAX_SPAN_BYTES
      /\ caps \in [Array -> Nat] /\ \A b \in Array : caps[b] \in Nat
      /\ total \in Int /\ total * ELEM_SIZE <= bytes
      /\ ELEM_SIZE \in Nat /\ INLINE_ATTRS \in Nat
  BY DataAssumption, SMTT(30) DEF TypeOK, BudgetHolds, Charged, Array
<1>2. ASSUME caps' = caps, bytes' >= bytes
      PROVE  total1 * ELEM_SIZE <= bytes'
  <2>1. total1 = total
    BY <1>2
  <2> HIDE DEF total, total1
  <2>2. total * ELEM_SIZE \in Int
    BY <1>1
  <2> QED
    BY <1>1, <1>2, <2>1, <2>2
<1>3. ASSUME NEW want \in Nat,
             caps' = [caps EXCEPT ![a] = Grown(@, want)],
             bytes' >= bytes + GrowCost(caps[a], want)
      PROVE  /\ caps' \in [Array -> Nat]
             /\ \A b \in Array : caps'[b] >= caps[b]
             /\ total1 * ELEM_SIZE <= bytes'
  <2> DEFINE d == Grown(caps[a], want) - caps[a]
  <2>1. /\ Grown(caps[a], want) \in Nat /\ Grown(caps[a], want) >= caps[a]
        /\ GrowCost(caps[a], want) = d * ELEM_SIZE
        /\ d \in Nat
    <3>1. caps[a] \in Nat
      BY <1>1
    <3>2. Grown(caps[a], want) \in Nat /\ Grown(caps[a], want) >= caps[a]
      BY <3>1, GrownFacts
    <3> QED
      BY <3>1, <3>2 DEF GrowCost
  <2>2. /\ caps' \in [Array -> Nat]
        /\ \A b \in Array : caps'[b] >= caps[b]
        /\ total1 = total + d
    <3>1. caps' \in [Array -> Nat]
      BY <1>1, <1>3, <2>1
    <3>2. \A b \in Array : caps'[b] = IF b = a THEN Grown(caps[a], want)
                                      ELSE caps[b]
      BY <1>1, <1>3
    <3>3. \A b \in Array : caps'[b] >= caps[b]
      BY <1>1, <2>1, <3>2
    <3>4. total1 = total + d
      BY <1>1, <2>1, <3>2 DEF Array
    <3> QED
      BY <3>1, <3>3, <3>4
  <2> HIDE DEF d, total, total1
  <2>3. (total + d) * ELEM_SIZE = total * ELEM_SIZE + d * ELEM_SIZE
    BY <1>1, <2>1
  <2>4. total * ELEM_SIZE \in Int /\ d * ELEM_SIZE \in Int
    BY <1>1, <2>1
  <2>5. bytes' >= bytes + d * ELEM_SIZE
    BY <1>3, <2>1
  <2>6. total1 * ELEM_SIZE <= bytes'
    BY <1>1, <2>2, <2>3, <2>4, <2>5
  <2> QED
    BY <2>2, <2>6
<1>4. caps' \in [Array -> Nat] /\ \A b \in Array : caps'[b] >= caps[b]
  <2>1. CASE caps' = caps
    BY <1>1, <2>1
  <2> QED
    BY <1>3, <2>1 DEF Charged
<1>5. total1 * ELEM_SIZE <= bytes'
  <2> HIDE DEF total, total1
  <2> QED
    BY <1>2, <1>3 DEF Charged
<1> QED
  BY <1>1, <1>4, <1>5, Zenon

(* A step that charges nothing.                                            *)
LEMMA NotCharged ==
    ASSUME TypeOK, BudgetHolds, UNCHANGED <<caps, bytes>>
    PROVE  Charged("attrs")
  BY DataAssumption DEF TypeOK, BudgetHolds, Charged

(* The three ways SetAttr goes: nothing was stored, the value was, or it   *)
(* was refused and the last entry went away.                               *)
AttrStored(key) ==
    /\ attrs' = [k \in 1..Len(Stored(key)) |->
                   IF Stored(key)[k].key = key
                   THEN [Stored(key)[k] EXCEPT !.set_by = calls']
                   ELSE Stored(key)[k]]
    /\ UNCHANGED dropped

AttrRoom(key) ==
    caps' = IF IndexOf(key) # {} THEN caps
            ELSE [caps EXCEPT !["attrs"] = Grown(@, Len(attrs) + 1)]

AttrOutcome(key) ==
    \/ IndexOf(key) = {} /\ AttrRefused
    \/ AttrRoom(key) /\ AttrStored(key)
    \/ /\ AttrRoom(key)
       /\ ValueRefused(Stored(key))
       /\ dropped' = [dropped EXCEPT !["attrs"] = @ + 1]

LEMMA SetAttrCharged ==
    ASSUME TypeOK, BudgetHolds, NEW key \in Keys, NEW ksize \in Sizes,
           NEW vsize \in Sizes \union {0}, SetAttr(key, ksize, vsize)
    PROVE  Charged("attrs") /\ AttrOutcome(key)
<1> DEFINE want == Len(attrs) + 1
           cost == GrowCost(caps["attrs"], want)
           base == bytes + (IF IndexOf(key) # {} THEN 0 ELSE cost)
                         + (IF IndexOf(key) # {} THEN 0 ELSE ksize)
<1>1. /\ ksize \in Nat /\ vsize \in Nat /\ bytes \in Nat
      /\ MAX_SPAN_BYTES \in Nat /\ bytes <= MAX_SPAN_BYTES
      /\ want \in Nat /\ cost \in Nat
      /\ cost = 0 => Grown(caps["attrs"], want) = caps["attrs"]
      /\ caps \in [Array -> Nat]
  <2>1. want \in Nat /\ caps["attrs"] \in Nat
    BY DEF TypeOK, Array
  <2>2. /\ cost \in Nat
        /\ cost = 0 => Grown(caps["attrs"], want) = caps["attrs"]
    BY <2>1, GrownFacts
  <2> QED
    BY <2>1, <2>2, DataAssumption DEF TypeOK, BudgetHolds
<1> HIDE DEF want, cost
<1>2. ASSUME AttrRefused
      PROVE  Charged("attrs")
  <2>1. CASE UNCHANGED <<caps, bytes>>
    BY <2>1, NotCharged
  <2>2. CASE /\ Fits(bytes, cost)
             /\ caps' = [caps EXCEPT !["attrs"] = Grown(@, want)]
             /\ bytes' = bytes + cost
    <3>1. /\ bytes' \in Nat /\ bytes' <= MAX_SPAN_BYTES
          /\ bytes' >= bytes + GrowCost(caps["attrs"], want)
      BY <1>1, <2>2 DEF Fits, cost
    <3> QED
      BY <1>1, <2>2, <3>1 DEF Charged
  <2> QED
    BY <1>2, <2>1, <2>2 DEF AttrRefused, want, cost
<1>3. ASSUME ~(IndexOf(key) = {} /\ AttrRefused)
      PROVE  /\ IndexOf(key) = {} => /\ cost = 0 \/ Fits(bytes, cost)
                                     /\ Fits(bytes + cost, ksize)
             /\ AttrRoom(key)
             /\ \/ /\ vsize = 0 \/ Fits(base, vsize)
                   /\ bytes' = base + vsize
                   /\ AttrStored(key)
                \/ /\ bytes' = base
                   /\ ValueRefused(Stored(key))
                   /\ dropped' = [dropped EXCEPT !["attrs"] = @ + 1]
  BY <1>3 DEF SetAttr, AttrStored, AttrRoom, Stored, want, cost
<1>4. ASSUME ~(IndexOf(key) = {} /\ AttrRefused)
      PROVE  Charged("attrs")
  <2>1. CASE IndexOf(key) # {}
    <3>1. caps' = caps /\ bytes' >= bytes /\ bytes' \in Nat
          /\ bytes' <= MAX_SPAN_BYTES
      BY <1>1, <1>3, <1>4, <2>1 DEF Fits, AttrRoom
    <3> QED
      BY <3>1 DEF Charged
  <2>2. CASE IndexOf(key) = {}
    <3>1. /\ caps' = [caps EXCEPT !["attrs"] = Grown(@, want)]
          /\ bytes' >= bytes + cost /\ bytes' \in Nat
          /\ bytes' <= MAX_SPAN_BYTES
      BY <1>1, <1>3, <1>4, <2>2 DEF Fits, AttrRoom, want
    <3> QED
      BY <1>1, <3>1 DEF Charged, cost
  <2> QED
    BY <2>1, <2>2
<1> QED
  BY <1>2, <1>3, <1>4 DEF AttrOutcome

(* Keys with an attribute keep it, but for one that is counted as dropped. *)
KeysKept(key) ==
    \/ /\ dropped' = dropped
       /\ \A k \in Keys : IndexOf(k) # {} \/ k = key => IndexOf(k)' # {}
    \/ /\ dropped' = [dropped EXCEPT !["attrs"] = @ + 1]
       /\ \E lost \in Keys : \A k \in Keys \ {lost} :
            IndexOf(k) # {} \/ k = key => IndexOf(k)' # {}

(* An entry with the key is a place where the key is found.                *)
LEMMA FoundAt ==
    ASSUME NEW k, NEW j \in 1..Len(attrs'), attrs'[j].key = k
    PROVE  IndexOf(k)' # {}
  BY DEF IndexOf

LEMMA AttrOutcomeFacts ==
    ASSUME TypeOK, BudgetHolds, NEW key \in Keys, calls' \in Nat,
           AttrOutcome(key), caps' \in [Array -> Nat],
           \A a \in Array : caps'[a] >= caps[a]
    PROVE  /\ attrs' \in Seq(Attr)
           /\ Len(attrs') <= caps'["attrs"]
           /\ KeysKept(key)
<1> DEFINE s == Stored(key)
<1>1. /\ s \in Seq(Attr) /\ Len(s) \in Nat /\ Len(attrs) \in Nat
      /\ \A k \in 1..Len(s) : s[k] \in Attr
      /\ IndexOf(key) # {} => s = attrs /\ Len(attrs) > 0
      /\ IndexOf(key) = {} =>
           /\ Len(s) = Len(attrs) + 1
           /\ \A k \in 1..Len(attrs) : s[k] = attrs[k]
           /\ s[Len(attrs) + 1].key = key
  <2>1. /\ s \in Seq(Attr) /\ Len(attrs) \in Nat
        /\ IndexOf(key) # {} => s = attrs /\ Len(attrs) > 0
        /\ IndexOf(key) = {} =>
             /\ Len(s) = Len(attrs) + 1
             /\ \A k \in 1..Len(attrs) : s[k] = attrs[k]
             /\ s[Len(attrs) + 1].key = key
    BY StoredFacts
  <2> HIDE DEF s
  <2> QED
    BY <2>1
<1>2. /\ caps["attrs"] \in Nat /\ caps'["attrs"] \in Nat
      /\ caps'["attrs"] >= caps["attrs"] /\ Len(attrs) <= caps["attrs"]
      /\ attrs \in Seq(Attr)
  BY DEF TypeOK, BudgetHolds, Array
<1>3. ASSUME AttrRoom(key)
      PROVE  Len(s) <= caps'["attrs"]
  <2>1. CASE IndexOf(key) # {}
    BY <1>1, <1>2, <2>1
  <2>2. CASE IndexOf(key) = {}
    <3>1. caps' = [caps EXCEPT !["attrs"] = Grown(@, Len(attrs) + 1)]
      BY <1>3, <2>2 DEF AttrRoom
    <3>2. caps'["attrs"] = Grown(caps["attrs"], Len(attrs) + 1)
      BY <3>1 DEF TypeOK, Array
    <3>3. caps'["attrs"] >= Len(attrs) + 1
      <4>1. Len(attrs) + 1 \in Nat /\ caps["attrs"] \in Nat
        BY <1>1, <1>2
      <4> QED
        BY <3>2, <4>1, GrownFacts
    <3> QED
      BY <1>1, <2>2, <3>3
  <2> QED
    BY <2>1, <2>2
<1>4. \A k \in Keys : IndexOf(k) # {} =>
        \E j \in 1..Len(s) : j <= Len(attrs) /\ s[j].key = k /\ attrs[j].key = k
  BY <1>1 DEF IndexOf
<1>5. \E j \in 1..Len(s) : s[j].key = key
  BY <1>1 DEF IndexOf
<1> HIDE DEF s
<1>6. CASE IndexOf(key) = {} /\ AttrRefused
  <2>1. attrs' = attrs /\ dropped' = [dropped EXCEPT !["attrs"] = @ + 1]
    BY <1>6 DEF AttrRefused
  <2>2. \A k \in Keys \ {key} : IndexOf(k) # {} => IndexOf(k)' # {}
    BY <2>1 DEF IndexOf
  <2>3. \A k \in Keys \ {key} :
          IndexOf(k) # {} \/ k = key => IndexOf(k)' # {}
    BY <2>2
  <2>4. KeysKept(key)
    BY <2>1, <2>3 DEF KeysKept
  <2>5. Len(attrs') <= caps'["attrs"]
    BY <1>1, <1>2, <2>1
  <2> QED
    BY <1>2, <2>1, <2>4, <2>5
<1>7. CASE AttrRoom(key) /\ AttrStored(key)
  <2>1. attrs' = [k \in 1..Len(s) |->
                    IF s[k].key = key THEN [s[k] EXCEPT !.set_by = calls']
                    ELSE s[k]]
    BY <1>7 DEF AttrStored, s
  <2>2. /\ attrs' \in [1..Len(s) -> Attr]
        /\ \A k \in 1..Len(s) : attrs'[k].key = s[k].key
    <3>1. \A k \in 1..Len(s) : [s[k] EXCEPT !.set_by = calls'] \in Attr
      BY <1>1 DEF Attr
    <3>2. \A k \in 1..Len(s) : [s[k] EXCEPT !.set_by = calls'].key = s[k].key
      BY <1>1 DEF Attr
    <3> QED
      BY <1>1, <2>1, <3>1, <3>2
  <2>3. attrs' \in Seq(Attr) /\ Len(attrs') = Len(s)
    BY <1>1, <2>2, FunctionIsSeq
  <2>4. \A k \in Keys : IndexOf(k) # {} \/ k = key => IndexOf(k)' # {}
    BY <1>4, <1>5, <2>2, <2>3, FoundAt
  <2> QED
    BY <1>3, <1>7, <2>3, <2>4 DEF KeysKept, AttrStored
<1>8. CASE /\ AttrRoom(key) /\ ValueRefused(s)
           /\ dropped' = [dropped EXCEPT !["attrs"] = @ + 1]
  <2>1. attrs' = [k \in 1..(Len(s) - 1) |-> s[k]] /\ Len(s) - 1 \in Nat
    BY <1>1, <1>8 DEF ValueRefused
  <2>2. attrs' \in [1..(Len(s) - 1) -> Attr]
    BY <1>1, <2>1
  <2>3. /\ attrs' \in Seq(Attr) /\ Len(attrs') = Len(s) - 1
        /\ \A k \in 1..(Len(s) - 1) : attrs'[k] = s[k]
    BY <2>1, <2>2, FunctionIsSeq
  <2>4. Len(attrs') <= caps'["attrs"]
    BY <1>1, <1>2, <1>3, <1>8, <2>3
  <2> DEFINE lost == s[Len(s)].key
  <2>5. lost \in Keys
    BY <1>1, <2>1 DEF Attr
  <2>6. \A k \in Keys \ {lost} : \A j \in 1..Len(s) :
          s[j].key = k => IndexOf(k)' # {}
    <3> SUFFICES ASSUME NEW k \in Keys \ {lost}, NEW j \in 1..Len(s),
                        s[j].key = k
                 PROVE  IndexOf(k)' # {}
      OBVIOUS
    <3>1. j \in 1..Len(attrs') /\ attrs'[j].key = k
      BY <1>1, <2>3
    <3> QED
      BY <3>1, FoundAt
  <2>7. \A k \in Keys \ {lost} : IndexOf(k) # {} \/ k = key => IndexOf(k)' # {}
    BY <1>4, <1>5, <2>6
  <2> QED
    BY <1>8, <2>3, <2>4, <2>5, <2>7 DEF KeysKept
<1> QED
  BY <1>6, <1>7, <1>8 DEF AttrOutcome, s

-----------------------------------------------------------------------------
(* Types and budget.                                                       *)

(* With room for what the arrays hold, growth that was charged keeps the   *)
(* budget.                                                                 *)
LEMMA BudgetFrom ==
    ASSUME TypeOK, BudgetHolds, NEW a \in Array, Charged(a),
           \/ attrs' = attrs \/ Len(attrs') <= caps'["attrs"],
           \/ events' = events \/ Len(events') <= caps'["events"],
           \/ n_links' = n_links \/ n_links' <= caps'["links"]
    PROVE  BudgetHolds' /\ caps' \in [Array -> Nat] /\ bytes' \in Nat
<1>1. /\ caps' \in [Array -> Nat] /\ bytes' \in Nat
      /\ \A b \in Array : caps'[b] >= caps[b]
      /\ bytes' <= MAX_SPAN_BYTES
      /\ (caps'["attrs"] + caps'["events"] + caps'["links"]
            - INLINE_ATTRS) * ELEM_SIZE <= bytes'
  BY ChargedFacts
<1>2. /\ Len(attrs) <= caps["attrs"] /\ Len(events) <= caps["events"]
      /\ n_links <= caps["links"]
      /\ Len(attrs) \in Nat /\ Len(events) \in Nat /\ n_links \in Nat
      /\ \A b \in Array : caps[b] \in Nat
      /\ "attrs" \in Array /\ "events" \in Array /\ "links" \in Array
  BY DEF BudgetHolds, TypeOK, Array
<1>3. /\ Len(attrs') <= caps'["attrs"] /\ Len(events') <= caps'["events"]
      /\ n_links' <= caps'["links"]
  <2>1. \A b \in Array : caps'[b] \in Nat
    BY <1>1
  <2>2. \A b \in Array : \A n \in Nat : n <= caps[b] => n <= caps'[b]
    BY <1>1, <1>2, <2>1
  <2> QED
    BY <1>2, <2>2
<1> QED
  BY <1>1, <1>3, Zenon DEF BudgetHolds

(* Growing an array for one more element, and n more bytes.                *)
LEMMA GrowCharged ==
    ASSUME TypeOK, BudgetHolds, NEW a \in Array, NEW want \in Nat,
           NEW n \in Nat,
           caps' = [caps EXCEPT ![a] = Grown(@, want)],
           bytes' = bytes + GrowCost(caps[a], want) + n,
           GrowCost(caps[a], want) + n = 0
             \/ Fits(bytes, GrowCost(caps[a], want) + n)
    PROVE  /\ Charged(a) /\ want <= caps'[a]
           /\ GrowCost(caps[a], want) \in Nat
<1> DEFINE cost == GrowCost(caps[a], want)
<1>1. /\ caps[a] \in Nat /\ cost \in Nat /\ bytes \in Nat
      /\ Grown(caps[a], want) \in Nat /\ Grown(caps[a], want) >= want
      /\ caps'[a] = Grown(caps[a], want)
      /\ bytes <= MAX_SPAN_BYTES /\ MAX_SPAN_BYTES \in Nat
  <2>1. caps[a] \in Nat /\ caps \in [Array -> Nat]
    BY DEF TypeOK
  <2>2. cost \in Nat /\ Grown(caps[a], want) \in Nat
        /\ Grown(caps[a], want) >= want
    BY <2>1, GrownFacts
  <2>3. bytes \in Nat /\ bytes <= MAX_SPAN_BYTES /\ MAX_SPAN_BYTES \in Nat
    BY DataAssumption DEF TypeOK, BudgetHolds
  <2> QED
    BY <2>1, <2>2, <2>3
<1>2. /\ bytes' = bytes + cost + n
      /\ cost + n = 0 \/ Fits(bytes, cost + n)
  OBVIOUS
<1> HIDE DEF cost
<1>3. bytes' \in Nat /\ bytes' <= MAX_SPAN_BYTES /\ bytes' >= bytes + cost
  BY <1>1, <1>2 DEF Fits
<1>4. want <= caps'[a]
  BY <1>1
<1>5. Charged(a)
  BY <1>3 DEF Charged, cost
<1> QED
  BY <1>1, <1>4, <1>5 DEF cost

(* n bytes charged and no array grown.                                     *)
LEMMA BytesCharged ==
    ASSUME TypeOK, BudgetHolds, NEW n \in Nat, caps' = caps,
           bytes' = bytes + n, n = 0 \/ Fits(bytes, n)
    PROVE  Charged("attrs")
<1>1. bytes \in Nat /\ bytes <= MAX_SPAN_BYTES /\ MAX_SPAN_BYTES \in Nat
  BY DataAssumption DEF TypeOK, BudgetHolds
<1> QED
  BY <1>1 DEF Charged, Fits

(* An event or a link that was asked for is there or counted as dropped.   *)
EventOrDropped(e) ==
    \/ events' = Append(events, e) /\ dropped' = dropped
    \/ events' = events /\ dropped' = [dropped EXCEPT !["events"] = @ + 1]

LEMMA EventTypes ==
    ASSUME TypeOK, NEW e \in {"user", "exception"}
    PROVE  /\ Append(events, e) \in Seq({"user", "exception"})
           /\ Len(Append(events, e)) = Len(events) + 1
           /\ Len(events) \in Nat /\ Len(events) + 1 \in Nat
           /\ Append(events, e) # <<>>
           /\ Append(events, e)[Len(events) + 1] = e
  BY DEF TypeOK

LEMMA AddEventStep ==
    ASSUME TypeOK, BudgetHolds, NEW nsize \in Sizes,
           NEW asize \in Sizes \union {0}, AddEvent(nsize, asize)
    PROVE  /\ BudgetHolds' /\ caps' \in [Array -> Nat] /\ bytes' \in Nat
           /\ EventOrDropped("user")
<1> DEFINE want == Len(events) + 1
           grow == GrowCost(caps["events"], want)
<1>1. /\ nsize \in Nat /\ asize \in Nat /\ want \in Nat /\ grow \in Nat
      /\ "events" \in Array
      /\ bytes \in Nat /\ MAX_SPAN_BYTES \in Nat
      /\ grow = 0 => caps = [caps EXCEPT !["events"] = Grown(@, want)]
  <2>1. want \in Nat /\ caps["events"] \in Nat /\ caps \in [Array -> Nat]
    BY EventTypes DEF TypeOK, Array
  <2>2. /\ grow \in Nat
        /\ grow = 0 => Grown(caps["events"], want) = caps["events"]
    BY <2>1, GrownFacts
  <2> QED
    BY <2>1, <2>2, DataAssumption DEF TypeOK, Array
<1>2. attrs' = attrs /\ n_links' = n_links
  BY DEF AddEvent
<1> HIDE DEF want, grow
<1>3. CASE /\ grow = 0 \/ Fits(bytes, grow)
           /\ Fits(bytes + grow, nsize)
           /\ asize = 0 \/ Fits(bytes + grow + nsize, asize)
           /\ caps' = [caps EXCEPT !["events"] = Grown(@, want)]
           /\ bytes' = bytes + grow + nsize + asize
           /\ events' = Append(events, "user")
           /\ UNCHANGED dropped
  <2>1. /\ nsize + asize \in Nat
        /\ bytes' = bytes + grow + (nsize + asize)
        /\ Fits(bytes, grow + (nsize + asize))
    BY <1>1, <1>3 DEF Fits
  <2>2. Charged("events") /\ want <= caps'["events"]
    BY <1>1, <1>3, <2>1, GrowCharged DEF grow
  <2>3. Len(events') <= caps'["events"]
    BY <1>3, <2>2, EventTypes DEF want
  <2> QED
    BY <1>1, <1>2, <1>3, <2>2, <2>3, BudgetFrom DEF EventOrDropped
<1>4. ASSUME EventDropped, UNCHANGED events,
             NEW spent \in {0, grow} \union {grow + nsize + part :
                                               part \in 0..(asize - 1)},
             Fits(bytes, spent),
             bytes' = bytes + spent,
             caps' = IF spent < grow \/ grow = 0 THEN caps
                     ELSE [caps EXCEPT !["events"] = Grown(@, want)]
      PROVE  /\ BudgetHolds' /\ caps' \in [Array -> Nat] /\ bytes' \in Nat
             /\ EventOrDropped("user")
  <2>1. spent \in Nat
    BY <1>1, <1>4
  <2>2. CASE spent < grow \/ grow = 0
    <3>1. Charged("attrs")
      BY <1>4, <2>1, <2>2, BytesCharged
    <3> QED
      BY <1>2, <1>4, <3>1, BudgetFrom DEF EventOrDropped, EventDropped, Array
  <2>3. CASE ~(spent < grow \/ grow = 0)
    <3> DEFINE n == spent - grow
    <3>1. n \in Nat /\ spent = grow + n
      BY <1>1, <2>1, <2>3
    <3>2. bytes' = bytes + grow + n /\ Fits(bytes, grow + n)
      BY <1>1, <1>4, <3>1
    <3> HIDE DEF n
    <3>3. Charged("events")
      BY <1>1, <1>4, <2>3, <3>1, <3>2, GrowCharged DEF grow
    <3> QED
      BY <1>1, <1>2, <1>4, <3>3, BudgetFrom DEF EventOrDropped, EventDropped
  <2> QED
    BY <2>2, <2>3
<1> QED
  BY <1>3, <1>4 DEF AddEvent, want, grow

LEMMA AddLinkStep ==
    ASSUME TypeOK, BudgetHolds, api_span_add_link
    PROVE  /\ BudgetHolds' /\ caps' \in [Array -> Nat] /\ bytes' \in Nat
           /\ \/ n_links' = n_links + 1 /\ dropped' = dropped
              \/ /\ n_links' = n_links
                 /\ dropped' = [dropped EXCEPT !["links"] = @ + 1]
<1> DEFINE want == n_links + 1
           grow == GrowCost(caps["links"], want)
<1>1. /\ want \in Nat /\ grow \in Nat /\ "links" \in Array
      /\ bytes \in Nat /\ MAX_SPAN_BYTES \in Nat
  <2>1. want \in Nat /\ caps["links"] \in Nat
    BY DEF TypeOK, Array
  <2> QED
    BY <2>1, GrownFacts, DataAssumption DEF TypeOK, Array
<1>2. attrs' = attrs /\ events' = events
  BY DEF api_span_add_link
<1> HIDE DEF want, grow
<1>3. CASE /\ grow = 0 \/ Fits(bytes, grow)
           /\ caps' = [caps EXCEPT !["links"] = Grown(@, want)]
           /\ bytes' = bytes + grow
           /\ n_links' = want
           /\ UNCHANGED dropped
  <2>1. /\ 0 \in Nat /\ bytes' = bytes + grow + 0
        /\ grow + 0 = 0 \/ Fits(bytes, grow + 0)
    BY <1>1, <1>3
  <2>2. Charged("links") /\ want <= caps'["links"]
    BY <1>1, <1>3, <2>1, GrowCharged DEF grow
  <2> QED
    BY <1>1, <1>2, <1>3, <2>2, BudgetFrom DEF want
<1>4. CASE /\ UNCHANGED <<caps, bytes, n_links>>
           /\ dropped' = [dropped EXCEPT !["links"] = @ + 1]
  <2>1. Charged("attrs")
    BY <1>4, NotCharged
  <2> QED
    BY <1>2, <1>4, <2>1, BudgetFrom DEF Array
<1> QED
  BY <1>3, <1>4 DEF api_span_add_link, want, grow

LEMMA ErrorEventStep ==
    ASSUME TypeOK, BudgetHolds, lower_error_event, attrs' = attrs,
           n_links' = n_links
    PROVE  /\ BudgetHolds' /\ caps' \in [Array -> Nat] /\ bytes' \in Nat
           /\ IF err # 0 THEN EventOrDropped("exception")
              ELSE events' = events /\ dropped' = dropped
<1> DEFINE want == Len(events) + 1
           grow == GrowCost(caps["events"], want)
<1>1. /\ want \in Nat /\ grow \in Nat /\ "events" \in Array
      /\ bytes \in Nat /\ MAX_SPAN_BYTES \in Nat
  <2>1. want \in Nat /\ caps["events"] \in Nat
    BY EventTypes DEF TypeOK, Array
  <2> QED
    BY <2>1, GrownFacts, DataAssumption DEF TypeOK, Array
<1> HIDE DEF want, grow
<1>3. CASE /\ err # 0
           /\ grow = 0 \/ Fits(bytes, grow)
           /\ caps' = [caps EXCEPT !["events"] = Grown(@, want)]
           /\ bytes' = bytes + grow
           /\ events' = Append(events, "exception")
           /\ UNCHANGED dropped
  <2>1. /\ 0 \in Nat /\ bytes' = bytes + grow + 0
        /\ grow + 0 = 0 \/ Fits(bytes, grow + 0)
    BY <1>1, <1>3
  <2>2. Charged("events") /\ want <= caps'["events"]
    BY <1>1, <1>3, <2>1, GrowCharged DEF grow
  <2>3. Len(events') <= caps'["events"]
    BY <1>3, <2>2, EventTypes DEF want
  <2> QED
    BY <1>1, <1>3, <2>2, <2>3, BudgetFrom DEF EventOrDropped
<1>4. CASE /\ UNCHANGED <<caps, bytes, events>>
           /\ \/ err # 0 /\ dropped' = [dropped EXCEPT !["events"] = @ + 1]
              \/ err = 0 /\ UNCHANGED dropped
  <2>1. Charged("attrs")
    BY <1>4, NotCharged
  <2>2. BudgetHolds' /\ caps' \in [Array -> Nat] /\ bytes' \in Nat
    BY <1>4, <2>1, BudgetFrom DEF Array
  <2> QED
    BY <1>4, <2>2 DEF EventOrDropped
<1> QED
  BY <1>3, <1>4 DEF lower_error_event, want, grow

LEMMA SetAttrStep ==
    ASSUME TypeOK, BudgetHolds, NEW key \in Keys, NEW ksize \in Sizes,
           NEW vsize \in Sizes \union {0}, SetAttr(key, ksize, vsize)
    PROVE  /\ BudgetHolds' /\ caps' \in [Array -> Nat] /\ bytes' \in Nat
           /\ attrs' \in Seq(Attr) /\ KeysKept(key)
<1>1. Charged("attrs") /\ AttrOutcome(key) /\ "attrs" \in Array
  BY SetAttrCharged DEF Array
<1>2. caps' \in [Array -> Nat] /\ \A a \in Array : caps'[a] >= caps[a]
  BY <1>1, ChargedFacts
<1>3. /\ calls' \in Nat /\ events' = events /\ n_links' = n_links
  BY DataAssumption DEF SetAttr, Call, TypeOK
<1>4. /\ attrs' \in Seq(Attr) /\ Len(attrs') <= caps'["attrs"]
      /\ KeysKept(key)
  BY <1>1, <1>2, <1>3, AttrOutcomeFacts
<1> QED
  BY <1>1, <1>3, <1>4, BudgetFrom

(* The calls that charge a few bytes and grow nothing.                     *)
Texts ==
    \/ \E elevel \in {WARNING, ERROR}, copied \in Sizes \union {0} :
         slot_record_error(elevel, copied)
    \/ otel_emit_log_hook
    \/ \E code \in {"unset", "ok", "error"}, dsize \in Sizes :
         api_span_set_status(code, dsize)
    \/ \E nsize \in Sizes : api_span_set_name(nsize)

LEMMA TextStep ==
    ASSUME TypeOK, BudgetHolds, Texts
    PROVE  /\ BudgetHolds' /\ caps' = caps /\ bytes' \in Nat
           /\ UNCHANGED <<attrs, events, n_links, dropped, history, asked,
                          ended>>
           /\ Call
<1>1. /\ UNCHANGED <<attrs, events, n_links, dropped, history, asked, ended,
                     caps>>
      /\ Call
  BY DEF Texts, slot_record_error, otel_emit_log_hook, api_span_set_status,
         api_span_set_name
<1>2. \A s \in Sizes : s \in Nat
  BY DataAssumption
<1>3. \E n \in Nat : bytes' = bytes + n /\ (n = 0 \/ Fits(bytes, n))
  <2>1. bytes = bytes + 0
    BY DEF TypeOK
  <2>2. CASE bytes' = bytes
    BY <2>1, <2>2
  <2>3. bytes' = bytes \/ \E n \in Nat : Fits(bytes, n) /\ bytes' = bytes + n
    BY <1>2
       DEF Texts, slot_record_error, otel_emit_log_hook, api_span_set_status,
           api_span_set_name
  <2> QED
    BY <2>2, <2>3
<1>4. Charged("attrs")
  BY <1>1, <1>3, BytesCharged
<1> QED
  BY <1>1, <1>4, BudgetFrom DEF Array

(* The types the pieces above leave to show: the call count, the error,    *)
(* the status and its description.                                         *)
LEMMA StatusTypes ==
    ASSUME TypeOK, Next
    PROVE  /\ calls' \in 0..MAX_CALLS /\ ended' \in BOOLEAN
           /\ err' \in {0, WARNING, ERROR} /\ worst' \in {0, WARNING, ERROR}
           /\ status' \in {"unset", "ok", "error"}
           /\ description' \in Description
           /\ blamed' \in BOOLEAN /\ no_memory' \in BOOLEAN
<1>1. /\ calls \in Nat /\ MAX_CALLS \in Nat /\ calls <= MAX_CALLS
  BY DataAssumption DEF TypeOK
<1>2. \A e, f \in {0, WARNING, ERROR} : MaxOf(e, f) \in {0, WARNING, ERROR}
  BY DEF MaxOf
<1>3. Call => calls' \in 0..MAX_CALLS
  BY <1>1 DEF Call
<1>4. ASSUME NEW key \in Keys, NEW ksize \in Sizes,
             NEW vsize \in Sizes \union {0}, SetAttr(key, ksize, vsize)
      PROVE  Call /\ UNCHANGED <<err, statusVars, ended, worst>>
  BY <1>4 DEF SetAttr
<1>5. ASSUME NEW nsize \in Sizes, NEW asize \in Sizes \union {0},
             AddEvent(nsize, asize)
      PROVE  Call /\ UNCHANGED <<err, statusVars, ended, worst>>
  BY <1>5 DEF AddEvent
<1>6. CASE api_span_add_link
  BY <1>3, <1>6 DEF api_span_add_link, statusVars, TypeOK
<1>7. ASSUME NEW elevel \in {WARNING, ERROR}, NEW copied \in Sizes \union {0},
             slot_record_error(elevel, copied)
      PROVE  /\ Call /\ ended' = ended /\ description' = description
             /\ no_memory' = no_memory /\ blamed' \in BOOLEAN
             /\ status' \in {"unset", "ok", "error"}
             /\ err' \in {0, WARNING, ERROR} /\ worst' \in {0, WARNING, ERROR}
  <2>1. Call /\ ended' = ended /\ description' = description
        /\ no_memory' = no_memory
    BY <1>7 DEF slot_record_error
  <2>2. worst' \in {0, WARNING, ERROR} /\ err' \in {0, WARNING, ERROR}
    BY <1>2, <1>7 DEF slot_record_error, TypeOK
  <2>3. blamed' \in BOOLEAN /\ status' \in {"unset", "ok", "error"}
    BY <1>7 DEF slot_record_error, TypeOK
  <2> QED
    BY <2>1, <2>2, <2>3
<1>8. CASE otel_emit_log_hook
  BY <1>3, <1>8
     DEF otel_emit_log_hook, MarkedFailed, Described, TypeOK, Description
<1>9. ASSUME NEW code \in {"unset", "ok", "error"}, NEW dsize \in Sizes,
             api_span_set_status(code, dsize)
      PROVE  /\ Call /\ ended' = ended /\ status' = code
             /\ blamed' = FALSE /\ no_memory' = no_memory
             /\ description' \in Description /\ err' = err /\ worst' = worst
  BY <1>9 DEF api_span_set_status, Description
<1>10. ASSUME NEW nsize \in Sizes, api_span_set_name(nsize)
       PROVE  Call /\ UNCHANGED <<err, statusVars, ended, worst>>
  BY <1>10 DEF api_span_set_name
<1>11. ASSUME NEW unwinding \in BOOLEAN, end_slot(unwinding)
       PROVE  /\ ended' = TRUE /\ UNCHANGED <<err, blamed, calls, worst>>
              /\ status' \in {"unset", "ok", "error"}
              /\ description' \in Description /\ no_memory' \in BOOLEAN
  BY <1>11
     DEF end_slot, ErrorDescription, Described, TypeOK, Description
<1>12. CASE Ended
  BY <1>12 DEF Ended, vars, statusVars, TypeOK
<1> QED
  BY <1>3, <1>4, <1>5, <1>6, <1>7, <1>8, <1>9, <1>10, <1>11, <1>12
     DEF Next, TypeOK, statusVars

LEMMA TypeStep ==
    ASSUME TypeOK, BudgetHolds, [Next]_vars
    PROVE  TypeOK' /\ BudgetHolds'
<1> DEFINE Contents ==
             /\ BudgetHolds' /\ caps' \in [Array -> Nat] /\ bytes' \in Nat
             /\ attrs' \in Seq(Attr)
             /\ events' \in Seq({"user", "exception"})
             /\ n_links' \in Nat
             /\ dropped' \in [Array -> Nat]
             /\ target' \in Keys \union {NoKey} /\ keys_set' \subseteq Keys
             /\ asked' \in [{"events", "links"} -> Nat]
<1>0. /\ \A a \in Array : dropped[a] \in Nat
                          /\ [dropped EXCEPT ![a] = @ + 1] \in [Array -> Nat]
      /\ \A a \in {"events", "links"} :
           [asked EXCEPT ![a] = @ + 1] \in [{"events", "links"} -> Nat]
      /\ "attrs" \in Array /\ "events" \in Array /\ "links" \in Array
      /\ attrs \in Seq(Attr) /\ events \in Seq({"user", "exception"})
      /\ n_links \in Nat /\ n_links + 1 \in Nat
      /\ caps \in [Array -> Nat] /\ dropped \in [Array -> Nat]
      /\ asked \in [{"events", "links"} -> Nat]
      /\ target \in Keys \union {NoKey} /\ keys_set \subseteq Keys
  BY SMTT(30) DEF TypeOK, Array
<1>a. \A e \in {"user", "exception"} :
        EventOrDropped(e) => /\ events' \in Seq({"user", "exception"})
                             /\ dropped' \in [Array -> Nat]
  BY <1>0, EventTypes DEF EventOrDropped
<1>1. ASSUME NEW key \in Keys, NEW ksize \in Sizes,
             NEW vsize \in Sizes \union {0}, SetAttr(key, ksize, vsize)
      PROVE  Contents
  <2>1. /\ UNCHANGED <<events, n_links, asked>>
        /\ target' = key /\ keys_set' = keys_set \union {key}
    BY <1>1 DEF SetAttr
  <2>2. dropped' \in [Array -> Nat]
    BY <1>0, <1>1, SetAttrStep DEF KeysKept
  <2> QED
    BY <1>0, <1>1, <2>1, <2>2, SetAttrStep
<1>2. ASSUME NEW nsize \in Sizes, NEW asize \in Sizes \union {0},
             AddEvent(nsize, asize)
      PROVE  Contents
  <2>1. /\ UNCHANGED <<attrs, n_links, target, keys_set>>
        /\ asked' = [asked EXCEPT !["events"] = @ + 1]
    BY <1>2 DEF AddEvent, history
  <2> QED
    BY <1>0, <1>a, <1>2, <2>1, AddEventStep
<1>3. ASSUME api_span_add_link
      PROVE  Contents
  <2>1. /\ UNCHANGED <<attrs, events, target, keys_set>>
        /\ asked' = [asked EXCEPT !["links"] = @ + 1]
    BY <1>3 DEF api_span_add_link, history
  <2>2. n_links' \in Nat /\ dropped' \in [Array -> Nat]
    BY <1>0, <1>3, AddLinkStep
  <2> QED
    BY <1>0, <1>3, <2>1, <2>2, AddLinkStep
<1>4. ASSUME Texts
      PROVE  Contents
  BY <1>0, <1>4, TextStep DEF history
<1>5. ASSUME NEW unwinding \in BOOLEAN, end_slot(unwinding)
      PROVE  Contents
  <2>1. /\ UNCHANGED <<attrs, n_links, target, keys_set>>
        /\ lower_error_event
        /\ asked' = IF err = 0 THEN asked
                    ELSE [asked EXCEPT !["events"] = @ + 1]
    BY <1>5 DEF end_slot, history
  <2> QED
    BY <1>0, <1>a, <2>1, ErrorEventStep
<1>6. ASSUME UNCHANGED vars
      PROVE  Contents
  <2>1. UNCHANGED <<attrs, events, n_links, caps, bytes, dropped, target,
                    keys_set, asked>>
    BY <1>6 DEF vars, history
  <2>2. Charged("attrs")
    BY <2>1, NotCharged
  <2> QED
    BY <1>0, <2>1, <2>2, BudgetFrom
<1>7. Contents
  BY <1>1, <1>2, <1>3, <1>4, <1>5, <1>6 DEF Next, Texts, Ended
<1>8. CASE Next
  BY <1>7, <1>8, StatusTypes DEF TypeOK
<1>9. CASE UNCHANGED vars
  BY <1>7, <1>9 DEF vars, statusVars, TypeOK
<1> QED
  BY <1>8, <1>9, <1>7

-----------------------------------------------------------------------------
(* Nothing is lost silently.                                               *)

LEMMA MissingFinite ==
    ASSUME IsFiniteSet(keys_set)
    PROVE  IsFiniteSet(Missing) /\ Cardinality(Missing) \in Nat
<1>1. Missing \in SUBSET keys_set
  BY DEF Missing
<1> QED
  BY <1>1, FS_Subset, FS_CardinalityType

(* Of the keys asked for, one more is missing at most, and then it is      *)
(* counted.                                                                *)
LEMMA MissingStep ==
    ASSUME TypeOK, IsFiniteSet(keys_set), NEW key \in Keys, KeysKept(key),
           keys_set' = keys_set \union {key},
           Cardinality(Missing) <= dropped["attrs"]
    PROVE  /\ IsFiniteSet(keys_set')
           /\ Cardinality(Missing') <= dropped'["attrs"]
<1>1. /\ IsFiniteSet(Missing) /\ Cardinality(Missing) \in Nat
      /\ dropped["attrs"] \in Nat
      /\ [dropped EXCEPT !["attrs"] = @ + 1]["attrs"] = dropped["attrs"] + 1
  BY MissingFinite DEF TypeOK, Array
<1>2. IsFiniteSet(keys_set')
  BY FS_AddElement
<1>3. Missing' = {k \in keys_set' : IndexOf(k)' = {}} /\ keys_set' \subseteq Keys
  BY DEF Missing, TypeOK
<1>4. CASE /\ dropped' = dropped
           /\ \A k \in Keys : IndexOf(k) # {} \/ k = key => IndexOf(k)' # {}
  <2>1. Missing' \in SUBSET Missing
    BY <1>3, <1>4 DEF Missing
  <2>2. Cardinality(Missing') <= Cardinality(Missing)
        /\ Cardinality(Missing') \in Nat
    BY <1>1, <2>1, FS_Subset, FS_CardinalityType
  <2> QED
    BY <1>1, <1>2, <1>4, <2>2
<1>5. ASSUME dropped' = [dropped EXCEPT !["attrs"] = @ + 1],
             NEW lost \in Keys,
             \A k \in Keys \ {lost} :
               IndexOf(k) # {} \/ k = key => IndexOf(k)' # {}
      PROVE  Cardinality(Missing') <= dropped'["attrs"]
  <2>1. Missing' \in SUBSET (Missing \union {lost})
    BY <1>3, <1>5 DEF Missing
  <2>2. /\ IsFiniteSet(Missing \union {lost})
        /\ Cardinality(Missing \union {lost}) <= Cardinality(Missing) + 1
        /\ Cardinality(Missing \union {lost}) \in Nat
    <3>1. /\ IsFiniteSet(Missing \union {lost})
          /\ Cardinality(Missing \union {lost}) =
               IF lost \in Missing THEN Cardinality(Missing)
               ELSE Cardinality(Missing) + 1
      BY <1>1, FS_AddElement
    <3> QED
      BY <1>1, <3>1
  <2>3. Cardinality(Missing') <= Cardinality(Missing \union {lost})
        /\ Cardinality(Missing') \in Nat
    BY <2>1, <2>2, FS_Subset, FS_CardinalityType
  <2> QED
    BY <1>1, <1>5, <2>2, <2>3
<1> QED
  BY <1>2, <1>4, <1>5 DEF KeysKept

LEMMA LostStep ==
    ASSUME TypeOK, BudgetHolds, IsFiniteSet(keys_set), NothingLostSilently,
           [Next]_vars
    PROVE  IsFiniteSet(keys_set') /\ NothingLostSilently'
<1> DEFINE Counted == /\ Len(events') + dropped'["events"] = asked'["events"]
                      /\ n_links' + dropped'["links"] = asked'["links"]
           Held == /\ IsFiniteSet(keys_set')
                   /\ Cardinality(Missing') <= dropped'["attrs"]
<1>0. /\ Len(events) \in Nat /\ n_links \in Nat
      /\ \A a \in Array : dropped[a] \in Nat
      /\ \A a, b \in Array : [dropped EXCEPT ![a] = @ + 1][b] =
                               IF a = b THEN dropped[b] + 1 ELSE dropped[b]
      /\ \A a, b \in {"events", "links"} :
           [asked EXCEPT ![a] = @ + 1][b] =
                               IF a = b THEN asked[b] + 1 ELSE asked[b]
      /\ asked["events"] \in Nat /\ asked["links"] \in Nat
      /\ "attrs" \in Array /\ "events" \in Array /\ "links" \in Array
  BY DEF TypeOK, Array
<1>i. /\ Len(events) + dropped["events"] = asked["events"]
      /\ n_links + dropped["links"] = asked["links"]
      /\ Cardinality(Missing) <= dropped["attrs"]
  BY DEF NothingLostSilently, Missing
<1>a. ASSUME UNCHANGED <<attrs, keys_set>>, dropped'["attrs"] = dropped["attrs"]
      PROVE  Held
  <2>1. Missing' = Missing
    BY <1>a DEF Missing, IndexOf
  <2> QED
    BY <1>a, <1>i, <2>1
<1>b. ASSUME NEW e \in {"user", "exception"}, EventOrDropped(e),
             asked' = [asked EXCEPT !["events"] = @ + 1], n_links' = n_links
      PROVE  Counted /\ dropped'["attrs"] = dropped["attrs"]
  <2>1. CASE events' = Append(events, e) /\ dropped' = dropped
    <3>1. Len(events') = Len(events) + 1
      BY <2>1, EventTypes
    <3>2. asked'["events"] = asked["events"] + 1
          /\ asked'["links"] = asked["links"]
      BY <1>0, <1>b
    <3>3. /\ dropped'["events"] = dropped["events"]
          /\ dropped'["links"] = dropped["links"]
          /\ dropped'["attrs"] = dropped["attrs"]
          /\ n_links' = n_links
      BY <1>b, <2>1
    <3>4. Len(events) + dropped["events"] = asked["events"]
          /\ n_links + dropped["links"] = asked["links"]
          /\ Len(events) \in Nat /\ n_links \in Nat
          /\ dropped["events"] \in Nat /\ asked["events"] \in Nat
      BY <1>0, <1>i
    <3> QED
      BY <3>1, <3>2, <3>3, <3>4
  <2>2. CASE /\ events' = events
             /\ dropped' = [dropped EXCEPT !["events"] = @ + 1]
    <3>1. /\ dropped'["events"] = dropped["events"] + 1
          /\ dropped'["links"] = dropped["links"]
          /\ dropped'["attrs"] = dropped["attrs"]
      BY <1>0, <2>2
    <3>2. asked'["events"] = asked["events"] + 1
          /\ asked'["links"] = asked["links"]
      BY <1>0, <1>b
    <3> QED
      BY <1>0, <1>i, <1>b, <2>2, <3>1, <3>2
  <2> QED
    BY <1>b, <2>1, <2>2 DEF EventOrDropped
<1>1. ASSUME NEW key \in Keys, NEW ksize \in Sizes,
             NEW vsize \in Sizes \union {0}, SetAttr(key, ksize, vsize)
      PROVE  Counted /\ Held
  <2>1. /\ UNCHANGED <<events, n_links, asked>>
        /\ keys_set' = keys_set \union {key}
        /\ KeysKept(key)
    BY <1>1, SetAttrStep DEF SetAttr
  <2>2. Held
    BY <1>i, <2>1, MissingStep
  <2>3. dropped'["events"] = dropped["events"]
        /\ dropped'["links"] = dropped["links"]
    BY <1>0, <2>1 DEF KeysKept
  <2> QED
    BY <1>i, <2>1, <2>2, <2>3
<1>2. ASSUME NEW nsize \in Sizes, NEW asize \in Sizes \union {0},
             AddEvent(nsize, asize)
      PROVE  Counted /\ Held
  <2>1. /\ UNCHANGED <<attrs, n_links, keys_set>>
        /\ asked' = [asked EXCEPT !["events"] = @ + 1]
        /\ EventOrDropped("user")
    BY <1>2, AddEventStep DEF AddEvent, history
  <2>2. Counted /\ dropped'["attrs"] = dropped["attrs"]
    BY <1>b, <2>1
  <2> QED
    BY <1>a, <2>1, <2>2
<1>3. ASSUME api_span_add_link
      PROVE  Counted /\ Held
  <2>1. /\ UNCHANGED <<attrs, events, keys_set>>
        /\ asked' = [asked EXCEPT !["links"] = @ + 1]
    BY <1>3 DEF api_span_add_link, history
  <2>2. \/ n_links' = n_links + 1 /\ dropped' = dropped
        \/ n_links' = n_links /\ dropped' = [dropped EXCEPT !["links"] = @ + 1]
    BY <1>3, AddLinkStep
  <2>3. Counted /\ dropped'["attrs"] = dropped["attrs"]
    <3>1. asked'["events"] = asked["events"]
          /\ asked'["links"] = asked["links"] + 1
      BY <1>0, <2>1
    <3>2. CASE n_links' = n_links + 1 /\ dropped' = dropped
      BY <1>0, <1>i, <2>1, <3>1, <3>2
    <3>3. CASE /\ n_links' = n_links
               /\ dropped' = [dropped EXCEPT !["links"] = @ + 1]
      <4>1. /\ dropped'["links"] = dropped["links"] + 1
            /\ dropped'["events"] = dropped["events"]
            /\ dropped'["attrs"] = dropped["attrs"]
        BY <1>0, <3>3
      <4> QED
        BY <1>0, <1>i, <2>1, <3>1, <3>3, <4>1
    <3> QED
      BY <2>2, <3>2, <3>3
  <2> QED
    BY <1>a, <2>1, <2>3
<1>4. ASSUME Texts \/ UNCHANGED vars
      PROVE  Counted /\ Held
  <2>1. UNCHANGED <<attrs, events, n_links, dropped, keys_set, asked>>
    BY <1>4, TextStep DEF vars, history
  <2>2. Held
    BY <1>a, <2>1
  <2> QED
    BY <1>i, <2>1, <2>2
<1>5. ASSUME NEW unwinding \in BOOLEAN, end_slot(unwinding)
      PROVE  Counted /\ Held
  <2>1. /\ UNCHANGED <<attrs, n_links, keys_set>>
        /\ lower_error_event
        /\ asked' = IF err = 0 THEN asked
                    ELSE [asked EXCEPT !["events"] = @ + 1]
    BY <1>5 DEF end_slot, history
  <2>2. IF err # 0 THEN EventOrDropped("exception")
        ELSE events' = events /\ dropped' = dropped
    BY <2>1, ErrorEventStep
  <2>3. Counted /\ dropped'["attrs"] = dropped["attrs"]
    <3>1. CASE err # 0
      BY <1>b, <2>1, <2>2, <3>1
    <3>2. CASE err = 0
      BY <1>i, <2>1, <2>2, <3>2
    <3> QED
      BY <3>1, <3>2
  <2> QED
    BY <1>a, <2>1, <2>3
<1>6. Counted /\ Held
  BY <1>1, <1>2, <1>3, <1>4, <1>5 DEF Next, Texts, Ended
<1> QED
  BY <1>6 DEF NothingLostSilently, Missing

-----------------------------------------------------------------------------
(* Errors.                                                                 *)

LEMMA WorstStep ==
    ASSUME TypeOK, BudgetHolds, WorstErrorIsReported, [Next]_vars
    PROVE  WorstErrorIsReported'
<1>0. /\ err = worst /\ err \in {0, WARNING, ERROR}
      /\ \A a \in Array : dropped[a] \in Nat
      /\ dropped \in [Array -> Nat] /\ "events" \in Array
      /\ ERROR \in Nat /\ WARNING \in Nat
  BY DEF WorstErrorIsReported, TypeOK, Array, ERROR, WARNING
<1>1. ASSUME ended' = ended, ~ended, err' = worst'
      PROVE  WorstErrorIsReported'
  BY <1>1 DEF WorstErrorIsReported
<1>2. ASSUME NEW elevel \in {WARNING, ERROR}, NEW copied \in Sizes \union {0},
             slot_record_error(elevel, copied)
      PROVE  ended' = ended /\ ~ended /\ err' = worst'
  <2>1. CASE LessSevere(elevel)
    BY <1>0, <1>2, <2>1 DEF slot_record_error, LessSevere, MaxOf, Call
  <2>2. CASE ~LessSevere(elevel)
    BY <1>0, <1>2, <2>2 DEF slot_record_error, LessSevere, MaxOf, Call
  <2> QED
    BY <2>1, <2>2
<1>3. ASSUME \/ \E key \in Keys, ksize \in Sizes, vsize \in Sizes \union {0} :
                  SetAttr(key, ksize, vsize)
             \/ \E nsize \in Sizes, asize \in Sizes \union {0} :
                  AddEvent(nsize, asize)
             \/ api_span_add_link
             \/ otel_emit_log_hook
             \/ \E code \in {"unset", "ok", "error"}, dsize \in Sizes :
                  api_span_set_status(code, dsize)
             \/ \E nsize \in Sizes : api_span_set_name(nsize)
      PROVE  ended' = ended /\ ~ended /\ err' = worst'
  BY <1>0, <1>3
     DEF SetAttr, AddEvent, api_span_add_link, otel_emit_log_hook,
         api_span_set_status, api_span_set_name, Call
<1>4. ASSUME NEW unwinding \in BOOLEAN, end_slot(unwinding)
      PROVE  WorstErrorIsReported'
  <2>1. UNCHANGED <<attrs, n_links, err, worst>> /\ lower_error_event
    BY <1>4 DEF end_slot
  <2>2. CASE err = 0
    BY <1>0, <2>1, <2>2 DEF WorstErrorIsReported
  <2>3. CASE err # 0
    <3>1. EventOrDropped("exception")
      BY <2>1, <2>3, ErrorEventStep
    <3>2. CASE events' = Append(events, "exception")
      <4>1. /\ events' # <<>> /\ Len(events') = Len(events) + 1
            /\ events'[Len(events) + 1] = "exception"
        BY <3>2, EventTypes
      <4> QED
        BY <1>0, <2>1, <4>1 DEF WorstErrorIsReported
    <3>3. CASE dropped' = [dropped EXCEPT !["events"] = @ + 1]
      <4>1. dropped'["events"] # 0
        BY <1>0, <3>3
      <4> QED
        BY <1>0, <2>1, <4>1 DEF WorstErrorIsReported
    <3> QED
      BY <3>1, <3>2, <3>3 DEF EventOrDropped
  <2> QED
    BY <2>2, <2>3
<1>5. CASE UNCHANGED vars
  BY <1>5 DEF vars, WorstErrorIsReported
<1> QED
  BY <1>1, <1>2, <1>3, <1>4, <1>5 DEF Next, Ended

LEMMA BlameStep ==
    ASSUME TypeOK, Blame, [Next]_vars
    PROVE  Blame'
<1>0. err \in {0, WARNING, ERROR} /\ WARNING # ERROR /\ ERROR # 0
      /\ ERROR \in Nat /\ WARNING \in Nat
  BY DEF TypeOK, WARNING, ERROR
<1>1. ASSUME NEW elevel \in {WARNING, ERROR}, NEW copied \in Sizes \union {0},
             slot_record_error(elevel, copied)
      PROVE  Blame'
  <2>1. UNCHANGED <<description, no_memory, ended>> /\ ~ended
    BY <1>1 DEF slot_record_error, Call
  <2>2. CASE LessSevere(elevel)
    BY <1>1, <2>1, <2>2 DEF slot_record_error, Blame
  <2>3. CASE ~LessSevere(elevel)
    <3>1. /\ err' = elevel
          /\ status' = IF elevel >= ERROR THEN "error" ELSE status
          /\ blamed' = (blamed \/ elevel >= ERROR)
      BY <1>1, <2>3 DEF slot_record_error
    <3>2. err = ERROR => elevel = ERROR
      BY <1>0, <2>3 DEF LessSevere, ERROR, WARNING
    <3>3. elevel >= ERROR <=> elevel = ERROR
      BY DEF ERROR, WARNING
    <3> QED
      BY <2>1, <3>1, <3>2, <3>3 DEF Blame
  <2> QED
    BY <2>2, <2>3
<1>2. CASE otel_emit_log_hook
  <2>1. ~ended /\ ended' = ended /\ status' = "error" /\ err' = err
        /\ Described("error")
    BY <1>2 DEF otel_emit_log_hook, MarkedFailed, Call
  <2> QED
    BY <2>1 DEF Described, Blame
<1>3. ASSUME NEW code \in {"unset", "ok", "error"}, NEW dsize \in Sizes,
             api_span_set_status(code, dsize)
      PROVE  Blame'
  BY <1>3 DEF api_span_set_status, Call, Blame
<1>4. ASSUME \/ \E key \in Keys, ksize \in Sizes, vsize \in Sizes \union {0} :
                  SetAttr(key, ksize, vsize)
             \/ \E nsize \in Sizes, asize \in Sizes \union {0} :
                  AddEvent(nsize, asize)
             \/ api_span_add_link
             \/ \E nsize \in Sizes : api_span_set_name(nsize)
      PROVE  Blame'
  <2>1. UNCHANGED <<err, statusVars, ended>>
    BY <1>4 DEF SetAttr, AddEvent, api_span_add_link, api_span_set_name
  <2> QED
    BY <2>1 DEF statusVars, Blame
<1>5. ASSUME NEW unwinding \in BOOLEAN, end_slot(unwinding)
      PROVE  Blame'
  <2>1. /\ ~ended /\ ended' = TRUE /\ blamed' = blamed /\ err' = err
        /\ status' = IF unwinding THEN "error" ELSE status
        /\ IF unwinding /\ err = 0 /\ description = "none"
           THEN description' = "unwound" /\ UNCHANGED no_memory
           ELSE ErrorDescription
    BY <1>5 DEF end_slot
  <2> SUFFICES ASSUME blamed
               PROVE  /\ status' = "error"
                      /\ no_memory' \/ description' \in {"user", "error"}
    BY <2>1 DEF Blame
  <2>2. /\ status' = "error"
        /\ description \in {"none", "user", "error"}
        /\ no_memory \/ description \in {"user", "error"} \/ err = ERROR
    BY <2>1 DEF Blame
  <2>3. CASE unwinding /\ err = 0 /\ description = "none"
    BY <1>0, <2>1, <2>2, <2>3
  <2>4. CASE ~(unwinding /\ err = 0 /\ description = "none")
    BY <1>0, <2>1, <2>2, <2>4 DEF ErrorDescription, Described
  <2> QED
    BY <2>3, <2>4
<1>6. CASE UNCHANGED vars
  BY <1>6 DEF vars, statusVars, Blame
<1> QED
  BY <1>1, <1>2, <1>3, <1>4, <1>5, <1>6 DEF Next, Ended

-----------------------------------------------------------------------------
(* The invariant and what follows from it.                                 *)

LEMMA InitDataInv == Init => DataInv
<1> SUFFICES ASSUME Init PROVE DataInv
  OBVIOUS
<1>1. /\ INLINE_ATTRS \in Nat /\ MAX_SPAN_BYTES \in Nat /\ ELEM_SIZE \in Nat
      /\ bytes \in Nat /\ bytes <= MAX_SPAN_BYTES
      /\ MAX_CALLS \in Nat
  BY DataAssumption DEF Init, Fits
<1>2. /\ caps \in [Array -> Nat]
      /\ caps["attrs"] = INLINE_ATTRS /\ caps["events"] = 0
      /\ caps["links"] = 0
      /\ dropped \in [Array -> Nat] /\ \A a \in Array : dropped[a] = 0
      /\ asked \in [{"events", "links"} -> Nat]
      /\ asked["events"] = 0 /\ asked["links"] = 0
  BY <1>1 DEF Init, Array
<1>3. /\ attrs \in Seq(Attr) /\ events \in Seq({"user", "exception"})
      /\ Len(attrs) = 0 /\ Len(events) = 0 /\ n_links = 0
  BY DEF Init
<1>4. TypeOK
  <2>1. /\ calls \in 0..MAX_CALLS /\ bytes \in Nat /\ n_links \in Nat
        /\ keys_set \subseteq Keys /\ target \in Keys \union {NoKey}
    BY <1>1, <1>3 DEF Init
  <2>3. ended \in BOOLEAN /\ blamed \in BOOLEAN /\ no_memory \in BOOLEAN
    BY DEF Init
  <2>2. /\ status \in {"unset", "ok", "error"} /\ description \in Description
        /\ err \in {0, WARNING, ERROR} /\ worst \in {0, WARNING, ERROR}
    BY DEF Init, Description
  <2> QED
    BY <1>2, <1>3, <2>1, <2>2, <2>3 DEF TypeOK
<1>5. keys_set = {} /\ Missing = {}
  BY DEF Init, Missing
<1>6. IsFiniteSet(keys_set) /\ Cardinality(Missing) = 0
  BY <1>5, FS_EmptySet
<1>7. BudgetHolds
  <2>1. caps["attrs"] + caps["events"] + caps["links"] - INLINE_ATTRS = 0
    BY <1>1, <1>2
  <2>2. 0 * ELEM_SIZE = 0
    BY <1>1
  <2> QED
    BY <1>1, <1>2, <1>3, <2>1, <2>2 DEF BudgetHolds
<1>8. NothingLostSilently
  BY <1>2, <1>3, <1>6 DEF NothingLostSilently, Missing, Array
<1>9. WorstErrorIsReported /\ Blame
  BY DEF Init, WorstErrorIsReported, Blame
<1> QED
  BY <1>4, <1>6, <1>7, <1>8, <1>9 DEF DataInv

(* DataInv is an invariant.                                                *)
THEOREM DataInvariant == Spec => []DataInv
<1>1. Init => DataInv
  BY InitDataInv
<1>2. DataInv /\ [Next]_vars => DataInv'
  BY TypeStep, LostStep, WorstStep, BlameStep DEF DataInv
<1> QED
  BY <1>1, <1>2, PTL DEF Spec

(* However setters, failed copies and array growth mix, no span is charged *)
(* more than otel_api.max_span_bytes and no growth goes uncharged.         *)
THEOREM BudgetIsNeverExceeded == Spec => []BudgetHolds
<1>1. DataInv => BudgetHolds
  BY DEF DataInv
<1> QED
  BY <1>1, DataInvariant, PTL

(* Every event, link and attribute asked for is on the span or counted as  *)
(* dropped.                                                                *)
THEOREM DroppedIsCounted == Spec => []NothingLostSilently
<1>1. DataInv => NothingLostSilently
  BY DEF DataInv
<1> QED
  BY <1>1, DataInvariant, PTL

(* The exception event a span ends with is of the most severe error        *)
(* recorded in it.                                                         *)
THEOREM WorstErrorWins == Spec => []WorstErrorIsReported
<1>1. DataInv => WorstErrorIsReported
  BY DEF DataInv
<1> QED
  BY <1>1, DataInvariant, PTL

(* A span that failed ends with ERROR status and a description of the      *)
(* error, never of an earlier warning.                                     *)
THEOREM FailuresAreDescribed == Spec => []FailedSpansSayWhy
<1>1. DataInv => FailedSpansSayWhy
  BY DEF DataInv, Blame, FailedSpansSayWhy
<1> QED
  BY <1>1, DataInvariant, PTL
=============================================================================

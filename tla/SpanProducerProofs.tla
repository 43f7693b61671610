------------------------- MODULE SpanProducerProofs -------------------------
(***************************************************************************)
(* Proofs about the span producer, for any size of the pools, the stack    *)
(* and the budgets.  IInv is an invariant (Inductive); from it follow type *)
(* correctness, the exactness of both free lists, the soundness of the     *)
(* active stack, the export of every span at most once, and that the       *)
(* producer implements SpanContract (Refinement).  On top of it are the    *)
(* resource owners (OwnInv), the counters (Balance) and what an unwind     *)
(* leaves open.  Each conjunct of an invariant has its own lemma on a      *)
(* step, and these rest on what the operations do to the pools and to the  *)
(* stack.                                                                  *)
(***************************************************************************)
EXTENDS SpanProducer, FiniteSetTheorems, TLAPS

(* A function on 1..n is a sequence of length n.                           *)
LEMMA FunctionIsSeq ==
    ASSUME NEW S, NEW n \in Nat, NEW f \in [1..n -> S]
    PROVE  f \in Seq(S) /\ Len(f) = n
  OBVIOUS

(* Taking the top off a stack shortens it by one and keeps the rest.       *)
LEMMA PopSeq ==
    ASSUME NEW S, NEW s \in Seq(S), s # <<>>
    PROVE  /\ Pop(s) \in Seq(S)
           /\ Len(Pop(s)) = Len(s) - 1
           /\ \A k \in 1..(Len(s) - 1) : Pop(s)[k] = s[k]
           /\ Len(s) \in Nat \ {0}
           /\ \A k \in 1..Len(s) : s[k] \in S
<1>1. Len(s) \in Nat /\ Len(s) > 0
  OBVIOUS
<1>2. \A k \in 1..Len(s) : s[k] \in S
  OBVIOUS
<1>3. Pop(s) \in [1..(Len(s) - 1) -> S]
  BY <1>1, <1>2 DEF Pop
<1>4. Pop(s) \in Seq(S) /\ Len(Pop(s)) = Len(s) - 1
  BY <1>1, <1>3, FunctionIsSeq
<1> QED
  BY <1>1, <1>2, <1>3, <1>4 DEF Pop

(* stack_remove_at closes the gap: the entries below stay, those above     *)
(* move down by one.                                                       *)
LEMMA RemoveSeq ==
    ASSUME NEW S, span_stack \in Seq(S), NEW pos \in 1..Len(span_stack)
    PROVE  /\ stack_remove_at(pos) \in Seq(S)
           /\ Len(stack_remove_at(pos)) = Len(span_stack) - 1
           /\ \A k \in 1..(Len(span_stack) - 1) :
                stack_remove_at(pos)[k] =
                    IF k < pos THEN span_stack[k] ELSE span_stack[k + 1]
<1>1. Len(span_stack) \in Nat /\ Len(span_stack) > 0
  OBVIOUS
<1>2. \A k \in 1..Len(span_stack) : span_stack[k] \in S
  OBVIOUS
<1>3. stack_remove_at(pos) \in [1..(Len(span_stack) - 1) -> S]
  BY <1>1, <1>2 DEF stack_remove_at
<1>4. /\ stack_remove_at(pos) \in Seq(S)
      /\ Len(stack_remove_at(pos)) = Len(span_stack) - 1
  BY <1>1, <1>3, FunctionIsSeq
<1> QED
  BY <1>1, <1>3, <1>4 DEF stack_remove_at

(* A push lengthens the stack by one and keeps what was there.             *)
LEMMA PushSeq ==
    ASSUME NEW S, NEW s \in Seq(S), NEW e \in S
    PROVE  /\ Append(s, e) \in Seq(S)
           /\ Len(Append(s, e)) = Len(s) + 1
           /\ \A k \in 1..Len(s) : Append(s, e)[k] = s[k]
           /\ Append(s, e)[Len(s) + 1] = e
  OBVIOUS


(***************************************************************************)
(* Facts about single operators under the type invariant.                  *)
(***************************************************************************)

(* The slot take_slot hands out is a slot of the pool and is free.         *)
LEMMA FreeSlotFree ==
    ASSUME TypeOK, SlotFreeListExact, NeverUsedIsFree, HaveFreeSlot
    PROVE  FreeSlot \in SlotIdx /\ slots[FreeSlot].gen = 0
<1> USE ConstantsAssumption
<1>1. CASE slot_free # <<>>
  <2>1. Len(slot_free) \in Nat /\ Len(slot_free) > 0
    BY <1>1 DEF TypeOK
  <2>2. slot_free[Len(slot_free)] \in SlotIdx
    BY <2>1 DEF TypeOK
  <2> QED
    BY <1>1, <2>1, <2>2 DEF FreeSlot, SlotFreeListExact
<1>2. CASE slot_free = <<>>
  BY <1>2 DEF FreeSlot, HaveFreeSlot, TypeOK, NeverUsedIsFree, SlotIdx
<1> QED
  BY <1>1, <1>2

(* The same for start_nrec.                                                *)
LEMMA FirstNrecFree ==
    ASSUME TypeOK, NrecFreeListExact, NeverUsedIsFree,
           nrec_free # <<>> \/ nrecs_used < MAX_STACK_DEPTH
    PROVE  FirstNrec \in NrecIdx /\ nrecs[FirstNrec].gen = 0
<1> USE ConstantsAssumption
<1>1. CASE nrec_free # <<>>
  <2>1. Len(nrec_free) \in Nat /\ Len(nrec_free) > 0
    BY <1>1 DEF TypeOK
  <2>2. nrec_free[Len(nrec_free)] \in NrecIdx
    BY <2>1 DEF TypeOK
  <2> QED
    BY <1>1, <2>1, <2>2 DEF FirstNrec, NrecFreeListExact
<1>2. CASE nrec_free = <<>>
  BY <1>2 DEF FirstNrec, TypeOK, NeverUsedIsFree, NrecIdx
<1> QED
  BY <1>1, <1>2

(* next_gen never gives out 0, wrapped or not.                             *)
LEMMA NextGenType ==
    ASSUME TypeOK
    PROVE  next_gen \in Gen
  BY ConstantsAssumption DEF TypeOK, next_gen, Gen

(* stack_find returns 0 exactly for a span with no entry, and otherwise    *)
(* the position of its only entry.                                         *)
LEMMA StackFind ==
    ASSUME TypeOK, StackNamesOpenSpans, NEW rec, NEW idx
    PROVE  /\ stack_find(rec, idx) \in 0..Len(span_stack)
           /\ stack_find(rec, idx) # 0 =>
                /\ span_stack[stack_find(rec, idx)].rec = rec
                /\ span_stack[stack_find(rec, idx)].idx = idx
           /\ stack_find(rec, idx) = 0 =>
                \A k \in 1..Len(span_stack) :
                    ~(span_stack[k].rec = rec /\ span_stack[k].idx = idx)
           /\ Positions(rec, idx) = {} <=> stack_find(rec, idx) = 0
<1>0. Len(span_stack) \in Nat
  BY DEF TypeOK
<1>1. CASE Positions(rec, idx) = {}
  BY <1>0, <1>1 DEF stack_find, Positions
<1>2. CASE Positions(rec, idx) # {}
  <2>1. PICK p \in 1..Len(span_stack) : p \in Positions(rec, idx)
    BY <1>2 DEF Positions
  <2>2. \A j \in Positions(rec, idx) : j = p
    BY <2>1 DEF Positions, StackNamesOpenSpans
  <2>3. Topmost(p, Positions(rec, idx))
    BY <2>1, <2>2, <1>0 DEF Topmost
  <2>4. \A k \in 1..Len(span_stack) : Topmost(k, Positions(rec, idx)) => k = p
    BY <2>2 DEF Topmost
  <2>5. stack_find(rec, idx) = p
    BY <1>2, <2>3, <2>4 DEF stack_find
  <2> QED
    BY <2>1, <2>5, <1>0, <1>2 DEF Positions
<1> QED
  BY <1>1, <1>2

(***************************************************************************)
(* Type correctness.                                                       *)
(***************************************************************************)

(* release_slot keeps the pool well typed.                                 *)
LEMMA ReleaseType ==
    ASSUME TypeOK, NEW i \in SlotIdx, NEW b \in BOOLEAN, release_slot(i, b)
    PROVE  /\ slots' \in [SlotIdx -> Slot]
           /\ slot_free' \in Seq(SlotIdx)
           /\ session_spans_open' \in Int
           /\ slots_used' \in 0..MAX_OPEN_SPANS
<1>1. slots[i] \in Slot
  BY DEF TypeOK
<1>2. Freed(slots[i], b) \in Slot
  BY <1>1, ConstantsAssumption DEF Freed, Slot, NoOwner, PORTAL
<1>3. slots' \in [SlotIdx -> Slot]
  BY <1>2 DEF release_slot, TypeOK
<1>4. slot_free' \in Seq(SlotIdx)
  BY DEF release_slot, TypeOK
<1> QED
  BY <1>3, <1>4 DEF release_slot, TypeOK

(* free_nrec keeps the non-recording entries well typed.                   *)
LEMMA FreeNrecType ==
    ASSUME TypeOK, NEW i \in NrecIdx, NEW b \in BOOLEAN, free_nrec(i, b)
    PROVE  /\ nrecs' \in [NrecIdx -> Nrec]
           /\ nrec_free' \in Seq(NrecIdx)
           /\ nrecs_used' \in 0..MAX_STACK_DEPTH
<1>1. nrecs[i] \in Nrec
  BY DEF TypeOK
<1>2. DEFINE rel == IF b THEN nrecs[i].gen ELSE nrecs[i].owner_released_gen
<1>3. rel \in 0..GEN_MASK
  BY <1>1 DEF Nrec
<1>4. nrecs' = [nrecs EXCEPT ![i].gen = 0, ![i].owner_released_gen = rel]
  BY <1>1 DEF free_nrec, TypeOK
<1>5. nrecs' \in [NrecIdx -> Nrec]
  <2> HIDE DEF rel
  <2>1. 0 \in 0..GEN_MASK
    BY ConstantsAssumption
  <2>2. nrecs \in [NrecIdx -> Nrec]
    BY DEF TypeOK
  <2> QED
    BY <1>3, <1>4, <2>1, <2>2 DEF Nrec
<1>6. nrec_free' \in Seq(NrecIdx)
  BY DEF free_nrec, TypeOK
<1> QED
  BY <1>5, <1>6 DEF free_nrec, TypeOK

(* The values that stand for no call in progress are well typed.           *)
LEMMA NoCallType ==
    NoTarget \in Target /\ NoHook \in Hook /\ NoEnding \in Ending
  BY ConstantsAssumption
     DEF NoTarget, Target, NoHook, Hook, NoEnding, Ending, Level

(* Resume keeps the call's locals well typed.                              *)
LEMMA ResumeType ==
    ASSUME TypeOK, NEW cont \in {"idle", "unwind", "release"}, Resume(cont)
    PROVE  pc' \in Stages /\ target' \in Target
  BY NoCallType DEF Resume, TypeOK, Stages

(* Both outcomes of dispatch_span, for an open slot.                       *)
LEMMA DispatchType ==
    ASSUME TypeOK, NEW i \in OpenSlots, NEW b \in BOOLEAN,
           NEW cont \in {"idle", "unwind", "release"},
           dispatch_span(i, cont, b)
    PROVE  /\ slots' \in [SlotIdx -> Slot]
           /\ slot_free' \in Seq(SlotIdx)
           /\ session_spans_open' \in Int
           /\ slots_used' \in 0..MAX_OPEN_SPANS
           /\ pc' \in Stages
           /\ target' \in Target
           /\ hook' \in Hook
           /\ dispatch_depth' \in Int
           /\ issued' \subseteq Gen
           /\ emits' \in [Gen -> Nat]
           /\ owner_ended' \subseteq (BOOLEAN \X Nat \X Gen)
           /\ tally' \in [TallyField -> Nat]
<1>1. i \in SlotIdx /\ slots[i] \in Slot /\ slots[i].gen \in Gen
  BY ConstantsAssumption DEF OpenSlots, TypeOK, Slot, Gen
<1>2. CASE /\ slots' = [slots EXCEPT ![i].owner = NoOwner,
                                     ![i].dispatching = TRUE]
           /\ dispatch_depth' = dispatch_depth + 1
           /\ emits' = [emits EXCEPT ![slots[i].gen] = @ + 1]
           /\ pc' = "hook"
           /\ hook' = [slot |-> i, ret |-> cont]
           /\ UNCHANGED <<slots_used, slot_free, session_spans_open, target,
                          issued, owner_ended, tally>>
  <2>1. 0 \in 0..PORTAL
    BY ConstantsAssumption DEF PORTAL
  <2>2. slots' \in [SlotIdx -> Slot]
    BY <1>1, <1>2, <2>1 DEF TypeOK, Slot, NoOwner
  <2>3. hook' \in Hook
    BY <1>1, <1>2 DEF Hook
  <2>4. emits' \in [Gen -> Nat]
    BY <1>1, <1>2 DEF TypeOK
  <2> QED
    BY <1>2, <2>2, <2>3, <2>4 DEF TypeOK, Stages
<1>3. CASE /\ release_slot(i, b)
           /\ Resume(cont)
           /\ Count("unseen")
           /\ owner_ended' = IF b
                THEN owner_ended \union {<<TRUE, i, slots[i].gen>>}
                ELSE owner_ended
           /\ UNCHANGED <<hook, dispatch_depth, issued, emits>>
  <2>1. tally' \in [TallyField -> Nat]
    BY <1>3 DEF TypeOK, Count, TallyField
  <2>2. pc' \in Stages /\ target' \in Target
    BY <1>3, ResumeType
  <2>3. <<TRUE, i, slots[i].gen>> \in BOOLEAN \X Nat \X Gen
    <3>1. i \in Nat
      BY <1>1, ConstantsAssumption DEF SlotIdx
    <3> QED
      BY <1>1, <3>1
  <2>4. owner_ended' \subseteq (BOOLEAN \X Nat \X Gen)
    BY <1>3, <2>3 DEF TypeOK
  <2> QED
    BY <1>1, <1>3, <2>1, <2>2, <2>4, ReleaseType DEF TypeOK
<1> QED
  BY <1>2, <1>3 DEF dispatch_span

(* ResourceOwnerForget keeps the owners well typed.                        *)
LEMMA ForgetType ==
    ASSUME TypeOK, NEW i, ResourceOwnerForget(i)
    PROVE  owned' \in [Owner -> SUBSET (SlotIdx \X Gen)]
<1>1. ASSUME NEW o \in Owner, NEW h
      PROVE  owned[o] \ {h} \in SUBSET (SlotIdx \X Gen)
  BY DEF TypeOK
<1> QED
  BY <1>1 DEF ResourceOwnerForget, TypeOK

(* Counting keeps the counters natural numbers.                            *)
LEMMA Bump ==
    ASSUME NEW t \in [TallyField -> Nat], NEW f
    PROVE  [t EXCEPT ![f] = @ + 1] \in [TallyField -> Nat]
<1>1. \A n \in Nat : n + 1 \in Nat
  OBVIOUS
<1>2. [t EXCEPT ![f] = @ + 1] = [t EXCEPT ![f] = t[f] + 1]
  OBVIOUS
<1>3. ASSUME NEW g \in TallyField
      PROVE  [t EXCEPT ![f] = t[f] + 1][g] \in Nat
  BY <1>1
<1> QED
  BY <1>2, <1>3

(* Counting an event keeps the counters natural numbers.                   *)
LEMMA CountType ==
    ASSUME TypeOK, NEW f, Count(f)
    PROVE  tally' \in [TallyField -> Nat]
  BY Bump DEF Count, TypeOK

(* One more generation is handed out.                                      *)
LEMMA TakeGenType ==
    ASSUME TypeOK, take_gen
    PROVE  /\ gen_counter' \in 0..GEN_MASK
           /\ issued' \subseteq Gen
           /\ next_gen \in Gen
<1>1. next_gen \in Gen
  BY NextGenType
<1>2. issued' \subseteq Gen
  BY <1>1 DEF take_gen, TypeOK
<1>3. gen_counter' \in 0..GEN_MASK
  BY <1>1, ConstantsAssumption DEF take_gen, Gen
<1> QED
  BY <1>1, <1>2, <1>3

(* Pushing a well-typed entry.                                             *)
LEMMA PushType ==
    ASSUME TypeOK, NEW rec \in BOOLEAN, NEW idx \in Nat, NEW act \in BOOLEAN,
           NEW lev \in Level, stack_push(rec, idx, act, lev)
    PROVE  span_stack' \in Seq(Entry)
<1>1. [rec |-> rec, idx |-> idx, is_activation |-> act, nest_level |-> lev]
        \in Entry
  BY Zenon DEF Entry
<1> QED
  BY <1>1, PushSeq DEF stack_push, TypeOK

(* Popping, removing one entry, or removing a span's entry if it has one.  *)
LEMMA ShrinkType ==
    ASSUME TypeOK, StackNamesOpenSpans
    PROVE  /\ span_stack # <<>> => Pop(span_stack) \in Seq(Entry)
           /\ \A k \in 1..Len(span_stack) : stack_remove_at(k) \in Seq(Entry)
           /\ \A rec, idx : stack_without(rec, idx) \in Seq(Entry)
<1>1. span_stack \in Seq(Entry) /\ Len(span_stack) \in Nat
  BY DEF TypeOK
<1>2. span_stack # <<>> => Pop(span_stack) \in Seq(Entry)
  BY <1>1, PopSeq
<1>3. \A k \in 1..Len(span_stack) : stack_remove_at(k) \in Seq(Entry)
  BY <1>1, RemoveSeq
<1>4. ASSUME NEW rec, NEW idx
      PROVE  stack_without(rec, idx) \in Seq(Entry)
  <2>1. CASE Positions(rec, idx) = {}
    BY <2>1, <1>1 DEF stack_without
  <2>2. CASE Positions(rec, idx) # {}
    <3>1. stack_find(rec, idx) \in 1..Len(span_stack)
      BY <1>1, <2>2, StackFind
    <3> QED
      BY <2>2, <3>1, <1>3 DEF stack_without
  <2> QED
    BY <2>1, <2>2
<1> QED
  BY <1>2, <1>3, <1>4

(* All three outcomes of end_slot, for an open slot.                       *)
LEMMA EndSlotType ==
    ASSUME TypeOK, NEW i \in OpenSlots, NEW cont \in {"idle", "unwind"},
           end_slot(i, cont)
    PROVE  /\ slots' \in [SlotIdx -> Slot]
           /\ slot_free' \in Seq(SlotIdx)
           /\ session_spans_open' \in Int
           /\ slots_used' \in 0..MAX_OPEN_SPANS
           /\ owned' \in [Owner -> SUBSET (SlotIdx \X Gen)]
           /\ pc' \in Stages
           /\ target' \in Target
           /\ hook' \in Hook
           /\ dispatch_depth' \in Int
           /\ issued' \subseteq Gen
           /\ emits' \in [Gen -> Nat]
           /\ owner_ended' \subseteq (BOOLEAN \X Nat \X Gen)
           /\ tally' \in [TallyField -> Nat]
<1>1. CASE ResourceOwnerForget(i) /\ dispatch_span(i, cont, FALSE)
  BY <1>1, ForgetType, DispatchType
<1>2. CASE /\ Resume("idle")
           /\ UNCHANGED <<poolVars, owned, hook, dispatch_depth, histVars>>
  BY <1>2, ResumeType DEF TypeOK, poolVars, histVars
<1> QED
  BY <1>1, <1>2 DEF end_slot

(* Every step keeps the types.                                             *)
LEMMA TypeStep ==
    ASSUME IInv, [Next]_vars
    PROVE  TypeOK'
<1> USE DEF IInv
<1>0. /\ Len(span_stack) \in Nat
      /\ \A k \in 1..Len(span_stack) : span_stack[k] \in Entry
  BY DEF TypeOK
<1>1. ASSUME NEW d \in BOOLEAN, NEW ss \in BOOLEAN, start_nrec(d, ss)
      PROVE  TypeOK'
  <2>1. FirstNrec \in NrecIdx
    BY <1>1, FirstNrecFree DEF start_nrec
  <2>2. next_gen \in Gen /\ gen_counter' \in 0..GEN_MASK /\ issued' \subseteq Gen
    BY <1>1, TakeGenType DEF start_nrec
  <2>3. nrecs[FirstNrec] \in Nrec /\ FirstNrec \in Nat
    BY <2>1, ConstantsAssumption DEF TypeOK, NrecIdx
  <2>4. DEFINE lv == IF ss THEN 0 ELSE level
  <2>5. lv \in Level
    BY ConstantsAssumption DEF TypeOK, Level
  <2>6. [gen |-> next_gen,
         owner_released_gen |-> nrecs[FirstNrec].owner_released_gen,
         nest_level |-> lv, detached |-> d] \in Nrec
    <3> HIDE DEF lv
    <3>1. next_gen \in 0..GEN_MASK
      BY <2>2 DEF Gen
    <3> QED
      BY <2>3, <2>5, <3>1 DEF Nrec
  <2>7. nrecs' \in [NrecIdx -> Nrec]
    BY <1>1, <2>6 DEF start_nrec, TypeOK
  <2>8. nrec_free' \in Seq(NrecIdx) /\ nrecs_used' \in 0..MAX_STACK_DEPTH
    BY <1>1, PopSeq, ConstantsAssumption DEF start_nrec, TypeOK
  <2>9. span_stack' \in Seq(Entry)
    <3>1. 0 \in Level
      BY ConstantsAssumption DEF Level
    <3> QED
      BY <1>1, <2>3, <3>1, PushType DEF start_nrec, TypeOK
  <2> QED
    BY <1>1, <2>2, <2>7, <2>8, <2>9
       DEF start_nrec, TypeOK, poolVars, coreVars, callVars
<1>2. ASSUME NEW d \in BOOLEAN, NEW o \in LiveOwners \union {NoOwner},
             api_span_start(d, o)
      PROVE  TypeOK'
  <2>1. FreeSlot \in SlotIdx /\ slots[FreeSlot] \in Slot /\ FreeSlot \in Nat
    <3>1. HaveFreeSlot
      BY <1>2 DEF api_span_start, take_slot
    <3> QED
      BY <3>1, FreeSlotFree, ConstantsAssumption DEF TypeOK, SlotIdx
  <2>2. next_gen \in Gen /\ gen_counter' \in 0..GEN_MASK /\ issued' \subseteq Gen
    BY <1>2, TakeGenType DEF api_span_start
  <2>3. o \in 0..PORTAL /\ (o # NoOwner => o \in Owner)
    BY ConstantsAssumption
       DEF LiveOwners, NoOwner, PORTAL, Owner, TypeOK, Level
  <2>4. slots' \in [SlotIdx -> Slot]
    <3>1. next_gen \in 0..GEN_MASK
      BY <2>2 DEF Gen
    <3>2. (o = NoOwner) \in BOOLEAN
      OBVIOUS
    <3>3. [gen |-> next_gen,
           owner_released_gen |-> slots[FreeSlot].owner_released_gen,
           detached |-> d, session |-> (o = NoOwner), dispatching |-> FALSE,
           owner |-> o, cxt |-> TRUE] \in Slot
      BY <2>1, <2>3, <3>1, <3>2 DEF Slot
    <3> QED
      BY <1>2, <3>3 DEF api_span_start, TypeOK
  <2>5. slot_free' \in Seq(SlotIdx) /\ slots_used' \in 0..MAX_OPEN_SPANS
    BY <1>2, PopSeq, ConstantsAssumption
       DEF api_span_start, take_slot, HaveFreeSlot, TypeOK
  <2>6. span_stack' \in Seq(Entry)
    <3>1. 0 \in Level
      BY ConstantsAssumption DEF Level
    <3> QED
      BY <1>2, <2>1, <3>1, PushType DEF api_span_start, TypeOK
  <2>7. owned' \in [Owner -> SUBSET (SlotIdx \X Gen)]
    <3>1. <<FreeSlot, next_gen>> \in SlotIdx \X Gen
      BY <2>1, <2>2
    <3> QED
      BY <1>2, <2>3, <3>1 DEF api_span_start, ResourceOwnerRemember, TypeOK
  <2>8. tally' \in [TallyField -> Nat]
    BY <1>2, CountType DEF api_span_start
  <2>9. session_spans_open' \in Int
    BY <1>2 DEF api_span_start, TypeOK
  <2> QED
    BY <1>2, <2>2, <2>4, <2>5, <2>6, <2>7, <2>8, <2>9
       DEF api_span_start, TypeOK, nrecVars, coreVars, callVars
<1>3. ASSUME NEW d \in BOOLEAN, NEW o \in LiveOwners \union {NoOwner},
             StartContextError(d, o)
      PROVE  TypeOK'
  <2>1. FreeSlot \in SlotIdx
    BY <1>3, FreeSlotFree DEF StartContextError
  <2>2. slot_free' \in Seq(SlotIdx) /\ slots_used' \in 0..MAX_OPEN_SPANS
    BY <1>3, <2>1, ConstantsAssumption
       DEF StartContextError, HaveFreeSlot, TypeOK
  <2> QED
    BY <1>3, <2>2 DEF StartContextError, TypeOK, nrecVars, coreVars, callVars,
                      histVars
<1>4. ASSUME NEW r \in BOOLEAN, NEW x \in SlotIdx \union NrecIdx,
             api_span_end(r, x) \/ api_span_deactivate(r, x)
      PROVE  TypeOK'
  <2>1. x \in Nat /\ stack_find(r, x) \in Nat
    BY <1>0, StackFind, ConstantsAssumption DEF SlotIdx, NrecIdx
  <2>2. target' \in Target
    BY <1>4, <2>1 DEF api_span_end, api_span_deactivate, Target
  <2> QED
    BY <1>4, <2>2
       DEF api_span_end, api_span_deactivate, TypeOK, Stages, poolVars,
           nrecVars, coreVars, histVars
<1>5. ASSUME NEW r \in BOOLEAN, NEW x \in SlotIdx \union NrecIdx,
             api_span_activate(r, x)
      PROVE  TypeOK'
  <2>1. x \in Nat /\ level \in Level
    BY ConstantsAssumption DEF SlotIdx, NrecIdx, TypeOK
  <2>2. span_stack' \in Seq(Entry)
    BY <1>5, <2>1, PushType DEF api_span_activate
  <2> QED
    BY <1>5, <2>2 DEF api_span_activate, TypeOK, poolVars, nrecVars, coreVars,
                      callVars, histVars
<1>6. ASSUME NEW r \in BOOLEAN, NEW x \in SlotIdx \union NrecIdx,
             api_span_discard(r, x)
      PROVE  TypeOK'
  <2>1. span_stack' \in Seq(Entry)
    BY <1>6, ShrinkType DEF api_span_discard
  <2>2. tally' \in [TallyField -> Nat]
    <3>1. tally \in [TallyField -> Nat]
      BY DEF TypeOK
    <3>2. [[tally EXCEPT !["discarded"] = @ + 1]
              EXCEPT !["nrec_discards"] = @ + 1] \in [TallyField -> Nat]
      BY <3>1, Bump
    <3>3. [tally EXCEPT !["discarded"] = @ + 1,
                        !["nrec_discards"] = @ + 1] \in [TallyField -> Nat]
      BY <3>2
    <3> QED
      BY <1>6, <3>1, <3>3, CountType DEF api_span_discard, DiscardFails
  <2>3. CASE /\ r /\ ResourceOwnerForget(x) /\ release_slot(x, FALSE)
             /\ UNCHANGED nrecVars
    <3>1. x \in SlotIdx
      BY <1>6, <2>3 DEF api_span_discard, DiscardFails, Resolves, OpenSlots
    <3> QED
      BY <1>6, <2>1, <2>2, <2>3, <3>1, ForgetType, ReleaseType
         DEF api_span_discard, DiscardFails, TypeOK, nrecVars, coreVars,
             callVars
  <2>4. CASE ~r /\ free_nrec(x, FALSE) /\ UNCHANGED <<poolVars, owned>>
    <3>1. x \in NrecIdx
      BY <1>6, <2>4 DEF api_span_discard, DiscardFails, Resolves, OpenNrecs
    <3> QED
      BY <1>6, <2>1, <2>2, <2>4, <3>1, FreeNrecType
         DEF api_span_discard, DiscardFails, TypeOK, poolVars, coreVars,
             callVars
  <2>5. CASE UNCHANGED <<poolVars, nrecVars, owned, tally>>
    BY <1>6, <2>1, <2>5
       DEF api_span_discard, DiscardFails, TypeOK, poolVars, nrecVars,
           coreVars, callVars
  <2> QED
    BY <1>6, <2>3, <2>4, <2>5 DEF api_span_discard, DiscardFails
<1>7. CASE UnwindActivation
  <2>1. span_stack' \in Seq(Entry)
    BY <1>0, <1>7, ShrinkType DEF UnwindActivation, Unwinding, TypeOK, Target
  <2> QED
    BY <1>7, <2>1 DEF UnwindActivation, TypeOK, poolVars, nrecVars, coreVars,
                      callVars, histVars
<1>8. CASE UnwindNrec
  <2>1. span_stack' \in Seq(Entry)
    BY <1>0, <1>8, ShrinkType DEF UnwindNrec, Unwinding, TypeOK, Target
  <2>2. TopEntry.idx \in NrecIdx
    BY <1>0, <1>8 DEF UnwindNrec, Unwinding, TopEntry, TypeOK, Target,
                      StackNamesOpenSpans, OpenNrecs
  <2> QED
    BY <1>8, <2>1, <2>2, FreeNrecType
       DEF UnwindNrec, TypeOK, poolVars, coreVars, callVars, histVars
<1>9. CASE UnwindSlot
  <2>1. span_stack' \in Seq(Entry)
    BY <1>0, <1>9, ShrinkType DEF UnwindSlot, Unwinding, TypeOK, Target
  <2>2. TopEntry.idx \in OpenSlots
    BY <1>0, <1>9 DEF UnwindSlot, Unwinding, TopEntry, TypeOK, Target,
                      StackNamesOpenSpans
  <2> QED
    BY <1>9, <2>1, <2>2, EndSlotType
       DEF UnwindSlot, TypeOK, nrecVars, coreVars
<1>10. CASE FinishDeactivate
  <2>1. span_stack' \in Seq(Entry)
    BY <1>0, <1>10, ShrinkType
       DEF FinishDeactivate, UnwindDone, PopTarget, TypeOK, Target
  <2>2. pc' \in Stages /\ target' \in Target
    BY <1>10, ResumeType DEF FinishDeactivate
  <2> QED
    BY <1>10, <2>1, <2>2 DEF FinishDeactivate, TypeOK, poolVars, nrecVars,
                             coreVars, histVars
<1>11. CASE FinishEndNrec
  <2>1. span_stack' \in Seq(Entry)
    BY <1>0, <1>11, ShrinkType
       DEF FinishEndNrec, UnwindDone, PopTarget, TypeOK, Target
  <2>2. pc' \in Stages /\ target' \in Target
    BY <1>11, ResumeType DEF FinishEndNrec
  <2>3. target.idx \in NrecIdx
    BY <1>11 DEF FinishEndNrec, UnwindDone, CallInProgress, Resolves, OpenNrecs
  <2> QED
    BY <1>11, <2>1, <2>2, <2>3, FreeNrecType
       DEF FinishEndNrec, TypeOK, poolVars, coreVars, histVars
<1>12. CASE FinishEndSlot
  <2>1. span_stack' \in Seq(Entry)
    BY <1>0, <1>12, ShrinkType
       DEF FinishEndSlot, UnwindDone, PopTarget, TypeOK, Target
  <2>2. target.idx \in OpenSlots
    BY <1>12 DEF FinishEndSlot, UnwindDone, CallInProgress, Resolves
  <2> QED
    BY <1>12, <2>1, <2>2, EndSlotType
       DEF FinishEndSlot, TypeOK, nrecVars, coreVars
<1>13. CASE HookReturns
  <2>1. hook.slot \in SlotIdx /\ slots[hook.slot].gen \in Gen
    BY <1>13, ConstantsAssumption
       DEF HookReturns, CallInProgress, OpenSlots, TypeOK, Slot, Gen
  <2>2. PICK b \in BOOLEAN : release_slot(hook.slot, b)
    BY <1>13 DEF HookReturns
  <2>3. owned' \in [Owner -> SUBSET (SlotIdx \X Gen)]
    BY <1>13 DEF HookReturns, TypeOK
  <2>4. owner_ended' \subseteq (BOOLEAN \X Nat \X Gen)
    <3>1. hook.slot \in Nat
      BY <2>1, ConstantsAssumption DEF SlotIdx
    <3>2. <<TRUE, hook.slot, slots[hook.slot].gen>> \in BOOLEAN \X Nat \X Gen
      BY <2>1, <3>1
    <3> QED
      BY <1>13, <3>2 DEF HookReturns, TypeOK
  <2>5. pc' \in Stages /\ target' \in Target
    <3>1. hook.ret \in {"idle", "unwind", "release"}
      BY DEF TypeOK, Hook
    <3> QED
      BY <1>13, <3>1, ResumeType DEF HookReturns
  <2>6. tally' \in [TallyField -> Nat]
    BY <1>13, CountType DEF HookReturns
  <2>7. dispatch_depth' \in Int /\ hook' \in Hook
    BY <1>13, NoCallType DEF HookReturns, TypeOK
  <2> QED
    BY <1>13, <2>1, <2>2, <2>3, <2>4, <2>5, <2>6, <2>7, ReleaseType
       DEF HookReturns, TypeOK, nrecVars, coreVars
<1>14. CASE HookFatal
  <2>1. pc' \in Stages /\ target' \in Target
    BY <1>14, ResumeType DEF HookFatal
  <2>2. exiting' \in {"no", "exiting", "gone"}
    BY <1>14 DEF HookFatal
  <2> QED
    BY <1>14, <2>1, <2>2, NoCallType
       DEF HookFatal, TypeOK, poolVars, nrecVars, coreVars, histVars
<1>15. CASE BeginLevel \/ OpenPortal
  <2>1. level' \in Level /\ portal' \in Level
    BY <1>15, ConstantsAssumption DEF BeginLevel, OpenPortal, TypeOK, Level
  <2> QED
    BY <1>15, <2>1 DEF BeginLevel, OpenPortal, TypeOK, poolVars, nrecVars,
                       callVars, histVars
<1>16. ASSUME NEW c \in BOOLEAN, DropPortal(c)
       PROVE  TypeOK'
  <2>1. ending' \in Ending
    BY <1>16, ConstantsAssumption DEF DropPortal, Ending, Owner, PORTAL, Level
  <2> QED
    BY <1>16, <2>1 DEF DropPortal, TypeOK, Stages, poolVars, nrecVars,
                       coreVars, histVars
<1>17. CASE CommitTop
  <2>1. ending' \in Ending
    BY <1>17, ConstantsAssumption DEF CommitTop, Ending, Owner, PORTAL, Level
  <2> QED
    BY <1>17, <2>1 DEF CommitTop, TypeOK, Stages, poolVars, nrecVars,
                       coreVars, histVars
<1>18. CASE CommitSub
  <2>1. ending' \in Ending
    <3>1. level \in Level /\ {level} \subseteq Owner
      BY <1>18, ConstantsAssumption DEF CommitSub, Owner, PORTAL, Level, TypeOK
    <3> QED
      BY <1>18, <3>1 DEF CommitSub, Ending
  <2>2. portal' \in Level
    BY <1>18, ConstantsAssumption DEF CommitSub, TypeOK, Level
  <2> QED
    BY <1>18, <2>1, <2>2 DEF CommitSub, TypeOK, Stages, poolVars, nrecVars,
                             histVars
<1>19. CASE Abort
  <2>1. ending' \in Ending
    BY <1>19, ConstantsAssumption
       DEF Abort, Ending, Owner, PORTAL, Level, TypeOK
  <2> QED
    BY <1>19, <2>1 DEF Abort, TypeOK, Stages, poolVars, nrecVars, coreVars,
                       histVars
<1>20. CASE DropNrecEntry \/ DropActivation
  <2>1. span_stack' \in Seq(Entry)
    BY <1>20, ShrinkType
       DEF DropNrecEntry, DropActivation, NrecEntriesToDrop, ActivationsToDrop
  <2> QED
    BY <1>20, <2>1 DEF DropNrecEntry, DropActivation, TypeOK, poolVars,
                       nrecVars, coreVars, callVars, histVars
<1>21. CASE DropNrec
  <2>1. PICK i \in NrecsToDrop :
          /\ free_nrec(i, TRUE)
          /\ owner_ended' = owner_ended \union {<<FALSE, i, nrecs[i].gen>>}
    BY <1>21 DEF DropNrec
  <2>2. i \in NrecIdx /\ nrecs[i].gen \in Gen /\ i \in Nat
    BY ConstantsAssumption
       DEF NrecsToDrop, OpenNrecs, TypeOK, Nrec, Gen, NrecIdx
  <2>3. <<FALSE, i, nrecs[i].gen>> \in BOOLEAN \X Nat \X Gen
    BY <2>2
  <2>4. owner_ended' \subseteq (BOOLEAN \X Nat \X Gen)
    BY <2>1, <2>3 DEF TypeOK
  <2> QED
    BY <1>21, <2>1, <2>2, <2>4, FreeNrecType
       DEF DropNrec, TypeOK, poolVars, coreVars, callVars
<1>22. CASE NrecsDropped \/ ActivationsDropped
  BY <1>22 DEF NrecsDropped, ActivationsDropped, TypeOK, Stages, poolVars,
               nrecVars, coreVars, histVars
<1>23. ASSUME NEW o \in Owner, NEW i \in SlotIdx, ReleaseLeaked(o, i)
       PROVE  TypeOK'
  <2>1. span_stack' \in Seq(Entry)
    BY <1>23, ShrinkType DEF ReleaseLeaked, Releasing
  <2>2. slots[i].gen \in Gen /\ i \in Nat
    BY <1>23, ConstantsAssumption
       DEF ReleaseLeaked, Releasing, TypeOK, SlotIdx
  <2>3. <<TRUE, i, slots[i].gen>> \in BOOLEAN \X Nat \X Gen
    BY <2>2
  <2>4. owner_ended' \subseteq (BOOLEAN \X Nat \X Gen)
    BY <1>23, <2>3 DEF ReleaseLeaked, TypeOK
  <2>5. owned' \in [Owner -> SUBSET (SlotIdx \X Gen)]
    BY <1>23 DEF ReleaseLeaked, TypeOK
  <2>6. tally' \in [TallyField -> Nat]
    BY <1>23, CountType DEF ReleaseLeaked
  <2> QED
    BY <1>23, <2>1, <2>4, <2>5, <2>6, ReleaseType
       DEF ReleaseLeaked, TypeOK, nrecVars, coreVars, callVars
<1>24. ASSUME NEW o \in Owner, NEW i \in SlotIdx, ReleaseAborted(o, i)
       PROVE  TypeOK'
  <2>1. span_stack' \in Seq(Entry)
    BY <1>24, ShrinkType DEF ReleaseAborted, Releasing
  <2>2. i \in OpenSlots
    BY <1>24 DEF ReleaseAborted, Releasing, TypeOK, OpenSlots, Gen
  <2>3. owned' \in [Owner -> SUBSET (SlotIdx \X Gen)]
    BY <1>24 DEF ReleaseAborted, TypeOK
  <2> QED
    BY <1>24, <2>1, <2>2, <2>3, DispatchType
       DEF ReleaseAborted, TypeOK, nrecVars, coreVars
<1>25. CASE ReleaseDone
  <2>1. level' \in Level /\ portal' \in Level
    BY <1>25, ConstantsAssumption DEF ReleaseDone, TypeOK, Ending, Level
  <2> QED
    BY <1>25, <2>1, NoCallType DEF ReleaseDone, TypeOK, Stages, poolVars,
                                   nrecVars, histVars
<1>26. CASE ProcExit \/ Exited
  BY <1>26 DEF ProcExit, Exited, TypeOK, poolVars, nrecVars, coreVars,
               callVars, histVars
<1>27. CASE UNCHANGED vars
  BY <1>27 DEF vars, TypeOK, poolVars, nrecVars, coreVars, callVars, histVars
<1> QED
  BY <1>1, <1>2, <1>3, <1>4, <1>5, <1>6, <1>7, <1>8, <1>9, <1>10, <1>11,
     <1>12, <1>13, <1>14, <1>15, <1>16, <1>17, <1>18, <1>19, <1>20, <1>21,
     <1>22, <1>23, <1>24, <1>25, <1>26, <1>27
     DEF Next, Calls, Transactions, Proceed, Gone


(***************************************************************************)
(* The slot pool.  Every step leaves the pool alone, releases an open      *)
(* slot, marks one as dispatching, takes a free one, or gives a free one   *)
(* back.                                                                   *)
(***************************************************************************)

PoolInv ==
    /\ SlotFreeListExact
    /\ \A i \in SlotIdx : i >= slots_used => slots[i].gen = 0

Released(i, b) == release_slot(i, b) /\ UNCHANGED <<issued, emits>>

Marked(i) ==
    /\ ~slots[i].dispatching
    /\ slots' = [slots EXCEPT ![i].owner = NoOwner, ![i].dispatching = TRUE]
    /\ emits' = [emits EXCEPT ![slots[i].gen] = @ + 1]
    /\ UNCHANGED <<slots_used, slot_free, issued>>

Untouched == UNCHANGED <<slots, slots_used, slot_free, emits>>

(* What release_slot does to the slots.                                    *)
LEMMA ReleaseEffect ==
    ASSUME TypeOK, NEW i \in SlotIdx, NEW b, release_slot(i, b)
    PROVE  /\ slots'[i].gen = 0
           /\ \A j \in SlotIdx : j # i => slots'[j] = slots[j]
  BY DEF release_slot, TypeOK, Freed

(* What marking does to the slots.                                         *)
LEMMA MarkEffect ==
    ASSUME TypeOK, NEW i \in SlotIdx, Marked(i)
    PROVE  /\ slots'[i].gen = slots[i].gen
           /\ slots'[i].dispatching
           /\ \A j \in SlotIdx : j # i => slots'[j] = slots[j]
<1>1. slots \in [SlotIdx -> Slot]
  BY DEF TypeOK
<1>2. slots[i] \in Slot
  BY <1>1
<1> QED
  BY <1>1, <1>2 DEF Marked, Slot

(* release_slot keeps the free list exact: it pushes the slot that it      *)
(* frees.                                                                  *)
LEMMA ReleasePool ==
    ASSUME TypeOK, PoolInv, NEW i \in OpenSlots, NEW b, release_slot(i, b)
    PROVE  PoolInv'
<1>1. i \in SlotIdx /\ slots[i].gen # 0
  BY DEF OpenSlots
<1>2. i < slots_used
  BY <1>1, ConstantsAssumption DEF PoolInv, SlotIdx, TypeOK
<1>3. /\ slots'[i].gen = 0
      /\ \A j \in SlotIdx : j # i => slots'[j] = slots[j]
  BY <1>1, ReleaseEffect
<1>4. /\ Len(slot_free) \in Nat
      /\ Len(slot_free') = Len(slot_free) + 1
      /\ \A k \in 1..Len(slot_free) : slot_free'[k] = slot_free[k]
      /\ slot_free'[Len(slot_free) + 1] = i
  BY <1>1, PushSeq DEF release_slot, TypeOK
<1>5. \A k \in 1..Len(slot_free) : slot_free[k] # i
  BY <1>1 DEF PoolInv, SlotFreeListExact
<1>6. slots_used' = slots_used
  BY DEF release_slot
<1>7. \A j, k \in 1..Len(slot_free') : slot_free'[j] = slot_free'[k] => j = k
  BY <1>4, <1>5 DEF PoolInv, SlotFreeListExact
<1>8. ASSUME NEW j \in SlotIdx
      PROVE  (j < slots_used' /\ slots'[j].gen = 0)
                <=> \E k \in 1..Len(slot_free') : slot_free'[k] = j
  <2>1. CASE j = i
    BY <1>2, <1>3, <1>4, <1>6, <2>1
  <2>2. CASE j # i
    <3>1. (j < slots_used' /\ slots'[j].gen = 0)
            <=> \E k \in 1..Len(slot_free) : slot_free[k] = j
      BY <1>3, <1>6, <2>2 DEF PoolInv, SlotFreeListExact
    <3> QED
      BY <3>1, <1>4, <2>2
  <2> QED
    BY <2>1, <2>2
<1> QED
  BY <1>1, <1>3, <1>6, <1>7, <1>8 DEF PoolInv, SlotFreeListExact

(* Taking the free slot.                                                   *)
LEMMA TakePool ==
    ASSUME TypeOK, PoolInv, NeverUsedIsFree, NEW d, NEW o, api_span_start(d, o)
    PROVE  PoolInv'
<1>1. HaveFreeSlot
  BY DEF api_span_start, take_slot
<1>2. FreeSlot \in SlotIdx /\ slots[FreeSlot].gen = 0
  BY <1>1, FreeSlotFree DEF PoolInv
<1>3. next_gen # 0
  BY NextGenType DEF Gen
<1>4. /\ slots'[FreeSlot].gen # 0
      /\ \A j \in SlotIdx : j # FreeSlot => slots'[j] = slots[j]
  BY <1>2, <1>3 DEF api_span_start, TypeOK
<1>5. CASE slot_free # <<>>
  <2>1. /\ Len(slot_free) \in Nat \ {0}
        /\ Len(slot_free') = Len(slot_free) - 1
        /\ \A k \in 1..(Len(slot_free) - 1) : slot_free'[k] = slot_free[k]
        /\ slot_free[Len(slot_free)] = FreeSlot
        /\ slots_used' = slots_used
    BY <1>5, PopSeq DEF api_span_start, take_slot, TypeOK, FreeSlot
  <2>2. \A j, k \in 1..Len(slot_free') : slot_free'[j] = slot_free'[k] => j = k
    BY <2>1 DEF PoolInv, SlotFreeListExact
  <2>3. ASSUME NEW j \in SlotIdx
        PROVE  (j < slots_used' /\ slots'[j].gen = 0)
                  <=> \E k \in 1..Len(slot_free') : slot_free'[k] = j
    <3>1. CASE j = FreeSlot
      <4>1. \A k \in 1..Len(slot_free) : slot_free[k] = j => k = Len(slot_free)
        BY <2>1, <3>1 DEF PoolInv, SlotFreeListExact
      <4> QED
        BY <1>4, <2>1, <3>1, <4>1
    <3>2. CASE j # FreeSlot
      <4>1. (j < slots_used' /\ slots'[j].gen = 0)
              <=> \E k \in 1..Len(slot_free) : slot_free[k] = j
        BY <1>4, <2>1, <3>2 DEF PoolInv, SlotFreeListExact
      <4> QED
        BY <4>1, <2>1, <3>2
    <3> QED
      BY <3>1, <3>2
  <2>4. FreeSlot < slots_used
    BY <1>2, <2>1 DEF PoolInv, SlotFreeListExact
  <2>5. ASSUME NEW j \in SlotIdx, j >= slots_used'
        PROVE  slots'[j].gen = 0
    <3>1. j # FreeSlot
      BY <1>2, <2>1, <2>4, <2>5, ConstantsAssumption DEF SlotIdx, TypeOK
    <3> QED
      BY <1>4, <2>1, <2>5, <3>1 DEF PoolInv
  <2> QED
    BY <2>2, <2>3, <2>5 DEF PoolInv, SlotFreeListExact
<1>6. CASE slot_free = <<>>
  <2>1. /\ slot_free' = <<>>
        /\ slots_used' = slots_used + 1
        /\ FreeSlot = slots_used
    BY <1>6 DEF api_span_start, take_slot, FreeSlot
  <2>2. \A j \in SlotIdx : j \in Nat
    BY ConstantsAssumption DEF SlotIdx
  <2>3. slots_used \in Nat /\ Len(slot_free) = 0
    BY <1>6, ConstantsAssumption DEF TypeOK
  <2>4. \A j \in SlotIdx : j < slots_used => slots[j].gen # 0
    BY <2>3 DEF PoolInv, SlotFreeListExact
  <2> QED
    BY <1>2, <1>4, <2>1, <2>2, <2>3, <2>4 DEF PoolInv, SlotFreeListExact
<1> QED
  BY <1>5, <1>6

(* take_slot fails after it reserved the slot.                             *)
LEMMA ContextErrorPool ==
    ASSUME TypeOK, PoolInv, NeverUsedIsFree, NEW d, NEW o,
           StartContextError(d, o)
    PROVE  PoolInv'
<1>1. CASE slot_free # <<>>
  BY <1>1 DEF StartContextError, PoolInv, SlotFreeListExact
<1>2. CASE slot_free = <<>>
  <2>1. /\ slot_free' = <<slots_used>>
        /\ slots_used' = slots_used + 1
        /\ slots' = slots
        /\ slots_used \in SlotIdx
        /\ slots[slots_used].gen = 0
    <3>1. FreeSlot = slots_used
      BY <1>2 DEF FreeSlot
    <3>2. slots_used \in SlotIdx /\ slots[slots_used].gen = 0
      BY <3>1, FreeSlotFree DEF StartContextError, PoolInv
    <3>3. slot_free' = Append(slot_free, slots_used)
      BY <1>2, <3>1 DEF StartContextError
    <3> QED
      BY <1>2, <3>2, <3>3 DEF StartContextError
  <2>2. Len(slot_free') = 1 /\ slot_free'[1] = slots_used
    BY <2>1
  <2>3. \A j \in SlotIdx : j \in Nat
    BY ConstantsAssumption DEF SlotIdx
  <2>4. slots_used \in Nat /\ Len(slot_free) = 0
    BY <1>2, ConstantsAssumption DEF TypeOK
  <2>5. \A j \in SlotIdx : j < slots_used => slots[j].gen # 0
    BY <2>4 DEF PoolInv, SlotFreeListExact
  <2>6. ASSUME NEW j \in SlotIdx
        PROVE  (j < slots_used' /\ slots'[j].gen = 0)
                  <=> \E k \in 1..Len(slot_free') : slot_free'[k] = j
    <3>1. CASE j = slots_used
      BY <2>1, <2>2, <2>4, <3>1
    <3>2. CASE j # slots_used
      BY <2>1, <2>2, <2>3, <2>4, <2>5, <3>2
    <3> QED
      BY <3>1, <3>2
  <2> QED
    BY <2>1, <2>2, <2>3, <2>4, <2>6 DEF PoolInv, SlotFreeListExact
<1> QED
  BY <1>1, <1>2


(* The two outcomes of dispatch_span and the third of end_slot.            *)
LEMMA DispatchEffect ==
    ASSUME NEW i, ~slots[i].dispatching, NEW cont, NEW b \in BOOLEAN,
           dispatch_span(i, cont, b)
    PROVE  \/ Marked(i) /\ pc' = "hook" /\ target' = target
              /\ hook' = [slot |-> i, ret |-> cont]
           \/ Released(i, b) /\ Resume(cont) /\ hook' = hook
  BY DEF dispatch_span, Marked, Released

(* end_slot has three outcomes: it enters the exporter's hook, frees the   *)
(* slot at once, or fails in ResourceOwnerForget and changes nothing.      *)
LEMMA EndSlotEffect ==
    ASSUME NEW i, ~slots[i].dispatching, NEW cont, end_slot(i, cont)
    PROVE  \/ Marked(i) /\ pc' = "hook" /\ target' = target
              /\ hook' = [slot |-> i, ret |-> cont]
           \/ Released(i, FALSE) /\ Resume(cont) /\ hook' = hook
           \/ Untouched /\ UNCHANGED issued /\ pc' = "idle"
<1>1. CASE ResourceOwnerForget(i) /\ dispatch_span(i, cont, FALSE)
  BY <1>1, DispatchEffect
<1>2. CASE /\ Resume("idle")
           /\ UNCHANGED <<poolVars, owned, hook, dispatch_depth, histVars>>
  BY <1>2 DEF Untouched, poolVars, histVars, Resume
<1> QED
  BY <1>1, <1>2 DEF end_slot

(* The open, undispatched slot an unwind is about to end.                  *)
LEMMA UnwindSlotTop ==
    ASSUME IInv, UnwindSlot
    PROVE  /\ TopEntry.idx \in OpenSlots
           /\ ~slots[TopEntry.idx].dispatching
           /\ end_slot(TopEntry.idx, "unwind")
<1>1. Len(span_stack) \in Nat /\ Len(span_stack) > target.pos
  BY DEF UnwindSlot, Unwinding, IInv, TypeOK
<1>2. target.pos \in Nat
  BY DEF IInv, TypeOK, Target
<1> QED
  BY <1>1, <1>2 DEF UnwindSlot, TopEntry, IInv, StackNamesOpenSpans

(* When an unwind is done, the span the call is for is still open and not  *)
(* being dispatched.                                                       *)
LEMMA FinishEndSlotTarget ==
    ASSUME IInv, FinishEndSlot
    PROVE  /\ target.idx \in OpenSlots
           /\ ~slots[target.idx].dispatching
           /\ end_slot(target.idx, "idle")
  BY DEF FinishEndSlot, UnwindDone, IInv, CallInProgress, Resolves

(* A slot that an owner's release finds by generation is open.             *)
LEMMA ReleasedIsOpen ==
    ASSUME IInv, NEW o \in Owner, NEW i \in SlotIdx, Releasing(o, i)
    PROVE  i \in OpenSlots
  BY DEF Releasing, IInv, TypeOK, OpenSlots, Gen

(* Every step is one of the five kinds.                                    *)
LEMMA PoolEffect ==
    ASSUME IInv, [Next]_vars
    PROVE  \/ Untouched /\ (take_gen \/ UNCHANGED issued)
           \/ \E i \in OpenSlots, b \in BOOLEAN : Released(i, b)
           \/ \E i \in OpenSlots : Marked(i)
           \/ \E d \in BOOLEAN, o \in LiveOwners \union {NoOwner} :
                api_span_start(d, o) \/ StartContextError(d, o)
<1>1. ASSUME NEW d \in BOOLEAN, NEW ss \in BOOLEAN, start_nrec(d, ss)
      PROVE  Untouched /\ take_gen
  BY <1>1 DEF start_nrec, Untouched, poolVars
<1>2. ASSUME NEW r \in BOOLEAN, NEW x \in SlotIdx \union NrecIdx,
             \/ api_span_end(r, x) \/ api_span_deactivate(r, x)
             \/ api_span_activate(r, x)
      PROVE  Untouched /\ UNCHANGED issued
  BY <1>2 DEF api_span_end, api_span_deactivate, api_span_activate, Untouched,
              poolVars, histVars
<1>3. ASSUME NEW r \in BOOLEAN, NEW x \in SlotIdx \union NrecIdx,
             api_span_discard(r, x)
      PROVE  \/ Untouched /\ UNCHANGED issued
             \/ x \in OpenSlots /\ Released(x, FALSE)
  BY <1>3
     DEF api_span_discard, DiscardFails, Untouched, Released, poolVars,
         Resolves
<1>4. CASE UnwindSlot
  BY <1>4, UnwindSlotTop, EndSlotEffect
<1>5. CASE FinishEndSlot
  BY <1>5, FinishEndSlotTarget, EndSlotEffect
<1>6. CASE HookReturns
  <2>1. hook.slot \in OpenSlots
    BY <1>6 DEF HookReturns, IInv, CallInProgress
  <2>2. Released(hook.slot, hook.ret = "release")
    BY <1>6 DEF HookReturns, Released
  <2> QED
    BY <2>1, <2>2
<1>7. ASSUME NEW o \in Owner, NEW i \in SlotIdx, ReleaseLeaked(o, i)
      PROVE  i \in OpenSlots /\ Released(i, TRUE)
  BY <1>7, ReleasedIsOpen DEF ReleaseLeaked, Released
<1>8. ASSUME NEW o \in Owner, NEW i \in SlotIdx, ReleaseAborted(o, i)
      PROVE  i \in OpenSlots /\ (Released(i, TRUE) \/ Marked(i))
  <2>1. i \in OpenSlots /\ ~slots[i].dispatching
    BY <1>8, ReleasedIsOpen DEF ReleaseAborted, NotExported
  <2> QED
    BY <1>8, <2>1, DispatchEffect DEF ReleaseAborted
<1>9. CASE \/ UnwindActivation \/ UnwindNrec \/ FinishDeactivate
           \/ FinishEndNrec \/ HookFatal
  BY <1>9 DEF UnwindActivation, UnwindNrec, FinishDeactivate, FinishEndNrec,
              HookFatal, Untouched, poolVars, histVars
<1>10. ASSUME \/ BeginLevel \/ OpenPortal \/ CommitTop \/ CommitSub \/ Abort
              \/ ProcExit \/ Exited \/ \E c \in BOOLEAN : DropPortal(c)
       PROVE  Untouched /\ UNCHANGED issued
  BY <1>10 DEF BeginLevel, OpenPortal, CommitTop, CommitSub, Abort, ProcExit,
               Exited, DropPortal, Untouched, poolVars, histVars
<1>11. CASE \/ DropNrecEntry \/ DropNrec \/ NrecsDropped \/ DropActivation
            \/ ActivationsDropped \/ ReleaseDone
  BY <1>11 DEF DropNrecEntry, DropNrec, NrecsDropped, DropActivation,
               ActivationsDropped, ReleaseDone, Untouched, poolVars, histVars
<1>12. CASE UNCHANGED vars
  BY <1>12 DEF vars, Untouched, poolVars, histVars
<1> QED
  BY <1>1, <1>2, <1>3, <1>4, <1>5, <1>6, <1>7, <1>8, <1>9, <1>10, <1>11, <1>12
     DEF Next, Calls, Transactions, Proceed, Gone

(* Every step keeps the slot free list exact.                              *)
LEMMA PoolStep ==
    ASSUME IInv, [Next]_vars
    PROVE  PoolInv'
<1>0. TypeOK /\ PoolInv /\ NeverUsedIsFree
  BY DEF IInv, PoolInv, NeverUsedIsFree
<1>1. CASE Untouched
  BY <1>0, <1>1 DEF Untouched, PoolInv, SlotFreeListExact
<1>2. ASSUME NEW i \in OpenSlots, Marked(i)
      PROVE  PoolInv'
  <2>1. i \in SlotIdx
    BY DEF OpenSlots
  <2>2. \A j \in SlotIdx : slots'[j].gen = slots[j].gen
    BY <1>0, <1>2, <2>1, MarkEffect
  <2> QED
    BY <1>0, <1>2, <2>2 DEF Marked, PoolInv, SlotFreeListExact
<1> QED
  BY <1>0, <1>1, <1>2, PoolEffect, ReleasePool, TakePool, ContextErrorPool
     DEF Released


(***************************************************************************)
(* Exports.                                                                *)
(***************************************************************************)

ExportInv == UnexportedWhileOpen /\ ExportAtMostOnce

(* Every step keeps the account of exports: an open span has not been      *)
(* exported, and none is exported twice.                                   *)
LEMMA ExportStep ==
    ASSUME IInv, [Next]_vars
    PROVE  ExportInv'
<1>0. TypeOK /\ ExportInv
  BY DEF IInv, ExportInv
<1>1. /\ emits \in [Gen -> Nat] /\ issued \subseteq Gen
      /\ \A i \in OpenSlots : i \in SlotIdx /\ slots[i].gen \in Gen
  BY <1>0, ConstantsAssumption DEF TypeOK, OpenSlots, Slot, Gen
<1>2. CASE Untouched /\ (take_gen \/ UNCHANGED issued)
  <2>1. issued \subseteq issued'
    BY <1>2 DEF take_gen
  <2> QED
    BY <1>0, <1>2, <2>1
       DEF Untouched, ExportInv, UnexportedWhileOpen, ExportAtMostOnce,
           OpenSlots
<1>3. ASSUME NEW i \in OpenSlots, NEW b, Released(i, b)
      PROVE  ExportInv'
  <2>1. /\ slots'[i].gen = 0
        /\ \A j \in SlotIdx : j # i => slots'[j] = slots[j]
    BY <1>0, <1>1, <1>3, ReleaseEffect DEF Released
  <2>2. \A j \in OpenSlots' : j \in OpenSlots /\ slots'[j] = slots[j]
    BY <2>1 DEF OpenSlots
  <2> QED
    BY <1>0, <1>3, <2>2
       DEF Released, ExportInv, UnexportedWhileOpen, ExportAtMostOnce
<1>4. ASSUME NEW i \in OpenSlots, Marked(i)
      PROVE  ExportInv'
  <2> DEFINE g == slots[i].gen
  <2>1. /\ slots'[i].gen = g
        /\ slots'[i].dispatching
        /\ \A j \in SlotIdx : j # i => slots'[j] = slots[j]
    BY <1>0, <1>1, <1>4, MarkEffect
  <2>2. \A j \in SlotIdx : slots'[j].gen = slots[j].gen
    BY <2>1
  <2>3. OpenSlots' = OpenSlots
    BY <2>2 DEF OpenSlots
  <2>4. g \in issued /\ emits[g] = 0 /\ g \in Gen
    BY <1>0, <1>1, <1>4 DEF Marked, ExportInv, UnexportedWhileOpen
  <2>5. emits'[g] = 1 /\ \A h \in Gen : h # g => emits'[h] = emits[h]
    BY <1>1, <1>4, <2>4 DEF Marked
  <2>6. issued' = issued
    BY <1>4 DEF Marked
  <2> HIDE DEF g
  <2>7. ASSUME NEW j \in OpenSlots
        PROVE  /\ slots'[j].gen \in issued'
               /\ ~slots'[j].dispatching => emits'[slots'[j].gen] = 0
    <3>1. CASE j = i
      BY <1>1, <2>1, <2>4, <2>6, <3>1
    <3>2. CASE j # i
      <4>1. slots'[j] = slots[j]
        BY <1>1, <2>1, <3>2
      <4>2. slots[j].gen # g /\ slots[j].gen \in Gen
        BY <1>0, <1>1, <3>2 DEF g, ExportInv, UnexportedWhileOpen
      <4> QED
        BY <1>0, <2>5, <2>6, <4>1, <4>2 DEF ExportInv, UnexportedWhileOpen
    <3> QED
      BY <3>1, <3>2
  <2>8. \A j, k \in OpenSlots : slots'[j].gen = slots'[k].gen => j = k
    BY <1>0, <1>1, <2>2 DEF ExportInv, UnexportedWhileOpen
  <2>9. \A h \in Gen : h \notin issued' => emits'[h] = 0
    BY <1>0, <2>4, <2>5, <2>6 DEF ExportInv, UnexportedWhileOpen
  <2>10. \A h \in Gen : emits'[h] <= 1
    BY <1>0, <2>5 DEF ExportInv, ExportAtMostOnce
  <2> QED
    BY <2>3, <2>7, <2>8, <2>9, <2>10
       DEF ExportInv, UnexportedWhileOpen, ExportAtMostOnce
<1>5. ASSUME NEW d, NEW o, api_span_start(d, o)
      PROVE  ExportInv'
  <2>1. FreeSlot \in SlotIdx
    BY FreeSlotFree, <1>5 DEF IInv, api_span_start, take_slot
  <2>2. /\ slots'[FreeSlot].gen = next_gen
        /\ \A j \in SlotIdx : j # FreeSlot => slots'[j] = slots[j]
    BY <1>0, <1>5, <2>1 DEF api_span_start, TypeOK
  <2>3. /\ next_gen \in Gen /\ next_gen \notin issued
        /\ issued' = issued \union {next_gen}
        /\ emits' = emits
    BY <1>0, <1>5, NextGenType DEF api_span_start, take_gen, StartBound
  <2>4. emits[next_gen] = 0
    BY <1>0, <2>3 DEF ExportInv, UnexportedWhileOpen
  <2>5. \A j \in OpenSlots' :
          \/ j = FreeSlot
          \/ j # FreeSlot /\ j \in OpenSlots /\ slots'[j] = slots[j]
    BY <2>2 DEF OpenSlots
  <2>6. \A j \in OpenSlots' : slots'[j].gen \in issued'
    BY <1>0, <2>2, <2>3, <2>5 DEF ExportInv, UnexportedWhileOpen
  <2>7. \A j \in OpenSlots' :
          ~slots'[j].dispatching => emits'[slots'[j].gen] = 0
    BY <1>0, <2>2, <2>3, <2>4, <2>5 DEF ExportInv, UnexportedWhileOpen
  <2>8. \A j, k \in OpenSlots' : slots'[j].gen = slots'[k].gen => j = k
    BY <1>0, <2>2, <2>3, <2>5 DEF ExportInv, UnexportedWhileOpen
  <2> QED
    BY <1>0, <2>3, <2>6, <2>7, <2>8
       DEF ExportInv, UnexportedWhileOpen, ExportAtMostOnce
<1>6. ASSUME NEW d, NEW o, StartContextError(d, o)
      PROVE  ExportInv'
  BY <1>0, <1>6 DEF StartContextError, ExportInv, UnexportedWhileOpen,
                    ExportAtMostOnce, OpenSlots, histVars
<1> QED
  BY <1>2, <1>3, <1>4, <1>5, <1>6, PoolEffect

(***************************************************************************)
(* The non-recording entries: left alone, one taken, or one freed.         *)
(***************************************************************************)

NrecInv ==
    /\ NrecFreeListExact
    /\ \A i \in NrecIdx : i >= nrecs_used => nrecs[i].gen = 0

(* What free_nrec does to the entries.                                     *)
LEMMA FreeNrecEffect ==
    ASSUME TypeOK, NEW i \in NrecIdx, NEW b, free_nrec(i, b)
    PROVE  /\ nrecs'[i].gen = 0
           /\ \A j \in NrecIdx : j # i => nrecs'[j] = nrecs[j]
<1>1. nrecs \in [NrecIdx -> Nrec]
  BY DEF TypeOK
<1>2. nrecs[i] \in Nrec
  BY <1>1
<1> QED
  BY <1>1, <1>2 DEF free_nrec, Nrec

(* free_nrec keeps the free list of nrecs exact.                           *)
LEMMA FreeNrecPool ==
    ASSUME TypeOK, NrecInv, NEW i \in OpenNrecs, NEW b, free_nrec(i, b)
    PROVE  NrecInv'
<1>1. i \in NrecIdx /\ nrecs[i].gen # 0
  BY DEF OpenNrecs
<1>2. i < nrecs_used
  <2>1. i \in Int /\ nrecs_used \in Int
    BY <1>1, ConstantsAssumption DEF NrecIdx, TypeOK
  <2> QED
    BY <1>1, <2>1 DEF NrecInv
<1>3. /\ nrecs'[i].gen = 0
      /\ \A j \in NrecIdx : j # i => nrecs'[j] = nrecs[j]
  BY <1>1, FreeNrecEffect
<1>4. /\ Len(nrec_free) \in Nat
      /\ Len(nrec_free') = Len(nrec_free) + 1
      /\ \A k \in 1..Len(nrec_free) : nrec_free'[k] = nrec_free[k]
      /\ nrec_free'[Len(nrec_free) + 1] = i
  BY <1>1, PushSeq DEF free_nrec, TypeOK
<1>5. \A k \in 1..Len(nrec_free) : nrec_free[k] # i
  BY <1>1 DEF NrecInv, NrecFreeListExact
<1>6. nrecs_used' = nrecs_used
  BY DEF free_nrec
<1>7. \A j, k \in 1..Len(nrec_free') : nrec_free'[j] = nrec_free'[k] => j = k
  BY <1>4, <1>5 DEF NrecInv, NrecFreeListExact
<1>8. ASSUME NEW j \in NrecIdx
      PROVE  (j < nrecs_used' /\ nrecs'[j].gen = 0)
                <=> \E k \in 1..Len(nrec_free') : nrec_free'[k] = j
  <2>1. CASE j = i
    BY <1>2, <1>3, <1>4, <1>6, <2>1
  <2>2. CASE j # i
    <3>1. (j < nrecs_used' /\ nrecs'[j].gen = 0)
            <=> \E k \in 1..Len(nrec_free) : nrec_free[k] = j
      BY <1>3, <1>6, <2>2 DEF NrecInv, NrecFreeListExact
    <3> QED
      BY <3>1, <1>4, <2>2
  <2> QED
    BY <2>1, <2>2
<1> QED
  BY <1>1, <1>3, <1>6, <1>7, <1>8 DEF NrecInv, NrecFreeListExact

(* start_nrec takes the first free entry.                                  *)
LEMMA TakeNrecPool ==
    ASSUME TypeOK, NrecInv, NeverUsedIsFree, NEW d, NEW ss, start_nrec(d, ss)
    PROVE  NrecInv'
<1>2. FirstNrec \in NrecIdx /\ nrecs[FirstNrec].gen = 0
  BY FirstNrecFree DEF NrecInv, start_nrec
<1>3. next_gen # 0
  BY NextGenType DEF Gen
<1>4. /\ nrecs'[FirstNrec].gen # 0
      /\ \A j \in NrecIdx : j # FirstNrec => nrecs'[j] = nrecs[j]
  BY <1>2, <1>3 DEF start_nrec, TypeOK
<1>5. CASE nrec_free # <<>>
  <2>1. /\ Len(nrec_free) \in Nat \ {0}
        /\ Len(nrec_free') = Len(nrec_free) - 1
        /\ \A k \in 1..(Len(nrec_free) - 1) : nrec_free'[k] = nrec_free[k]
        /\ nrec_free[Len(nrec_free)] = FirstNrec
        /\ nrecs_used' = nrecs_used
    BY <1>5, PopSeq DEF start_nrec, TypeOK, FirstNrec
  <2>2. \A j, k \in 1..Len(nrec_free') : nrec_free'[j] = nrec_free'[k] => j = k
    BY <2>1 DEF NrecInv, NrecFreeListExact
  <2>3. ASSUME NEW j \in NrecIdx
        PROVE  (j < nrecs_used' /\ nrecs'[j].gen = 0)
                  <=> \E k \in 1..Len(nrec_free') : nrec_free'[k] = j
    <3>1. CASE j = FirstNrec
      <4>1. \A k \in 1..Len(nrec_free) : nrec_free[k] = j => k = Len(nrec_free)
        BY <2>1, <3>1 DEF NrecInv, NrecFreeListExact
      <4> QED
        BY <1>4, <2>1, <3>1, <4>1
    <3>2. CASE j # FirstNrec
      <4>1. (j < nrecs_used' /\ nrecs'[j].gen = 0)
              <=> \E k \in 1..Len(nrec_free) : nrec_free[k] = j
        BY <1>4, <2>1, <3>2 DEF NrecInv, NrecFreeListExact
      <4> QED
        BY <4>1, <2>1, <3>2
    <3> QED
      BY <3>1, <3>2
  <2>4. FirstNrec < nrecs_used /\ FirstNrec \in Int /\ nrecs_used \in Int
    BY <1>2, <2>1, ConstantsAssumption
       DEF NrecInv, NrecFreeListExact, TypeOK, NrecIdx
  <2>5. ASSUME NEW j \in NrecIdx, j >= nrecs_used'
        PROVE  nrecs'[j].gen = 0
    <3>1. j # FirstNrec
      BY <1>2, <2>1, <2>4, <2>5, ConstantsAssumption DEF NrecIdx, TypeOK
    <3> QED
      BY <1>4, <2>1, <2>5, <3>1 DEF NrecInv
  <2> QED
    BY <2>2, <2>3, <2>5 DEF NrecInv, NrecFreeListExact
<1>6. CASE nrec_free = <<>>
  <2>1. /\ nrec_free' = <<>>
        /\ nrecs_used' = nrecs_used + 1
        /\ FirstNrec = nrecs_used
    BY <1>6 DEF start_nrec, FirstNrec
  <2>2. \A j \in NrecIdx : j \in Nat
    BY ConstantsAssumption DEF NrecIdx
  <2>3. nrecs_used \in Nat /\ Len(nrec_free) = 0
    BY <1>6, ConstantsAssumption DEF TypeOK
  <2>4. \A j \in NrecIdx : j < nrecs_used => nrecs[j].gen # 0
    BY <2>3 DEF NrecInv, NrecFreeListExact
  <2> QED
    BY <1>2, <1>4, <2>1, <2>2, <2>3, <2>4 DEF NrecInv, NrecFreeListExact
<1> QED
  BY <1>5, <1>6


(* Every step keeps the free list of nrecs exact.                          *)
LEMMA NrecStep ==
    ASSUME IInv, [Next]_vars
    PROVE  NrecInv'
<1>0. TypeOK /\ NrecInv /\ NeverUsedIsFree
  BY DEF IInv, NrecInv, NeverUsedIsFree
<1>1. CASE UNCHANGED nrecVars
  BY <1>0, <1>1 DEF nrecVars, NrecInv, NrecFreeListExact
<1>2. CASE \E d, ss \in BOOLEAN : start_nrec(d, ss)
  BY <1>0, <1>2, TakeNrecPool
<1>3. CASE \E i \in OpenNrecs, b \in BOOLEAN : free_nrec(i, b)
  BY <1>0, <1>3, FreeNrecPool
<1>4. ASSUME NEW r \in BOOLEAN, NEW x \in SlotIdx \union NrecIdx,
             api_span_discard(r, x)
      PROVE  \/ UNCHANGED nrecVars
             \/ \E i \in OpenNrecs, b \in BOOLEAN : free_nrec(i, b)
  BY <1>4 DEF api_span_discard, DiscardFails, Resolves
<1>5. CASE UnwindNrec
  <2>1. TopEntry.idx \in OpenNrecs
    <3>1. Len(span_stack) \in Nat /\ Len(span_stack) > target.pos
      BY <1>5 DEF UnwindNrec, Unwinding, IInv, TypeOK
    <3>2. target.pos \in Nat
      BY DEF IInv, TypeOK, Target
    <3> QED
      BY <1>5, <3>1, <3>2 DEF UnwindNrec, TopEntry, IInv, StackNamesOpenSpans
  <2> QED
    BY <1>3, <1>5, <2>1 DEF UnwindNrec
<1>6. CASE FinishEndNrec
  <2>1. target.idx \in OpenNrecs
    BY <1>6 DEF FinishEndNrec, UnwindDone, IInv, CallInProgress, Resolves
  <2> QED
    BY <1>3, <1>6, <2>1 DEF FinishEndNrec
<1>7. CASE DropNrec
  BY <1>3, <1>7 DEF DropNrec, NrecsToDrop
<1>8. CASE \E r \in BOOLEAN, x \in SlotIdx \union NrecIdx :
             \/ api_span_end(r, x) \/ api_span_deactivate(r, x)
             \/ api_span_activate(r, x)
  BY <1>1, <1>8 DEF api_span_end, api_span_deactivate, api_span_activate
<1>9. CASE \E d \in BOOLEAN, o \in LiveOwners \union {NoOwner} :
             api_span_start(d, o) \/ StartContextError(d, o)
  BY <1>1, <1>9 DEF api_span_start, StartContextError
<1>10. CASE \/ UnwindActivation \/ UnwindSlot \/ FinishDeactivate
            \/ FinishEndSlot \/ HookReturns \/ HookFatal
  BY <1>1, <1>10 DEF UnwindActivation, UnwindSlot, FinishDeactivate,
                     FinishEndSlot, HookReturns, HookFatal
<1>11. CASE Transactions
  BY <1>1, <1>11 DEF Transactions, BeginLevel, OpenPortal, DropPortal,
                     CommitTop, CommitSub, Abort, ProcExit, Exited, Gone, vars
<1>12. CASE \/ DropNrecEntry \/ NrecsDropped \/ DropActivation
            \/ ActivationsDropped \/ ReleaseDone
            \/ \E o \in Owner, i \in SlotIdx :
                 ReleaseLeaked(o, i) \/ ReleaseAborted(o, i)
  BY <1>1, <1>12 DEF DropNrecEntry, NrecsDropped, DropActivation,
                     ActivationsDropped, ReleaseDone, ReleaseLeaked,
                     ReleaseAborted
<1>13. CASE UNCHANGED vars
  BY <1>1, <1>13 DEF vars
<1> QED
  BY <1>1, <1>2, <1>3, <1>4, <1>5, <1>6, <1>7, <1>8, <1>9, <1>10, <1>11,
     <1>12, <1>13
     DEF Next, Calls, Proceed

(***************************************************************************)
(* The active stack.  It stays, loses one entry, or gains one.             *)
(***************************************************************************)

Kept(r, x) == IF r THEN slots'[x] = slots[x] ELSE nrecs'[x] = nrecs[x]

StackShrinks ==
    \/ span_stack' = span_stack
    \/ \E pos \in 1..Len(span_stack) : span_stack' = stack_remove_at(pos)

(* The span with an entry that has just been removed has no other.         *)
LEMMA RemovedGone ==
    ASSUME TypeOK, StackNamesOpenSpans, NEW pos \in 1..Len(span_stack),
           span_stack' = stack_remove_at(pos)
    PROVE  /\ Len(span_stack) \in Nat
           /\ Len(span_stack') = Len(span_stack) - 1
           /\ \A k \in 1..Len(span_stack') :
                /\ span_stack'[k] = span_stack[IF k < pos THEN k ELSE k + 1]
                /\ ~(/\ span_stack'[k].rec = span_stack[pos].rec
                     /\ span_stack'[k].idx = span_stack[pos].idx)
<1>1. Len(span_stack) \in Nat
  BY DEF TypeOK
<1>2. /\ Len(span_stack') = Len(span_stack) - 1
      /\ \A k \in 1..Len(span_stack') :
            span_stack'[k] = span_stack[IF k < pos THEN k ELSE k + 1]
  BY <1>1, RemoveSeq DEF TypeOK
<1>3. ASSUME NEW k \in 1..Len(span_stack')
      PROVE  ~(/\ span_stack'[k].rec = span_stack[pos].rec
               /\ span_stack'[k].idx = span_stack[pos].idx)
  <2>1. CASE k < pos
    BY <1>1, <1>2, <2>1 DEF StackNamesOpenSpans
  <2>2. CASE ~(k < pos)
    BY <1>1, <1>2, <2>2 DEF StackNamesOpenSpans
  <2> QED
    BY <2>1, <2>2
<1> QED
  BY <1>1, <1>2, <1>3

(* A stack that only lost entries is sound if the spans it still names are *)
(* untouched.                                                              *)
LEMMA StackKept ==
    ASSUME TypeOK, StackNamesOpenSpans, StackShrinks,
           \A k \in 1..Len(span_stack') :
              Kept(span_stack'[k].rec, span_stack'[k].idx)
    PROVE  StackNamesOpenSpans'
<1>1. Len(span_stack) \in Nat
  BY DEF TypeOK
<1>2. ASSUME NEW k \in 1..Len(span_stack'), NEW j \in 1..Len(span_stack),
             span_stack'[k] = span_stack[j]
      PROVE  LET e == span_stack'[k] IN
             IF e.rec
             THEN /\ e.idx \in OpenSlots'
                  /\ ~slots'[e.idx].dispatching
                  /\ e.is_activation = slots'[e.idx].detached
             ELSE /\ e.idx \in OpenNrecs'
                  /\ e.is_activation = nrecs'[e.idx].detached
  BY <1>2 DEF StackNamesOpenSpans, Kept, OpenSlots, OpenNrecs
<1>3. CASE span_stack' = span_stack
  BY <1>1, <1>2, <1>3 DEF StackNamesOpenSpans
<1>4. ASSUME NEW pos \in 1..Len(span_stack),
             span_stack' = stack_remove_at(pos)
      PROVE  StackNamesOpenSpans'
  <2>1. /\ Len(span_stack') = Len(span_stack) - 1
        /\ \A k \in 1..Len(span_stack') :
             span_stack'[k] = span_stack[IF k < pos THEN k ELSE k + 1]
    BY <1>4, RemovedGone
  <2>2. \A k \in 1..Len(span_stack') :
           (IF k < pos THEN k ELSE k + 1) \in 1..Len(span_stack)
    BY <1>1, <2>1
  <2>3. \A j, k \in 1..Len(span_stack') :
           /\ span_stack'[j].rec = span_stack'[k].rec
           /\ span_stack'[j].idx = span_stack'[k].idx
           => j = k
    BY <1>1, <2>1, <2>2 DEF StackNamesOpenSpans
  <2>4. Len(span_stack') <= MAX_STACK_DEPTH
    BY <1>1, <2>1, ConstantsAssumption DEF StackNamesOpenSpans
  <2> QED
    BY <1>2, <2>1, <2>2, <2>3, <2>4 DEF StackNamesOpenSpans
<1> QED
  BY <1>3, <1>4 DEF StackShrinks


(* Popping is removing the top entry.                                      *)
LEMMA PopRemoves ==
    ASSUME TypeOK, span_stack # <<>>
    PROVE  /\ Len(span_stack) \in 1..Len(span_stack)
           /\ Pop(span_stack) = stack_remove_at(Len(span_stack))
<1>1. Len(span_stack) \in Nat \ {0}
  BY DEF TypeOK
<1> QED
  BY <1>1 DEF Pop, stack_remove_at

(* stack_without shrinks the stack and leaves the span off it.             *)
LEMMA WithoutGone ==
    ASSUME TypeOK, StackNamesOpenSpans, NEW r, NEW x,
           span_stack' = stack_without(r, x)
    PROVE  /\ StackShrinks
           /\ \A k \in 1..Len(span_stack') :
                ~(span_stack'[k].rec = r /\ span_stack'[k].idx = x)
<1>1. CASE Positions(r, x) = {}
  BY <1>1 DEF stack_without, StackShrinks, Positions
<1>2. CASE Positions(r, x) # {}
  <2> DEFINE p == stack_find(r, x)
  <2>1. /\ p \in 1..Len(span_stack)
        /\ span_stack[p].rec = r /\ span_stack[p].idx = x
    <3>1. Len(span_stack) \in Nat
      BY DEF TypeOK
    <3> QED
      BY <1>2, <3>1, StackFind
  <2>2. span_stack' = stack_remove_at(p)
    BY <1>2 DEF stack_without
  <2> HIDE DEF p
  <2> QED
    BY <2>1, <2>2, RemovedGone DEF StackShrinks
<1> QED
  BY <1>1, <1>2

(* A push of an open span that was not on the stack.                       *)
LEMMA PushKept ==
    ASSUME TypeOK, StackNamesOpenSpans,
           NEW r \in BOOLEAN, NEW x \in Nat, NEW a \in BOOLEAN,
           NEW lev \in Level,
           stack_push(r, x, a, lev),
           Len(span_stack) < MAX_STACK_DEPTH,
           \A k \in 1..Len(span_stack) :
              /\ ~(span_stack[k].rec = r /\ span_stack[k].idx = x)
              /\ Kept(span_stack[k].rec, span_stack[k].idx),
           IF r THEN /\ x \in OpenSlots'
                     /\ ~slots'[x].dispatching
                     /\ a = slots'[x].detached
                ELSE x \in OpenNrecs' /\ a = nrecs'[x].detached
    PROVE  StackNamesOpenSpans'
<1> DEFINE e == [rec |-> r, idx |-> x, is_activation |-> a, nest_level |-> lev]
           n == Len(span_stack)
<1>1. n \in Nat /\ span_stack \in Seq(Entry)
  BY DEF TypeOK
<1>2. e \in Entry
  BY Zenon DEF Entry
<1>3. /\ Len(span_stack') = n + 1
      /\ \A k \in 1..n : span_stack'[k] = span_stack[k]
      /\ span_stack'[n + 1] = e
  BY <1>1, <1>2, PushSeq DEF stack_push
<1>4. e.rec = r /\ e.idx = x /\ e.is_activation = a
  OBVIOUS
<1> HIDE DEF e, n
<1>5. \A k \in 1..(n + 1) : k \in 1..n \/ k = n + 1
  BY <1>1
<1>6. ASSUME NEW k \in 1..(n + 1)
      PROVE  LET f == span_stack'[k] IN
             IF f.rec
             THEN /\ f.idx \in OpenSlots'
                  /\ ~slots'[f.idx].dispatching
                  /\ f.is_activation = slots'[f.idx].detached
             ELSE /\ f.idx \in OpenNrecs'
                  /\ f.is_activation = nrecs'[f.idx].detached
  <2>1. CASE k \in 1..n
    BY <1>3, <2>1 DEF n, StackNamesOpenSpans, Kept, OpenSlots, OpenNrecs
  <2>2. CASE k = n + 1
    BY <1>3, <1>4, <2>2
  <2> QED
    BY <1>5, <2>1, <2>2
<1>7. ASSUME NEW j \in 1..(n + 1), NEW k \in 1..(n + 1),
             span_stack'[j].rec = span_stack'[k].rec,
             span_stack'[j].idx = span_stack'[k].idx
      PROVE  j = k
  <2>1. CASE j \in 1..n /\ k \in 1..n
    BY <1>3, <1>7, <2>1 DEF n, StackNamesOpenSpans
  <2>2. CASE j = n + 1 /\ k \in 1..n
    BY <1>3, <1>4, <1>7, <2>2 DEF n
  <2>3. CASE j \in 1..n /\ k = n + 1
    BY <1>3, <1>4, <1>7, <2>3 DEF n
  <2> QED
    BY <1>5, <2>1, <2>2, <2>3
<1>8. n + 1 <= MAX_STACK_DEPTH
  BY <1>1, ConstantsAssumption DEF n
<1> QED
  BY <1>3, <1>6, <1>7, <1>8 DEF StackNamesOpenSpans

(* The slots other than the one released or marked stay as they are.       *)
LEMMA OthersKept ==
    ASSUME TypeOK, NEW i \in SlotIdx,
           Marked(i) \/ \E b \in BOOLEAN : Released(i, b)
    PROVE  \A j \in SlotIdx : j # i => slots'[j] = slots[j]
  BY MarkEffect, ReleaseEffect DEF Released

(* An entry of a stack that shrank was an entry before.                    *)
LEMMA ShrunkEntry ==
    ASSUME TypeOK, StackNamesOpenSpans, StackShrinks,
           NEW k \in 1..Len(span_stack')
    PROVE  \E j \in 1..Len(span_stack) :
              /\ span_stack'[k] = span_stack[j]
              /\ span_stack[j].rec \in BOOLEAN
<1>1. Len(span_stack) \in Nat
  BY DEF TypeOK
<1>2. \E j \in 1..Len(span_stack) : span_stack'[k] = span_stack[j]
  <2>1. CASE span_stack' = span_stack
    BY <2>1
  <2>2. ASSUME NEW pos \in 1..Len(span_stack),
               span_stack' = stack_remove_at(pos)
        PROVE  \E j \in 1..Len(span_stack) : span_stack'[k] = span_stack[j]
    <3>1. /\ Len(span_stack') = Len(span_stack) - 1
          /\ span_stack'[k] = span_stack[IF k < pos THEN k ELSE k + 1]
      BY <2>2, RemovedGone
    <3>2. (IF k < pos THEN k ELSE k + 1) \in 1..Len(span_stack)
      BY <1>1, <3>1
    <3> QED
      BY <3>1, <3>2
  <2> QED
    BY <2>1, <2>2 DEF StackShrinks
<1>3. \A j \in 1..Len(span_stack) : span_stack[j].rec \in BOOLEAN
  <2>1. \A j \in 1..Len(span_stack) : span_stack[j] \in Entry
    BY DEF TypeOK
  <2> QED
    BY <2>1 DEF Entry
<1> QED
  BY <1>2, <1>3

(* Three kinds of steps that shrink the stack: no span changes, a slot     *)
(* that is off the new stack does, or a non-recording entry does.          *)
LEMMA ShrinkQuiet ==
    ASSUME IInv, StackShrinks, UNCHANGED <<slots, nrecs>>
    PROVE  StackNamesOpenSpans'
  BY StackKept DEF IInv, Kept

(* The stack stays sound when a slot is ended or released whose entries    *)
(* are gone.                                                               *)
LEMMA ShrinkSlot ==
    ASSUME IInv, StackShrinks, NEW i \in OpenSlots,
           Marked(i) \/ \E b \in BOOLEAN : Released(i, b),
           nrecs' = nrecs,
           \A k \in 1..Len(span_stack') :
              ~(span_stack'[k].rec = TRUE /\ span_stack'[k].idx = i)
    PROVE  StackNamesOpenSpans'
<1>1. i \in SlotIdx /\ TypeOK /\ StackNamesOpenSpans
  BY DEF OpenSlots, IInv
<1>2. \A j \in SlotIdx : j # i => slots'[j] = slots[j]
  BY <1>1, OthersKept
<1>3. ASSUME NEW k \in 1..Len(span_stack')
      PROVE  Kept(span_stack'[k].rec, span_stack'[k].idx)
  <2>1. PICK j \in 1..Len(span_stack) : /\ span_stack'[k] = span_stack[j]
                                        /\ span_stack[j].rec \in BOOLEAN
    BY <1>1, ShrunkEntry
  <2>2. CASE span_stack[j].rec = TRUE
    BY <1>1, <1>2, <2>1, <2>2 DEF Kept, StackNamesOpenSpans, OpenSlots
  <2>3. CASE span_stack[j].rec = FALSE
    BY <2>1, <2>3 DEF Kept
  <2> QED
    BY <2>1, <2>2, <2>3
<1> QED
  BY <1>1, <1>3, StackKept

(* The stack stays sound when an nrec is freed whose entries are gone.     *)
LEMMA ShrinkNrec ==
    ASSUME IInv, StackShrinks, NEW i \in OpenNrecs, NEW b, free_nrec(i, b),
           slots' = slots,
           \A k \in 1..Len(span_stack') :
              ~(span_stack'[k].rec = FALSE /\ span_stack'[k].idx = i)
    PROVE  StackNamesOpenSpans'
<1>1. i \in NrecIdx /\ TypeOK /\ StackNamesOpenSpans
  BY DEF OpenNrecs, IInv
<1>2. \A j \in NrecIdx : j # i => nrecs'[j] = nrecs[j]
  BY <1>1, FreeNrecEffect
<1>3. ASSUME NEW k \in 1..Len(span_stack')
      PROVE  Kept(span_stack'[k].rec, span_stack'[k].idx)
  <2>1. PICK j \in 1..Len(span_stack) : /\ span_stack'[k] = span_stack[j]
                                        /\ span_stack[j].rec \in BOOLEAN
    BY <1>1, ShrunkEntry
  <2>2. CASE span_stack[j].rec = FALSE
    BY <1>1, <1>2, <2>1, <2>2 DEF Kept, StackNamesOpenSpans, OpenNrecs
  <2>3. CASE span_stack[j].rec = TRUE
    BY <2>1, <2>3 DEF Kept
  <2> QED
    BY <2>1, <2>2, <2>3
<1> QED
  BY <1>1, <1>3, StackKept

(* Popping in an unwind: the span popped is off the stack, the target of   *)
(* the unwind is another one and stays where it is.                        *)
LEMMA UnwindPops ==
    ASSUME IInv, Unwinding, span_stack' = Pop(span_stack)
    PROVE  /\ StackShrinks
           /\ \A k \in 1..Len(span_stack') :
                ~(/\ span_stack'[k].rec = TopEntry.rec
                  /\ span_stack'[k].idx = TopEntry.idx)
           /\ ~(TopEntry.rec = target.rec /\ TopEntry.idx = target.idx)
           /\ target.pos # 0
           /\ target.pos <= Len(span_stack')
           /\ span_stack'[target.pos] = span_stack[target.pos]
           /\ Len(span_stack) \in 1..Len(span_stack)
<1>1. TypeOK /\ StackNamesOpenSpans /\ CallInProgress
  BY DEF IInv
<1>2. Len(span_stack) \in Nat /\ target.pos \in Nat
  BY <1>1 DEF TypeOK, Target
<1>3. pc = "unwind" /\ target.pos # 0 /\ Len(span_stack) > target.pos
  BY DEF Unwinding
<1>4. span_stack # <<>>
  BY <1>2, <1>3
<1>5. /\ Len(span_stack) \in 1..Len(span_stack)
      /\ span_stack' = stack_remove_at(Len(span_stack))
  BY <1>1, <1>4, PopRemoves
<1>6. /\ Len(span_stack') = Len(span_stack) - 1
      /\ \A k \in 1..Len(span_stack') :
           /\ span_stack'[k] =
                span_stack[IF k < Len(span_stack) THEN k ELSE k + 1]
           /\ ~(/\ span_stack'[k].rec = TopEntry.rec
                /\ span_stack'[k].idx = TopEntry.idx)
  BY <1>1, <1>5, RemovedGone DEF TopEntry
<1>7. /\ span_stack[target.pos].rec = target.rec
      /\ span_stack[target.pos].idx = target.idx
  BY <1>1, <1>3 DEF CallInProgress
<1>8. target.pos \in 1..Len(span_stack) /\ target.pos # Len(span_stack)
  BY <1>2, <1>3
<1>9. ~(TopEntry.rec = target.rec /\ TopEntry.idx = target.idx)
  BY <1>1, <1>5, <1>7, <1>8 DEF TopEntry, StackNamesOpenSpans
<1>10. target.pos <= Len(span_stack') /\ target.pos \in 1..Len(span_stack')
  BY <1>2, <1>3, <1>6
<1>11. span_stack'[target.pos] = span_stack[target.pos]
  BY <1>2, <1>3, <1>6, <1>10
<1>12. StackShrinks
  BY <1>5 DEF StackShrinks
<1> QED
  BY <1>3, <1>5, <1>6, <1>9, <1>10, <1>11, <1>12

(* When the unwind is done, popping the target's own entry.                *)
LEMMA TargetPops ==
    ASSUME IInv, UnwindDone, PopTarget
    PROVE  /\ StackShrinks
           /\ \A k \in 1..Len(span_stack') :
                ~(/\ span_stack'[k].rec = target.rec
                  /\ span_stack'[k].idx = target.idx)
<1>1. TypeOK /\ StackNamesOpenSpans /\ CallInProgress /\ pc = "unwind"
  BY DEF IInv, UnwindDone
<1>2. Len(span_stack) \in Nat /\ target.pos \in Nat
  BY <1>1 DEF TypeOK, Target
<1>3. CASE target.pos = 0
  BY <1>1, <1>3 DEF PopTarget, StackShrinks, CallInProgress
<1>4. CASE target.pos # 0
  <2>1. Len(span_stack) = target.pos
    BY <1>4 DEF UnwindDone
  <2>2. span_stack # <<>>
    BY <1>2, <1>4, <2>1
  <2>3. /\ Len(span_stack) \in 1..Len(span_stack)
        /\ span_stack' = stack_remove_at(Len(span_stack))
    BY <1>1, <1>4, <2>2, PopRemoves DEF PopTarget
  <2>4. /\ span_stack[Len(span_stack)].rec = target.rec
        /\ span_stack[Len(span_stack)].idx = target.idx
    BY <1>1, <1>4, <2>1 DEF CallInProgress
  <2> QED
    BY <1>1, <2>3, <2>4, RemovedGone DEF StackShrinks
<1> QED
  BY <1>3, <1>4


(* Every step keeps the stack naming open spans, each once.                *)
LEMMA StackStep ==
    ASSUME IInv, [Next]_vars
    PROVE  StackNamesOpenSpans'
<1>0. TypeOK /\ StackNamesOpenSpans /\ Len(span_stack) \in Nat
  BY DEF IInv, TypeOK
<1>1. ASSUME NEW d \in BOOLEAN, NEW ss \in BOOLEAN, start_nrec(d, ss)
      PROVE  StackNamesOpenSpans'
  <2>1. FirstNrec \in NrecIdx /\ nrecs[FirstNrec].gen = 0
    BY <1>1, FirstNrecFree DEF start_nrec, IInv
  <2>2. next_gen # 0
    BY <1>0, NextGenType DEF Gen
  <2>3. /\ nrecs'[FirstNrec].gen # 0
        /\ nrecs'[FirstNrec].detached = d
        /\ \A j \in NrecIdx : j # FirstNrec => nrecs'[j] = nrecs[j]
        /\ slots' = slots
    BY <1>0, <1>1, <2>1, <2>2 DEF start_nrec, TypeOK, poolVars
  <2>4. \A k \in 1..Len(span_stack) :
          /\ ~(span_stack[k].rec = FALSE /\ span_stack[k].idx = FirstNrec)
          /\ Kept(span_stack[k].rec, span_stack[k].idx)
    BY <1>0, <2>1, <2>3 DEF StackNamesOpenSpans, OpenNrecs, Kept
  <2>5. CASE d
    BY <1>0, <1>1, <2>4, <2>5, StackKept DEF start_nrec, StackShrinks
  <2>6. CASE ~d
    <3>1. FirstNrec \in Nat /\ 0 \in Level
      BY <2>1, ConstantsAssumption DEF NrecIdx, Level
    <3>2. stack_push(FALSE, FirstNrec, FALSE, 0)
      BY <1>1, <2>6 DEF start_nrec
    <3>3. Len(span_stack) < MAX_STACK_DEPTH
      BY <1>1, <2>6 DEF start_nrec
    <3>4. FirstNrec \in OpenNrecs' /\ FALSE = nrecs'[FirstNrec].detached
      BY <2>1, <2>3, <2>6 DEF OpenNrecs
    <3> QED
      BY <1>0, <2>4, <3>1, <3>2, <3>3, <3>4, PushKept
  <2> QED
    BY <2>5, <2>6
<1>2. ASSUME NEW d \in BOOLEAN, NEW o, api_span_start(d, o)
      PROVE  StackNamesOpenSpans'
  <2>1. FreeSlot \in SlotIdx /\ slots[FreeSlot].gen = 0
    BY <1>2, FreeSlotFree DEF api_span_start, take_slot, IInv
  <2>2. next_gen # 0
    BY <1>0, NextGenType DEF Gen
  <2>3. /\ slots'[FreeSlot].gen # 0
        /\ slots'[FreeSlot].detached = d
        /\ ~slots'[FreeSlot].dispatching
        /\ \A j \in SlotIdx : j # FreeSlot => slots'[j] = slots[j]
        /\ nrecs' = nrecs
    BY <1>0, <1>2, <2>1, <2>2 DEF api_span_start, TypeOK, nrecVars
  <2>4. \A k \in 1..Len(span_stack) :
          /\ ~(span_stack[k].rec = TRUE /\ span_stack[k].idx = FreeSlot)
          /\ Kept(span_stack[k].rec, span_stack[k].idx)
    BY <1>0, <2>1, <2>3 DEF StackNamesOpenSpans, OpenSlots, Kept
  <2>5. CASE d
    BY <1>0, <1>2, <2>4, <2>5, StackKept DEF api_span_start, StackShrinks
  <2>6. CASE ~d
    <3>1. FreeSlot \in Nat /\ 0 \in Level
      BY <2>1, ConstantsAssumption DEF SlotIdx, Level
    <3>2. stack_push(TRUE, FreeSlot, FALSE, 0)
      BY <1>2, <2>6 DEF api_span_start
    <3>3. Len(span_stack) < MAX_STACK_DEPTH
      BY <1>2, <2>6 DEF api_span_start, StartAdmitted
    <3>4. /\ FreeSlot \in OpenSlots'
          /\ ~slots'[FreeSlot].dispatching
          /\ FALSE = slots'[FreeSlot].detached
      BY <2>1, <2>3, <2>6 DEF OpenSlots
    <3> QED
      BY <1>0, <2>4, <3>1, <3>2, <3>3, <3>4, PushKept
  <2> QED
    BY <2>5, <2>6
<1>3. ASSUME NEW r \in BOOLEAN, NEW x \in SlotIdx \union NrecIdx,
             api_span_activate(r, x)
      PROVE  StackNamesOpenSpans'
  <2>1. /\ x \in Nat /\ level \in Level
        /\ stack_push(r, x, TRUE, level)
        /\ Len(span_stack) < MAX_STACK_DEPTH
        /\ slots' = slots /\ nrecs' = nrecs
        /\ Resolves(r, x) /\ Detached(r, x)
        /\ stack_find(r, x) = 0
    <3>1. x \in Nat /\ level \in Level
      BY <1>0, ConstantsAssumption DEF TypeOK, SlotIdx, NrecIdx
    <3> QED
      BY <1>3, <3>1 DEF api_span_activate, poolVars, nrecVars
  <2>2. \A k \in 1..Len(span_stack) :
          /\ ~(span_stack[k].rec = r /\ span_stack[k].idx = x)
          /\ Kept(span_stack[k].rec, span_stack[k].idx)
    BY <1>0, <2>1, StackFind DEF Kept
  <2>3. IF r THEN /\ x \in OpenSlots' /\ ~slots'[x].dispatching
                  /\ TRUE = slots'[x].detached
             ELSE x \in OpenNrecs' /\ TRUE = nrecs'[x].detached
    <3>1. CASE r
      <4>1. x \in OpenSlots /\ slots[x].detached
        BY <2>1, <3>1 DEF Resolves, Detached
      <4>2. ~slots[x].dispatching
        BY <1>3, <4>1 DEF api_span_activate, Serving, call_refused, IInv,
                          DispatchAccounted
      <4>3. slots[x].detached \in BOOLEAN
        BY <1>0, <4>1 DEF TypeOK, Slot, OpenSlots
      <4> QED
        BY <2>1, <3>1, <4>1, <4>2, <4>3 DEF OpenSlots
    <3>2. CASE ~r
      <4>1. x \in OpenNrecs /\ nrecs[x].detached
        BY <2>1, <3>2 DEF Resolves, Detached
      <4>2. nrecs[x].detached \in BOOLEAN
        BY <1>0, <4>1 DEF TypeOK, Nrec, OpenNrecs
      <4> QED
        BY <2>1, <3>2, <4>1, <4>2 DEF OpenNrecs
    <3> QED
      BY <3>1, <3>2
  <2> QED
    BY <1>0, <2>1, <2>2, <2>3, PushKept
<1>4. ASSUME NEW r \in BOOLEAN, NEW x \in SlotIdx \union NrecIdx,
             api_span_discard(r, x)
      PROVE  StackNamesOpenSpans'
  <2>1. /\ StackShrinks
        /\ \A k \in 1..Len(span_stack') :
             ~(span_stack'[k].rec = r /\ span_stack'[k].idx = x)
    BY <1>0, <1>4, WithoutGone DEF api_span_discard
  <2>2. CASE r /\ release_slot(x, FALSE) /\ UNCHANGED nrecVars
    <3>1. x \in OpenSlots /\ Released(x, FALSE) /\ nrecs' = nrecs
      BY <1>4, <2>2
         DEF api_span_discard, DiscardFails, Resolves, Released, nrecVars
    <3> QED
      BY <2>1, <2>2, <3>1, ShrinkSlot
  <2>3. CASE ~r /\ free_nrec(x, FALSE) /\ UNCHANGED <<poolVars, owned>>
    <3>1. x \in OpenNrecs /\ slots' = slots
      BY <1>4, <2>3 DEF api_span_discard, DiscardFails, Resolves, poolVars
    <3> QED
      BY <2>1, <2>3, <3>1, ShrinkNrec
  <2>4. CASE UNCHANGED <<poolVars, nrecVars, owned, tally>>
    BY <2>1, <2>4, ShrinkQuiet DEF poolVars, nrecVars
  <2> QED
    BY <1>4, <2>2, <2>3, <2>4 DEF api_span_discard, DiscardFails
<1>5. CASE UnwindActivation
  BY <1>5, UnwindPops, ShrinkQuiet DEF UnwindActivation, poolVars, nrecVars
<1>6. CASE UnwindNrec
  <2>1. TopEntry.idx \in OpenNrecs /\ TopEntry.rec = FALSE /\ slots' = slots
    <3>1. Len(span_stack) \in 1..Len(span_stack)
      BY <1>6, UnwindPops DEF UnwindNrec
    <3>2. TopEntry.rec \in BOOLEAN
      <4>1. TopEntry \in Entry
        BY <1>0, <3>1 DEF TopEntry, TypeOK
      <4> QED
        BY <4>1 DEF Entry
    <3> QED
      BY <1>0, <1>6, <3>1, <3>2
         DEF UnwindNrec, TopEntry, StackNamesOpenSpans, poolVars
  <2>2. /\ StackShrinks
        /\ \A k \in 1..Len(span_stack') :
             ~(span_stack'[k].rec = FALSE /\ span_stack'[k].idx = TopEntry.idx)
    BY <1>6, <2>1, UnwindPops DEF UnwindNrec
  <2> QED
    BY <1>6, <2>1, <2>2, ShrinkNrec DEF UnwindNrec
<1>7. CASE UnwindSlot
  <2>1. TopEntry.rec = TRUE /\ nrecs' = nrecs
    <3>1. Len(span_stack) \in 1..Len(span_stack)
      BY <1>7, UnwindPops DEF UnwindSlot
    <3>2. TopEntry.rec \in BOOLEAN
      <4>1. TopEntry \in Entry
        BY <1>0, <3>1 DEF TopEntry, TypeOK
      <4> QED
        BY <4>1 DEF Entry
    <3> QED
      BY <1>7, <3>2 DEF UnwindSlot, nrecVars
  <2>2. /\ StackShrinks
        /\ \A k \in 1..Len(span_stack') :
             ~(span_stack'[k].rec = TRUE /\ span_stack'[k].idx = TopEntry.idx)
    BY <1>7, <2>1, UnwindPops DEF UnwindSlot
  <2>3. /\ TopEntry.idx \in OpenSlots
        /\ \/ Marked(TopEntry.idx)
           \/ Released(TopEntry.idx, FALSE)
           \/ Untouched
    BY <1>7, UnwindSlotTop, EndSlotEffect
  <2> QED
    BY <2>1, <2>2, <2>3, ShrinkSlot, ShrinkQuiet DEF Untouched
<1>8. CASE FinishDeactivate
  BY <1>8, TargetPops, ShrinkQuiet DEF FinishDeactivate, poolVars, nrecVars
<1>9. CASE FinishEndNrec
  <2>1. target.idx \in OpenNrecs /\ slots' = slots /\ target.rec = FALSE
    <3>1. target.rec \in BOOLEAN
      BY <1>0 DEF TypeOK, Target
    <3> QED
      BY <1>9, <3>1 DEF FinishEndNrec, UnwindDone, IInv, CallInProgress,
                        Resolves, poolVars
  <2>2. /\ StackShrinks
        /\ \A k \in 1..Len(span_stack') :
             ~(span_stack'[k].rec = FALSE /\ span_stack'[k].idx = target.idx)
    BY <1>9, <2>1, TargetPops DEF FinishEndNrec
  <2> QED
    BY <1>9, <2>1, <2>2, ShrinkNrec DEF FinishEndNrec
<1>10. CASE FinishEndSlot
  <2>1. target.rec = TRUE /\ nrecs' = nrecs
    <3>1. target.rec \in BOOLEAN
      BY <1>0 DEF TypeOK, Target
    <3> QED
      BY <1>10, <3>1 DEF FinishEndSlot, nrecVars
  <2>2. /\ StackShrinks
        /\ \A k \in 1..Len(span_stack') :
             ~(span_stack'[k].rec = TRUE /\ span_stack'[k].idx = target.idx)
    BY <1>10, <2>1, TargetPops DEF FinishEndSlot
  <2>3. /\ target.idx \in OpenSlots
        /\ \/ Marked(target.idx)
           \/ Released(target.idx, FALSE)
           \/ Untouched
    BY <1>10, FinishEndSlotTarget, EndSlotEffect
  <2> QED
    BY <2>1, <2>2, <2>3, ShrinkSlot, ShrinkQuiet DEF Untouched
<1>11. CASE HookReturns
  <2>1. /\ hook.slot \in OpenSlots /\ slots[hook.slot].dispatching
        /\ span_stack' = span_stack /\ nrecs' = nrecs
        /\ Released(hook.slot, hook.ret = "release")
    BY <1>11 DEF HookReturns, IInv, CallInProgress, Released, nrecVars
  <2>2. \A k \in 1..Len(span_stack) :
          ~(span_stack[k].rec = TRUE /\ span_stack[k].idx = hook.slot)
    BY <1>0, <2>1 DEF StackNamesOpenSpans
  <2>3. \E b \in BOOLEAN : Released(hook.slot, b)
    BY <2>1
  <2>4. StackShrinks
    BY <2>1 DEF StackShrinks
  <2> QED
    BY <2>1, <2>2, <2>3, <2>4, ShrinkSlot
<1>12. CASE DropNrecEntry \/ DropActivation
  <2>1. StackShrinks
    BY <1>12 DEF DropNrecEntry, DropActivation, StackShrinks,
                 NrecEntriesToDrop, ActivationsToDrop
  <2> QED
    BY <1>12, <2>1, ShrinkQuiet
       DEF DropNrecEntry, DropActivation, poolVars, nrecVars
<1>13. CASE DropNrec
  <2>1. PICK i \in NrecsToDrop : free_nrec(i, TRUE)
    BY <1>13 DEF DropNrec
  <2>2. i \in OpenNrecs /\ slots' = slots /\ StackShrinks
    BY <1>13 DEF NrecsToDrop, DropNrec, poolVars, StackShrinks
  <2>3. \A k \in 1..Len(span_stack') :
          ~(span_stack'[k].rec = FALSE /\ span_stack'[k].idx = i)
    BY <1>13 DEF DropNrec, NrecEntriesToDrop, NrecsToDrop
  <2> QED
    BY <2>1, <2>2, <2>3, ShrinkNrec
<1>14. ASSUME NEW o \in Owner, NEW i \in SlotIdx,
              ReleaseLeaked(o, i) \/ ReleaseAborted(o, i)
       PROVE  StackNamesOpenSpans'
  <2>1. /\ StackShrinks
        /\ \A k \in 1..Len(span_stack') :
             ~(span_stack'[k].rec = TRUE /\ span_stack'[k].idx = i)
    BY <1>0, <1>14, WithoutGone DEF ReleaseLeaked, ReleaseAborted, Releasing
  <2>2. i \in OpenSlots /\ nrecs' = nrecs
    BY <1>14, ReleasedIsOpen DEF ReleaseLeaked, ReleaseAborted, nrecVars
  <2>3. Released(i, TRUE) \/ Marked(i)
    BY <1>14, DispatchEffect
       DEF ReleaseLeaked, ReleaseAborted, Released, NotExported
  <2> QED
    BY <2>1, <2>2, <2>3, ShrinkSlot
<1>15. ASSUME NEW r \in BOOLEAN, NEW x \in SlotIdx \union NrecIdx,
              api_span_end(r, x) \/ api_span_deactivate(r, x)
       PROVE  StackNamesOpenSpans'
  BY <1>15, ShrinkQuiet DEF api_span_end, api_span_deactivate, StackShrinks,
                            poolVars, nrecVars
<1>16. ASSUME NEW d, NEW o, StartContextError(d, o)
       PROVE  StackNamesOpenSpans'
  BY <1>16, ShrinkQuiet DEF StartContextError, StackShrinks, nrecVars
<1>17. CASE Transactions
  BY <1>17, ShrinkQuiet
     DEF Transactions, BeginLevel, OpenPortal, DropPortal, CommitTop,
         CommitSub, Abort, ProcExit, Exited, Gone, vars, StackShrinks,
         poolVars, nrecVars
<1>18. CASE HookFatal \/ NrecsDropped \/ ActivationsDropped \/ ReleaseDone
  BY <1>18, ShrinkQuiet DEF HookFatal, NrecsDropped, ActivationsDropped,
                            ReleaseDone, StackShrinks, poolVars, nrecVars
<1>19. CASE UNCHANGED vars
  BY <1>19, ShrinkQuiet DEF vars, StackShrinks, poolVars, nrecVars
<1> QED
  BY <1>1, <1>2, <1>3, <1>4, <1>5, <1>6, <1>7, <1>8, <1>9, <1>10, <1>11,
     <1>12, <1>13, <1>14, <1>15, <1>16, <1>17, <1>18, <1>19
     DEF Next, Calls, Proceed


(***************************************************************************)
(* Calls in progress.                                                      *)
(***************************************************************************)

(* A call is only served with no hook running and no slot dispatching.     *)
LEMMA ServingQuiet ==
    ASSUME IInv, Serving
    PROVE  pc = "idle" /\ \A i \in OpenSlots : ~slots[i].dispatching
  BY DEF IInv, Serving, call_refused, DispatchAccounted, TypeOK

(* Every step keeps dispatch_depth and the dispatching marks consistent.   *)
LEMMA DispatchStep ==
    ASSUME IInv, [Next]_vars
    PROVE  DispatchAccounted'
<1>0. TypeOK /\ DispatchAccounted /\ dispatch_depth \in Int
  BY DEF IInv, TypeOK
<1>1. CASE UNCHANGED <<slots, dispatch_depth, exiting>> /\ pc # "hook" /\ pc' # "hook"
  BY <1>0, <1>1 DEF DispatchAccounted, OpenSlots
<1>2. ASSUME NEW i \in OpenSlots, NEW b, Released(i, b),
             UNCHANGED <<dispatch_depth, exiting>>, pc # "hook", pc' # "hook"
      PROVE  DispatchAccounted'
  <2>1. /\ slots'[i].gen = 0
        /\ \A j \in SlotIdx : j # i => slots'[j] = slots[j]
    BY <1>0, <1>2, ReleaseEffect DEF OpenSlots, Released
  <2> QED
    BY <1>0, <1>2, <2>1 DEF DispatchAccounted, OpenSlots
<1>3. ASSUME NEW i \in OpenSlots, NEW c, ~slots[i].dispatching, Marked(i),
             dispatch_depth' = dispatch_depth + 1, exiting' = exiting,
             pc # "hook", pc' = "hook", hook' = [slot |-> i, ret |-> c]
      PROVE  DispatchAccounted'
  <2>1. /\ slots'[i].gen = slots[i].gen
        /\ \A j \in SlotIdx : j # i => slots'[j] = slots[j]
    BY <1>0, <1>3, MarkEffect DEF OpenSlots
  <2>2. hook'.slot = i
    BY <1>3
  <2>3. \A j \in OpenSlots' : slots'[j].dispatching =>
          exiting' # "no" \/ hook'.slot = j
    BY <1>0, <1>3, <2>1, <2>2 DEF DispatchAccounted, OpenSlots
  <2> QED
    BY <1>0, <1>3, <2>3 DEF DispatchAccounted
<1>4. ASSUME NEW d \in BOOLEAN, NEW ss \in BOOLEAN, start_nrec(d, ss)
      PROVE  DispatchAccounted'
  BY <1>1, <1>4, ServingQuiet DEF start_nrec, poolVars, callVars
<1>5. ASSUME NEW d \in BOOLEAN, NEW o, api_span_start(d, o)
      PROVE  DispatchAccounted'
  <2>1. pc = "idle" /\ pc' = "idle" /\ UNCHANGED <<dispatch_depth, exiting>>
    BY <1>5, ServingQuiet DEF api_span_start, StartAdmitted, callVars
  <2>2. FreeSlot \in SlotIdx
    BY <1>5, FreeSlotFree DEF api_span_start, take_slot, IInv
  <2>3. /\ ~slots'[FreeSlot].dispatching
        /\ \A j \in SlotIdx : j # FreeSlot => slots'[j] = slots[j]
    BY <1>0, <1>5, <2>2 DEF api_span_start, TypeOK
  <2> QED
    BY <1>0, <2>1, <2>3 DEF DispatchAccounted, OpenSlots
<1>6. ASSUME NEW d, NEW o, StartContextError(d, o)
      PROVE  DispatchAccounted'
  BY <1>1, <1>6, ServingQuiet DEF StartContextError, StartAdmitted, callVars
<1>7. ASSUME NEW r \in BOOLEAN, NEW x \in SlotIdx \union NrecIdx,
             \/ api_span_end(r, x) \/ api_span_deactivate(r, x)
             \/ api_span_activate(r, x)
      PROVE  DispatchAccounted'
  BY <1>1, <1>7, ServingQuiet
     DEF api_span_end, api_span_deactivate, api_span_activate, poolVars,
         callVars
<1>8. ASSUME NEW r \in BOOLEAN, NEW x \in SlotIdx \union NrecIdx,
             api_span_discard(r, x)
      PROVE  DispatchAccounted'
  <2>1. pc = "idle" /\ pc' = "idle" /\ UNCHANGED <<dispatch_depth, exiting>>
    BY <1>8, ServingQuiet DEF api_span_discard, DiscardFails, callVars
  <2>2. CASE UNCHANGED slots
    BY <1>1, <2>1, <2>2
  <2>3. CASE r /\ release_slot(x, FALSE)
    BY <1>2, <1>8, <2>1, <2>3
       DEF api_span_discard, DiscardFails, Resolves, Released
  <2> QED
    BY <1>8, <2>2, <2>3 DEF api_span_discard, DiscardFails, poolVars
<1>9. ASSUME NEW i \in OpenSlots, ~slots[i].dispatching,
             NEW c \in {"idle", "unwind"}, end_slot(i, c), pc = "unwind",
             exiting' = exiting
      PROVE  DispatchAccounted'
  <2>1. CASE Resume("idle") /\ UNCHANGED <<poolVars, dispatch_depth>>
    BY <1>1, <1>9, <2>1 DEF Resume, poolVars
  <2>2. CASE dispatch_span(i, c, FALSE)
    <3>1. CASE Marked(i) /\ pc' = "hook" /\ hook' = [slot |-> i, ret |-> c]
      <4>1. dispatch_depth' = dispatch_depth + 1
        BY <1>9, <2>2, <3>1 DEF dispatch_span, Resume
      <4> QED
        BY <1>3, <1>9, <3>1, <4>1
    <3>2. CASE Released(i, FALSE) /\ Resume(c)
      <4>1. pc' = c /\ pc' # "hook" /\ dispatch_depth' = dispatch_depth
        BY <1>9, <2>2, <3>2 DEF dispatch_span, Resume
      <4> QED
        BY <1>2, <1>9, <3>2, <4>1
    <3> QED
      BY <1>9, <2>2, <3>1, <3>2, DispatchEffect
  <2> QED
    BY <1>9, <2>1, <2>2 DEF end_slot
<1>10. CASE UnwindSlot
  BY <1>9, <1>10, UnwindSlotTop DEF UnwindSlot, Unwinding
<1>11. CASE FinishEndSlot
  BY <1>9, <1>11, FinishEndSlotTarget DEF FinishEndSlot, UnwindDone
<1>12. CASE UnwindActivation \/ UnwindNrec \/ FinishDeactivate \/ FinishEndNrec
  BY <1>1, <1>12
     DEF UnwindActivation, UnwindNrec, FinishDeactivate, FinishEndNrec,
         Unwinding, UnwindDone, Resume, poolVars, callVars
<1>13. CASE HookReturns
  <2>1. /\ hook.slot \in OpenSlots /\ pc = "hook" /\ dispatch_depth > 0
        /\ dispatch_depth' = dispatch_depth - 1
        /\ exiting' = exiting /\ pc' = hook.ret
        /\ release_slot(hook.slot, hook.ret = "release")
    BY <1>0, <1>13
       DEF HookReturns, IInv, CallInProgress, DispatchAccounted, Resume
  <2>2. /\ slots'[hook.slot].gen = 0
        /\ \A j \in SlotIdx : j # hook.slot => slots'[j] = slots[j]
    BY <1>0, <2>1, ReleaseEffect DEF OpenSlots
  <2>3. pc' # "hook"
    BY <1>0, <2>1 DEF TypeOK, Hook
  <2> QED
    BY <1>0, <2>1, <2>2, <2>3 DEF DispatchAccounted, OpenSlots
<1>14. CASE HookFatal
  BY <1>0, <1>14 DEF HookFatal, DispatchAccounted, Resume, poolVars, OpenSlots
<1>15. CASE BeginLevel \/ OpenPortal \/ CommitTop \/ CommitSub \/ Abort
            \/ \E c \in BOOLEAN : DropPortal(c)
  BY <1>1, <1>15 DEF BeginLevel, OpenPortal, CommitTop, CommitSub, Abort,
                     DropPortal, XactIdle, poolVars, callVars
<1>16. CASE ProcExit \/ Exited
  BY <1>0, <1>16 DEF ProcExit, Exited, XactIdle, poolVars, callVars,
                     DispatchAccounted, OpenSlots
<1>17. CASE \/ DropNrecEntry \/ DropNrec \/ NrecsDropped \/ DropActivation
            \/ ActivationsDropped \/ ReleaseDone
  BY <1>1, <1>17 DEF DropNrecEntry, DropNrec, NrecsDropped, DropActivation,
                     ActivationsDropped, ReleaseDone, poolVars, callVars
<1>18. ASSUME NEW o \in Owner, NEW i \in SlotIdx, ReleaseLeaked(o, i)
       PROVE  DispatchAccounted'
  BY <1>2, <1>18, ReleasedIsOpen
     DEF ReleaseLeaked, Releasing, Released, callVars
<1>19. ASSUME NEW o \in Owner, NEW i \in SlotIdx, ReleaseAborted(o, i)
       PROVE  DispatchAccounted'
  <2>1. /\ i \in OpenSlots /\ ~slots[i].dispatching
        /\ pc = "release" /\ exiting' = exiting
        /\ dispatch_span(i, "release", TRUE)
    BY <1>19, ReleasedIsOpen DEF ReleaseAborted, NotExported, Releasing
  <2>2. CASE Marked(i) /\ pc' = "hook" /\ hook' = [slot |-> i, ret |-> "release"]
    <3>1. dispatch_depth' = dispatch_depth + 1
      BY <2>1, <2>2 DEF dispatch_span, Resume
    <3> QED
      BY <1>3, <2>1, <2>2, <3>1
  <2>3. CASE Released(i, TRUE) /\ Resume("release")
    <3>1. pc' = "release" /\ dispatch_depth' = dispatch_depth
      BY <2>1, <2>3 DEF dispatch_span, Resume
    <3> QED
      BY <1>2, <2>1, <2>3, <3>1
  <2> QED
    BY <2>1, <2>2, <2>3, DispatchEffect
<1>20. CASE UNCHANGED vars
  BY <1>0, <1>20 DEF vars, poolVars, callVars, DispatchAccounted, OpenSlots
<1> QED
  BY <1>4, <1>5, <1>6, <1>7, <1>8, <1>10, <1>11, <1>12, <1>13, <1>14, <1>15,
     <1>16, <1>17, <1>18, <1>19, <1>20
     DEF Next, Calls, Transactions, Proceed, Gone


TargetHeld ==
    /\ Resolves(target.rec, target.idx)
    /\ target.rec => ~slots[target.idx].dispatching
    /\ target.pos <= Len(span_stack)
    /\ target.pos # 0 => /\ span_stack[target.pos].rec = target.rec
                         /\ span_stack[target.pos].idx = target.idx
    /\ target.pos = 0 => \A k \in 1..Len(span_stack) :
                            ~(/\ span_stack[k].rec = target.rec
                              /\ span_stack[k].idx = target.idx)

(* The target survives a step of an unwind that ends another span.         *)
LEMMA TargetKept ==
    ASSUME IInv, Unwinding, span_stack' = Pop(span_stack), target' = target,
           Kept(target.rec, target.idx)
    PROVE  TargetHeld'
<1>1. TargetHeld
  BY DEF IInv, Unwinding, CallInProgress, TargetHeld
<1>2. /\ target.pos # 0
      /\ target.pos <= Len(span_stack')
      /\ span_stack'[target.pos] = span_stack[target.pos]
  BY UnwindPops
<1>3. Resolves(target.rec, target.idx)'
  BY <1>1 DEF TargetHeld, Resolves, OpenSlots, OpenNrecs, Kept
<1> QED
  BY <1>1, <1>2, <1>3 DEF TargetHeld, Kept

(* Every step keeps what a call in progress relies on.                     *)
LEMMA CallStep ==
    ASSUME IInv, [Next]_vars
    PROVE  CallInProgress'
<1>0. TypeOK /\ StackNamesOpenSpans /\ CallInProgress
  BY DEF IInv
<1>1. CASE pc' # "unwind" /\ pc' # "hook"
  BY <1>1 DEF CallInProgress
<1>2. CASE pc' = "unwind" /\ TargetHeld'
  BY <1>2 DEF CallInProgress, TargetHeld
<1>3. ASSUME NEW i \in OpenSlots, Marked(i), pc' = "hook",
             NEW c, hook' = [slot |-> i, ret |-> c],
             c = "unwind" => TargetHeld'
      PROVE  CallInProgress'
  <2>1. hook'.slot = i /\ hook'.ret = c
    BY <1>3
  <2>2. i \in OpenSlots' /\ slots'[i].dispatching
    BY <1>0, <1>3, MarkEffect DEF OpenSlots
  <2> QED
    BY <1>3, <2>1, <2>2 DEF CallInProgress, TargetHeld
<1>4. ASSUME NEW r \in BOOLEAN, NEW x \in SlotIdx \union NrecIdx,
             api_span_end(r, x) \/ api_span_deactivate(r, x)
      PROVE  CallInProgress'
  <2>1. /\ pc' = "unwind" /\ Resolves(r, x)
        /\ target'.pos = stack_find(r, x)
        /\ target'.rec = r /\ target'.idx = x
        /\ UNCHANGED <<slots, nrecs, span_stack>>
    BY <1>4 DEF api_span_end, api_span_deactivate, poolVars, nrecVars
  <2>2. Resolves(r, x)'
    BY <2>1 DEF Resolves, OpenSlots, OpenNrecs
  <2>3. r => ~slots[x].dispatching
    BY <1>4, <2>1, ServingQuiet
       DEF api_span_end, api_span_deactivate, Resolves
  <2>4. /\ stack_find(r, x) <= Len(span_stack)
        /\ stack_find(r, x) # 0 =>
             /\ span_stack[stack_find(r, x)].rec = r
             /\ span_stack[stack_find(r, x)].idx = x
        /\ stack_find(r, x) = 0 =>
             \A k \in 1..Len(span_stack) :
                ~(span_stack[k].rec = r /\ span_stack[k].idx = x)
    <3>1. Len(span_stack) \in Nat
      BY <1>0 DEF TypeOK
    <3> QED
      BY <1>0, <3>1, StackFind
  <2>5. TargetHeld'
    <3>1. Resolves(target.rec, target.idx)'
      BY <2>1, <2>2 DEF Resolves, OpenSlots, OpenNrecs
    <3> QED
      BY <2>1, <2>3, <2>4, <3>1 DEF TargetHeld
  <2> QED
    BY <1>2, <2>1, <2>5
<1>5. CASE UnwindActivation
  <2>1. Kept(target.rec, target.idx) /\ target' = target /\ pc' = "unwind"
    BY <1>5 DEF UnwindActivation, Unwinding, Kept, poolVars, nrecVars, callVars
  <2> QED
    BY <1>2, <1>5, <2>1, TargetKept DEF UnwindActivation
<1>6. CASE UnwindNrec
  <2>1. TopEntry.idx \in OpenNrecs
    <3>1. Len(span_stack) \in 1..Len(span_stack)
      BY <1>6, UnwindPops DEF UnwindNrec
    <3> QED
      BY <1>0, <1>6, <3>1 DEF UnwindNrec, TopEntry, StackNamesOpenSpans
  <2>2. \A j \in NrecIdx : j # TopEntry.idx => nrecs'[j] = nrecs[j]
    BY <1>0, <1>6, <2>1, FreeNrecEffect DEF UnwindNrec, OpenNrecs
  <2>3. /\ Resolves(target.rec, target.idx)
        /\ ~(TopEntry.rec = target.rec /\ TopEntry.idx = target.idx)
        /\ ~TopEntry.rec
    BY <1>0, <1>6, UnwindPops DEF UnwindNrec, Unwinding, CallInProgress
  <2>4. TopEntry.rec \in BOOLEAN /\ target.rec \in BOOLEAN
    <3>1. Len(span_stack) \in 1..Len(span_stack)
      BY <1>6, UnwindPops DEF UnwindNrec
    <3>2. TopEntry \in Entry /\ target \in Target
      BY <1>0, <3>1 DEF TopEntry, TypeOK
    <3> QED
      BY <3>2 DEF Entry, Target
  <2>5. Kept(target.rec, target.idx)
    BY <1>6, <2>2, <2>3, <2>4
       DEF Kept, Resolves, OpenNrecs, UnwindNrec, poolVars
  <2>6. target' = target /\ pc' = "unwind"
    BY <1>6 DEF UnwindNrec, Unwinding, callVars
  <2> QED
    BY <1>2, <1>6, <2>5, <2>6, TargetKept DEF UnwindNrec
<1>7. CASE UnwindSlot
  <2>1. /\ TopEntry.idx \in OpenSlots
        /\ \/ Marked(TopEntry.idx) /\ pc' = "hook" /\ target' = target
              /\ hook' = [slot |-> TopEntry.idx, ret |-> "unwind"]
           \/ Released(TopEntry.idx, FALSE) /\ Resume("unwind")
           \/ pc' = "idle"
    BY <1>7, UnwindSlotTop, EndSlotEffect
  <2>2. /\ Resolves(target.rec, target.idx)
        /\ ~(TopEntry.rec = target.rec /\ TopEntry.idx = target.idx)
        /\ TopEntry.rec
    BY <1>0, <1>7, UnwindPops DEF UnwindSlot, Unwinding, CallInProgress
  <2>3. TopEntry.rec \in BOOLEAN /\ target.rec \in BOOLEAN
    <3>1. Len(span_stack) \in 1..Len(span_stack)
      BY <1>7, UnwindPops DEF UnwindSlot
    <3>2. TopEntry \in Entry /\ target \in Target
      BY <1>0, <3>1 DEF TopEntry, TypeOK
    <3> QED
      BY <3>2 DEF Entry, Target
  <2>4. ASSUME Marked(TopEntry.idx) \/ Released(TopEntry.idx, FALSE),
               target' = target
        PROVE  TargetHeld'
    <3>1. TopEntry.idx \in SlotIdx
      BY <2>1 DEF OpenSlots
    <3>2. \A j \in SlotIdx : j # TopEntry.idx => slots'[j] = slots[j]
      BY <1>0, <2>4, <3>1, OthersKept
    <3>3. Kept(target.rec, target.idx)
      BY <1>7, <2>2, <2>3, <3>2
         DEF Kept, Resolves, OpenSlots, UnwindSlot, nrecVars
    <3> QED
      BY <1>7, <2>4, <3>3, TargetKept DEF UnwindSlot
  <2>5. CASE Marked(TopEntry.idx) /\ pc' = "hook" /\ target' = target
             /\ hook' = [slot |-> TopEntry.idx, ret |-> "unwind"]
    BY <1>3, <2>1, <2>4, <2>5
  <2>6. CASE Released(TopEntry.idx, FALSE) /\ Resume("unwind")
    BY <1>2, <2>4, <2>6 DEF Resume
  <2> QED
    BY <1>1, <2>1, <2>5, <2>6
<1>8. CASE FinishEndSlot
  <2>1. /\ target.idx \in OpenSlots
        /\ \/ Marked(target.idx) /\ pc' = "hook"
              /\ hook' = [slot |-> target.idx, ret |-> "idle"]
           \/ Resume("idle")
           \/ pc' = "idle"
    BY <1>8, FinishEndSlotTarget, EndSlotEffect
  <2> QED
    BY <1>1, <1>3, <2>1 DEF Resume
<1>9. CASE HookReturns
  <2>1. CASE hook.ret # "unwind"
    <3>1. pc' = hook.ret /\ hook.ret # "hook"
      BY <1>0, <1>9 DEF HookReturns, Resume, TypeOK, Hook
    <3> QED
      BY <1>1, <2>1, <3>1
  <2>2. CASE hook.ret = "unwind"
    <3>1. /\ pc' = "unwind" /\ target' = target /\ TargetHeld
          /\ UNCHANGED <<nrecs, span_stack>>
          /\ release_slot(hook.slot, FALSE)
          /\ hook.slot \in OpenSlots /\ slots[hook.slot].dispatching
      BY <1>0, <1>9, <2>2
         DEF HookReturns, Resume, CallInProgress, TargetHeld, nrecVars
    <3>2. \A j \in SlotIdx : j # hook.slot => slots'[j] = slots[j]
      BY <1>0, <3>1, ReleaseEffect DEF OpenSlots
    <3>3. Kept(target.rec, target.idx)
      BY <3>1, <3>2 DEF Kept, TargetHeld, Resolves, OpenSlots
    <3>4. Resolves(target.rec, target.idx)'
      BY <3>1, <3>3 DEF TargetHeld, Resolves, OpenSlots, OpenNrecs, Kept
    <3>5. TargetHeld'
      BY <3>1, <3>3, <3>4 DEF TargetHeld, Kept
    <3> QED
      BY <1>2, <3>1, <3>5
  <2> QED
    BY <2>1, <2>2
<1>10. ASSUME NEW o \in Owner, NEW i \in SlotIdx, ReleaseAborted(o, i)
       PROVE  CallInProgress'
  <2>1. /\ i \in OpenSlots
        /\ \/ Marked(i) /\ pc' = "hook"
              /\ hook' = [slot |-> i, ret |-> "release"]
           \/ Resume("release")
    BY <1>10, ReleasedIsOpen, DispatchEffect DEF ReleaseAborted, NotExported
  <2> QED
    BY <1>1, <1>3, <2>1 DEF Resume
<1>11. ASSUME Serving, UNCHANGED callVars
       PROVE  CallInProgress'
  BY <1>1, <1>11, ServingQuiet DEF callVars
<1>12. CASE \/ \E d, ss \in BOOLEAN : start_nrec(d, ss)
            \/ \E d \in BOOLEAN, o \in LiveOwners \union {NoOwner} :
                 api_span_start(d, o) \/ StartContextError(d, o)
            \/ \E r \in BOOLEAN, x \in SlotIdx \union NrecIdx :
                 api_span_discard(r, x) \/ api_span_activate(r, x)
  BY <1>11, <1>12 DEF start_nrec, api_span_start, StartContextError,
                      StartAdmitted, api_span_discard, api_span_activate
<1>13. CASE FinishDeactivate \/ FinishEndNrec \/ HookFatal
  BY <1>1, <1>13 DEF FinishDeactivate, FinishEndNrec, HookFatal, Resume
<1>14. CASE \/ BeginLevel \/ OpenPortal \/ CommitTop \/ CommitSub \/ Abort
            \/ ProcExit \/ Exited \/ \E c \in BOOLEAN : DropPortal(c)
  BY <1>1, <1>14 DEF BeginLevel, OpenPortal, CommitTop, CommitSub, Abort,
                     ProcExit, Exited, DropPortal, XactIdle, callVars
<1>15. CASE \/ DropNrecEntry \/ DropNrec \/ NrecsDropped \/ DropActivation
            \/ ActivationsDropped \/ ReleaseDone
            \/ \E o \in Owner, i \in SlotIdx : ReleaseLeaked(o, i)
  BY <1>1, <1>15 DEF DropNrecEntry, DropNrec, NrecsDropped, DropActivation,
                     ActivationsDropped, ReleaseDone, ReleaseLeaked,
                     Releasing, callVars
<1>16. CASE UNCHANGED vars
  BY <1>0, <1>16 DEF vars, CallInProgress, callVars, poolVars, nrecVars,
                     Resolves, OpenSlots, OpenNrecs
<1> QED
  BY <1>4, <1>5, <1>6, <1>7, <1>8, <1>9, <1>10, <1>12, <1>13, <1>14, <1>15,
     <1>16
     DEF Next, Calls, Transactions, Proceed, Gone

(***************************************************************************)
(* The inductive invariant and what follows from it.                       *)
(***************************************************************************)

(* The invariant holds before the first call.                              *)
LEMMA InitIInv ==
    ASSUME Init
    PROVE  IInv
<1>1. TypeOK
  <2>1. slots \in [SlotIdx -> Slot]
    BY ConstantsAssumption DEF Init, ZeroSlot, Slot, NoOwner, PORTAL
  <2>2. nrecs \in [NrecIdx -> Nrec]
    BY ConstantsAssumption DEF Init, ZeroNrec, Nrec, Level
  <2>3. owned \in [Owner -> SUBSET (SlotIdx \X Gen)]
    BY DEF Init
  <2>4. gen_counter \in 0..GEN_MASK
    BY ConstantsAssumption DEF Init
  <2>5. /\ slots_used \in 0..MAX_OPEN_SPANS /\ nrecs_used \in 0..MAX_STACK_DEPTH
        /\ level \in Level /\ portal \in Level
    BY ConstantsAssumption DEF Init, Level
  <2>6. emits \in [Gen -> Nat] /\ tally \in [TallyField -> Nat]
    BY DEF Init
  <2> QED
    BY <2>1, <2>2, <2>3, <2>4, <2>5, <2>6, NoCallType DEF Init, TypeOK, Stages
<1>2. /\ \A i \in SlotIdx : slots[i].gen = 0
      /\ \A i \in NrecIdx : nrecs[i].gen = 0
  BY DEF Init, ZeroSlot, ZeroNrec
<1>3. \A i \in SlotIdx \union NrecIdx : i \in Nat
  BY ConstantsAssumption DEF SlotIdx, NrecIdx
<1>4. Len(slot_free) = 0 /\ Len(nrec_free) = 0 /\ Len(span_stack) = 0
  BY DEF Init
<1>5. SlotFreeListExact /\ NrecFreeListExact /\ NeverUsedIsFree
  BY <1>2, <1>3, <1>4
     DEF Init, SlotFreeListExact, NrecFreeListExact, NeverUsedIsFree
<1>6. StackNamesOpenSpans
  BY <1>4, ConstantsAssumption DEF StackNamesOpenSpans
<1>7. CallInProgress /\ DispatchAccounted
  BY <1>2 DEF Init, CallInProgress, DispatchAccounted, OpenSlots
<1>8. UnexportedWhileOpen /\ ExportAtMostOnce
  BY <1>2 DEF Init, UnexportedWhileOpen, ExportAtMostOnce, OpenSlots
<1> QED
  BY <1>1, <1>5, <1>6, <1>7, <1>8 DEF IInv

(* Every step, of any caller or of a transaction's end, keeps the          *)
(* invariant.                                                              *)
LEMMA StepIInv ==
    ASSUME IInv, [Next]_vars
    PROVE  IInv'
  BY TypeStep, PoolStep, NrecStep, StackStep, CallStep, DispatchStep,
     ExportStep
     DEF IInv, PoolInv, NrecInv, NeverUsedIsFree, ExportInv

(* The inductive invariant holds in every reachable state of the producer. *)
THEOREM Inductive == Spec => []IInv
<1>1. Init => IInv
  BY InitIInv
<1>2. IInv /\ [Next]_vars => IInv'
  BY StepIInv
<1> QED
  BY <1>1, <1>2, PTL DEF Spec

(* Whatever the pool and stack sizes: no list, stack or call ever names a  *)
(* slot or nrec outside its array.                                         *)
THEOREM TypeCorrect == Spec => []TypeOK
<1>1. IInv => TypeOK
  BY DEF IInv
<1> QED
  BY <1>1, Inductive, PTL

(* dispatch_span passes no span to the emit hook twice: not after an ERROR *)
(* or FATAL from the hook, an unwind, or the releases at backend exit.     *)
THEOREM ExportedAtMostOnce == Spec => []ExportAtMostOnce
<1>1. IInv => ExportAtMostOnce
  BY DEF IInv
<1> QED
  BY <1>1, Inductive, PTL

(* release_slot, take_slot and its error path keep the free list exact.    *)
THEOREM SlotsNeverLost == Spec => []SlotFreeListExact
<1>1. IInv => SlotFreeListExact
  BY DEF IInv
<1> QED
  BY <1>1, Inductive, PTL

(* free_nrec and start_nrec keep theirs exact.                             *)
THEOREM NrecsNeverLost == Spec => []NrecFreeListExact
<1>1. IInv => NrecFreeListExact
  BY DEF IInv
<1> QED
  BY <1>1, Inductive, PTL

(* The active stack only ever holds open spans, each once.                 *)
THEOREM StackIsSound == Spec => []StackNamesOpenSpans
<1>1. IInv => StackNamesOpenSpans
  BY DEF IInv
<1> QED
  BY <1>1, Inductive, PTL


(***************************************************************************)
(* The producer implements SpanContract.  Each of the five kinds of step   *)
(* changes the status of at most one generation.                           *)
(***************************************************************************)

Holds(g) == \E i \in OpenSlots : slots[i].gen = g

(* The status of one generation.                                           *)
LEMMA StatusOf ==
    ASSUME NEW g \in Gen
    PROVE  ContractStatus[g] = IF emits[g] # 0 THEN "exported"
                               ELSE IF Holds(g) THEN "open"
                               ELSE IF g \in issued THEN "dropped"
                               ELSE "new"
  BY DEF ContractStatus, Holds

(* The refinement mapping in the next state, spelled out.                  *)
LEMMA StatusOfNext ==
    ASSUME NEW g \in Gen
    PROVE  ContractStatus'[g] = IF emits'[g] # 0 THEN "exported"
                                ELSE IF Holds(g)' THEN "open"
                                ELSE IF g \in issued' THEN "dropped"
                                ELSE "new"
  BY DEF ContractStatus, Holds

(* The mapped variable changes at g only.                                  *)
LEMMA StatusChange ==
    ASSUME NEW g \in Gen, NEW v, ContractStatus'[g] = v,
           \A h \in Gen : h # g => ContractStatus'[h] = ContractStatus[h]
    PROVE  ContractStatus' = [ContractStatus EXCEPT ![g] = v]
<1>1. /\ ContractStatus = [h \in Gen |-> ContractStatus[h]]
      /\ ContractStatus' = [h \in Gen |-> ContractStatus'[h]]
  BY DEF ContractStatus
<1> QED
  BY <1>1

(* The mapped variable is unchanged if it is so at every generation.       *)
LEMMA StatusSame ==
    ASSUME \A h \in Gen : ContractStatus'[h] = ContractStatus[h]
    PROVE  ContractStatus' = ContractStatus
<1>1. /\ ContractStatus = [h \in Gen |-> ContractStatus[h]]
      /\ ContractStatus' = [h \in Gen |-> ContractStatus'[h]]
  BY DEF ContractStatus
<1> QED
  BY <1>1

(* Every step of the producer is a step of the contract or changes nothing *)
(* of it.                                                                  *)
LEMMA ContractStep ==
    ASSUME IInv, [Next]_vars
    PROVE  [Contract!Next]_(Contract!contractVars)
<1>0. TypeOK /\ UnexportedWhileOpen
  BY DEF IInv
<1>1. /\ emits \in [Gen -> Nat] /\ issued \subseteq Gen
      /\ \A i \in OpenSlots : i \in SlotIdx /\ slots[i].gen \in Gen
  BY <1>0, ConstantsAssumption DEF TypeOK, OpenSlots, Slot, Gen
<1>2. ASSUME UNCHANGED <<emits, issued>>, \A h \in Gen : Holds(h)' <=> Holds(h)
      PROVE  [Contract!Next]_(Contract!contractVars)
  <2>1. ContractStatus' = ContractStatus
    BY <1>2, StatusOf, StatusOfNext, StatusSame
  <2> QED
    BY <1>2, <2>1 DEF Contract!contractVars
<1>3. CASE Untouched /\ UNCHANGED issued
  BY <1>2, <1>3 DEF Untouched, Holds, OpenSlots
<1>4. CASE Untouched /\ take_gen
  <2>0. PICK n \in Gen : n = next_gen
    BY <1>0, NextGenType
  <2>1. n \notin issued /\ issued' = issued \union {n} /\ emits' = emits
    BY <1>4, <2>0 DEF take_gen, StartBound, Untouched
  <2>2. \A h \in Gen : Holds(h)' <=> Holds(h)
    BY <1>4 DEF Untouched, Holds, OpenSlots
  <2>3. emits[n] = 0 /\ ~Holds(n)
    BY <1>0, <2>1 DEF UnexportedWhileOpen, Holds
  <2>4. ContractStatus[n] = "new" /\ ContractStatus'[n] = "dropped"
    BY <2>1, <2>2, <2>3, StatusOf, StatusOfNext
  <2>5. \A h \in Gen : h # n => ContractStatus'[h] = ContractStatus[h]
    BY <2>1, <2>2, StatusOf, StatusOfNext
  <2>6. ContractStatus' = [ContractStatus EXCEPT ![n] = "dropped"]
    BY <2>1, <2>4, <2>5, StatusChange
  <2>7. Contract!Drop(n)
    BY <2>1, <2>4, <2>6 DEF Contract!Drop
  <2> QED
    BY <2>1, <2>7 DEF Contract!Next
<1>5. ASSUME NEW i \in OpenSlots, NEW b, Released(i, b)
      PROVE  [Contract!Next]_(Contract!contractVars)
  <2>0. PICK g \in Gen : g = slots[i].gen
    BY <1>1
  <2>1. /\ slots'[i].gen = 0
        /\ \A j \in SlotIdx : j # i => slots'[j] = slots[j]
    BY <1>0, <1>1, <1>5, ReleaseEffect DEF Released
  <2>2. g \in Gen /\ g \in issued /\ emits' = emits /\ issued' = issued
    BY <1>0, <1>5, <2>0 DEF UnexportedWhileOpen, Released
  <2>3. Holds(g) /\ ~Holds(g)'
    <3>1. \A j \in OpenSlots' : j # i /\ j \in OpenSlots /\ slots'[j] = slots[j]
      BY <2>1 DEF OpenSlots
    <3>2. \A j \in OpenSlots : j # i => slots[j].gen # g
      BY <1>0, <2>0 DEF UnexportedWhileOpen
    <3> QED
      BY <2>0, <3>1, <3>2 DEF Holds
  <2>4. \A h \in Gen : h # g => (Holds(h)' <=> Holds(h))
    BY <2>0, <2>1 DEF Holds, OpenSlots
  <2>5. \A h \in Gen : h # g => ContractStatus'[h] = ContractStatus[h]
    BY <2>2, <2>4, StatusOf, StatusOfNext
  <2>6. CASE emits[g] # 0
    <3>1. ContractStatus'[g] = ContractStatus[g]
      BY <2>2, <2>6, StatusOf, StatusOfNext
    <3>2. ContractStatus' = ContractStatus
      BY <2>5, <3>1, StatusSame
    <3> QED
      BY <2>2, <3>2 DEF Contract!contractVars
  <2>7. CASE emits[g] = 0
    <3>1. ContractStatus[g] = "open" /\ ContractStatus'[g] = "dropped"
      BY <2>2, <2>3, <2>7, StatusOf, StatusOfNext
    <3>2. ContractStatus' = [ContractStatus EXCEPT ![g] = "dropped"]
      BY <2>2, <2>5, <3>1, StatusChange
    <3>3. Contract!Drop(g)
      BY <2>2, <3>1, <3>2 DEF Contract!Drop
    <3> QED
      BY <2>2, <3>3 DEF Contract!Next
  <2> QED
    BY <2>6, <2>7
<1>6. ASSUME NEW i \in OpenSlots, Marked(i)
      PROVE  [Contract!Next]_(Contract!contractVars)
  <2>0. PICK g \in Gen : g = slots[i].gen
    BY <1>1
  <2>1. /\ slots'[i].gen = g
        /\ \A j \in SlotIdx : j # i => slots'[j] = slots[j]
    BY <1>0, <1>1, <1>6, <2>0, MarkEffect
  <2>2. g \in Gen /\ emits[g] = 0
    BY <1>0, <1>6, <2>0 DEF UnexportedWhileOpen, Marked
  <2>3. /\ emits' = [emits EXCEPT ![g] = @ + 1]
        /\ issued' = issued
    BY <1>6, <2>0 DEF Marked
  <2>4. emits'[g] = 1 /\ \A h \in Gen : h # g => emits'[h] = emits[h]
    BY <1>1, <2>2, <2>3
  <2>5. \A h \in Gen : Holds(h)' <=> Holds(h)
    BY <2>0, <2>1 DEF Holds, OpenSlots
  <2>6. Holds(g)
    BY <2>0 DEF Holds
  <2>7. ContractStatus[g] = "open" /\ ContractStatus'[g] = "exported"
    BY <2>2, <2>4, <2>6, StatusOf, StatusOfNext
  <2>8. \A h \in Gen : h # g => ContractStatus'[h] = ContractStatus[h]
    BY <2>3, <2>4, <2>5, StatusOf, StatusOfNext
  <2>9. ContractStatus' = [ContractStatus EXCEPT ![g] = "exported"]
    BY <2>2, <2>7, <2>8, StatusChange
  <2>10. Contract!Export(g)
    BY <2>3, <2>7, <2>9 DEF Contract!Export
  <2> QED
    BY <2>2, <2>10 DEF Contract!Next
<1>7. ASSUME NEW d, NEW o, api_span_start(d, o)
      PROVE  [Contract!Next]_(Contract!contractVars)
  <2>0. PICK n \in Gen : n = next_gen
    BY <1>0, NextGenType
  <2>1. FreeSlot \in SlotIdx /\ slots[FreeSlot].gen = 0
    BY FreeSlotFree, <1>7 DEF IInv, api_span_start, take_slot
  <2>2. /\ slots'[FreeSlot].gen = n
        /\ \A j \in SlotIdx : j # FreeSlot => slots'[j] = slots[j]
    BY <1>0, <1>7, <2>0, <2>1 DEF api_span_start, TypeOK
  <2>3. /\ n \in Gen /\ n \notin issued /\ n # 0
        /\ issued' = issued \union {n}
        /\ emits' = emits
    BY <1>7, <2>0 DEF api_span_start, take_gen, StartBound, Gen
  <2>4. emits[n] = 0 /\ ~Holds(n)
    BY <1>0, <2>3 DEF UnexportedWhileOpen, Holds
  <2>5. Holds(n)'
    BY <2>1, <2>2, <2>3 DEF Holds, OpenSlots
  <2>6. ASSUME NEW h \in Gen, h # n
        PROVE  Holds(h)' <=> Holds(h)
    <3>1. \A j \in OpenSlots : j # FreeSlot
      BY <2>1 DEF OpenSlots
    <3>2. \A j \in SlotIdx : j # FreeSlot => (j \in OpenSlots <=> j \in OpenSlots')
      BY <2>2 DEF OpenSlots
    <3> QED
      BY <2>2, <2>6, <3>1, <3>2 DEF Holds, OpenSlots
  <2>7. ContractStatus[n] = "new" /\ ContractStatus'[n] = "open"
    BY <2>3, <2>4, <2>5, StatusOf, StatusOfNext
  <2>8. \A h \in Gen : h # n => ContractStatus'[h] = ContractStatus[h]
    BY <2>3, <2>6, StatusOf, StatusOfNext
  <2>9. ContractStatus' = [ContractStatus EXCEPT ![n] = "open"]
    BY <2>3, <2>7, <2>8, StatusChange
  <2>10. Contract!Start(n)
    BY <2>3, <2>7, <2>9 DEF Contract!Start
  <2> QED
    BY <2>3, <2>10 DEF Contract!Next
<1>8. ASSUME NEW d, NEW o, StartContextError(d, o)
      PROVE  [Contract!Next]_(Contract!contractVars)
  BY <1>2, <1>8 DEF StartContextError, Holds, OpenSlots, histVars
<1> QED
  BY <1>3, <1>4, <1>5, <1>6, <1>7, <1>8, PoolEffect

(* The producer implements the contract: for any pool size, stack depth    *)
(* and nesting, a started span is exported exactly once or is dropped and  *)
(* never exported, and its handle never comes back to life.                *)
THEOREM Refinement == Spec => ImplementsContract
<1>1. Init => Contract!Init
  <2>1. ASSUME Init
        PROVE  ContractStatus = [g \in Gen |-> "new"]
    <3>1. /\ \A g \in Gen : emits[g] = 0
          /\ issued = {}
          /\ OpenSlots = {}
      BY <2>1 DEF Init, OpenSlots, ZeroSlot
    <3> QED
      BY <3>1 DEF ContractStatus
  <2> QED
    BY <2>1 DEF Init, Contract!Init
<1>2. IInv /\ [Next]_vars => [Contract!Next]_(Contract!contractVars)
  BY ContractStep
<1> QED
  BY <1>1, <1>2, Inductive, PTL DEF Spec, ImplementsContract, Contract!Spec

-----------------------------------------------------------------------------
(***************************************************************************)
(* Resource owners.  Beyond IInv it matters that no two owners remember    *)
(* the same span, that the span inside the hook is forgotten unless it is  *)
(* its owner that calls, that an open span has an owner that lives, and    *)
(* that the owners being released are the level's and its portal's.        *)
(***************************************************************************)

OneOwner == \A o, p \in Owner : owned[o] \intersect owned[p] # {} => o = p

HookForgotten ==
    pc = "hook" /\ hook.ret # "release" =>
        \A o \in Owner : <<hook.slot, slots[hook.slot].gen>> \notin owned[o]

OwnedWhileOpen ==
    \A i \in OpenSlots : \/ slots[i].session
                         \/ slots[i].dispatching
                         \/ slots[i].owner \in LiveOwners

InEnding == \/ pc \in {"drop_nrecs", "drop_activations", "release"}
            \/ pc = "hook" /\ hook.ret = "release"

EndingMatches ==
    InEnding => \/ /\ ending.lev = level /\ level > 0
                   /\ level \in ending.releasing
                   /\ ending.releasing \subseteq {level, PORTAL}
                \/ ending.lev = 0 /\ ending.releasing = {PORTAL}

(* The inductive invariant of the resource owners.                         *)
OwnInv ==
    /\ OwnersRemember
    /\ OneOwner
    /\ HookForgotten
    /\ OwnedWhileOpen
    /\ EndingMatches

(* No owner remembers the span any more, and the rest is as it was.        *)
Forgets(i) ==
    \A o \in Owner : owned'[o] = owned[o] \ {<<i, slots[i].gen>>}

(* Forgetting a span at the owner its slot names is forgetting it.         *)
LEMMA ForgetEffect ==
    ASSUME TypeOK, OwnersRemember, NEW i \in OpenSlots, ~slots[i].dispatching,
           ResourceOwnerForget(i)
    PROVE  Forgets(i)
<1>1. \A o \in Owner : <<i, slots[i].gen>> \in owned[o] => slots[i].owner = o
  BY DEF OwnersRemember
<1>2. owned \in [Owner -> SUBSET (SlotIdx \X Gen)]
  BY DEF TypeOK
<1>3. CASE slots[i].owner = NoOwner
  <2>1. owned' = owned /\ NoOwner \notin Owner
    BY <1>3 DEF ResourceOwnerForget, NoOwner, Owner
  <2> QED
    BY <1>1, <1>3, <2>1 DEF Forgets
<1>4. CASE slots[i].owner # NoOwner
  <2>1. owned' = [owned EXCEPT ![slots[i].owner] = @ \ {<<i, slots[i].gen>>}]
    BY <1>4 DEF ResourceOwnerForget
  <2> QED
    BY <1>1, <1>2, <2>1 DEF Forgets
<1> QED
  BY <1>3, <1>4

(* Forgetting it at one owner that remembers it is forgetting it.          *)
LEMMA DropEffect ==
    ASSUME TypeOK, OneOwner, NEW i, NEW o \in Owner,
           <<i, slots[i].gen>> \in owned[o],
           owned' = [owned EXCEPT ![o] = @ \ {<<i, slots[i].gen>>}]
    PROVE  Forgets(i)
<1>1. owned \in [Owner -> SUBSET (SlotIdx \X Gen)]
  BY DEF TypeOK
<1>2. \A p \in Owner : p # o => <<i, slots[i].gen>> \notin owned[p]
  BY DEF OneOwner
<1> QED
  BY <1>1, <1>2 DEF Forgets

(* The kinds of steps, as the owners see them.                             *)
Quiet == slots' = slots /\ owned' = owned

Leaves(i) == /\ \E b \in BOOLEAN : release_slot(i, b)
             /\ Forgets(i) /\ UNCHANGED coreVars

EntersHook(i) ==
    /\ Marked(i) /\ Forgets(i) /\ UNCHANGED coreVars
    /\ hook'.slot = i

EntersHookOwned(i) ==
    /\ Marked(i) /\ owned' = owned /\ UNCHANGED coreVars
    /\ hook'.ret = "release"

LEMMA EndSlotOwned ==
    ASSUME IInv, OwnInv, NEW i \in OpenSlots, ~slots[i].dispatching,
           NEW cont \in {"idle", "unwind"}, end_slot(i, cont),
           UNCHANGED coreVars
    PROVE  \/ Quiet /\ UNCHANGED coreVars /\ pc' = "idle"
           \/ Leaves(i) /\ pc' = cont
           \/ EntersHook(i) /\ pc' = "hook" /\ hook'.ret = cont
<1>1. TypeOK /\ OwnersRemember
  BY DEF IInv, OwnInv
<1>2. CASE ResourceOwnerForget(i) /\ dispatch_span(i, cont, FALSE)
  <2>1. Forgets(i)
    BY <1>1, <1>2, ForgetEffect
  <2>2. \/ Marked(i) /\ pc' = "hook" /\ hook' = [slot |-> i, ret |-> cont]
        \/ Released(i, FALSE) /\ Resume(cont)
    BY <1>2, DispatchEffect
  <2>3. CASE Marked(i) /\ pc' = "hook" /\ hook' = [slot |-> i, ret |-> cont]
    BY <2>1, <2>3 DEF EntersHook
  <2>4. CASE Released(i, FALSE) /\ Resume(cont)
    BY <2>1, <2>4 DEF Leaves, Released, Resume
  <2> QED
    BY <2>2, <2>3, <2>4
<1>3. CASE UNCHANGED <<poolVars, owned>> /\ Resume("idle")
  BY <1>3 DEF Quiet, poolVars, Resume
<1> QED
  BY <1>2, <1>3 DEF end_slot

(* Every step is of one of them.                                           *)
LEMMA OwnersEffect ==
    ASSUME IInv, OwnInv, [Next]_vars
    PROVE  \/ /\ Quiet /\ (LiveOwners \subseteq LiveOwners' \/ ReleaseDone)
              /\ pc' = "hook" => UNCHANGED vars
           \/ \E i \in OpenSlots : Leaves(i) /\ pc' # "hook"
           \/ \E i \in OpenSlots : EntersHook(i)
           \/ \E i \in OpenSlots : EntersHookOwned(i)
           \/ \E d \in BOOLEAN, o \in LiveOwners \union {NoOwner} :
                api_span_start(d, o) /\ pc' # "hook"
<1>0. /\ TypeOK /\ OwnersRemember /\ OneOwner
      /\ Serving => pc = "idle" /\ \A i \in OpenSlots : ~slots[i].dispatching
  BY ServingQuiet DEF IInv, OwnInv
<1>1. ASSUME UNCHANGED coreVars
      PROVE  LiveOwners \subseteq LiveOwners'
  BY <1>1 DEF coreVars, LiveOwners
<1>2. ASSUME NEW d \in BOOLEAN, NEW ss \in BOOLEAN, start_nrec(d, ss)
      PROVE  Quiet /\ UNCHANGED coreVars /\ pc' # "hook"
  BY <1>0, <1>2 DEF start_nrec, Quiet, poolVars, callVars
<1>3. ASSUME NEW d \in BOOLEAN, NEW o \in LiveOwners \union {NoOwner},
             StartContextError(d, o)
      PROVE  Quiet /\ UNCHANGED coreVars /\ pc' # "hook"
  BY <1>0, <1>3 DEF StartContextError, StartAdmitted, Quiet, callVars
<1>4. ASSUME NEW d \in BOOLEAN, NEW o \in LiveOwners \union {NoOwner},
             api_span_start(d, o)
      PROVE  pc' # "hook"
  BY <1>0, <1>4 DEF api_span_start, StartAdmitted, callVars
<1>5. ASSUME NEW r \in BOOLEAN, NEW x \in SlotIdx \union NrecIdx,
             \/ api_span_end(r, x) \/ api_span_deactivate(r, x)
             \/ api_span_activate(r, x)
      PROVE  Quiet /\ UNCHANGED coreVars /\ pc' # "hook"
  BY <1>0, <1>5 DEF api_span_end, api_span_deactivate, api_span_activate,
                    Quiet, poolVars, callVars
<1>6. ASSUME NEW r \in BOOLEAN, NEW x \in SlotIdx \union NrecIdx,
             api_span_discard(r, x)
      PROVE  /\ pc' # "hook"
             /\ \/ Quiet /\ UNCHANGED coreVars
                \/ x \in OpenSlots /\ Leaves(x)
  <2>1. pc' # "hook" /\ UNCHANGED coreVars /\ Serving /\ Resolves(r, x)
    BY <1>0, <1>6 DEF api_span_discard, callVars
  <2>2. CASE r /\ ResourceOwnerForget(x) /\ release_slot(x, FALSE)
    <3>1. x \in OpenSlots /\ ~slots[x].dispatching
      BY <1>0, <2>1, <2>2 DEF Resolves
    <3> QED
      BY <1>0, <2>1, <2>2, <3>1, ForgetEffect DEF Leaves
  <2>3. CASE UNCHANGED <<poolVars, owned>>
    BY <2>1, <2>3 DEF Quiet, poolVars
  <2> QED
    BY <1>6, <2>1, <2>2, <2>3 DEF api_span_discard, DiscardFails
<1>7. CASE UnwindSlot
  <2>1. UNCHANGED coreVars
    BY <1>7 DEF UnwindSlot
  <2> QED
    BY <1>7, <1>1, <2>1, UnwindSlotTop, EndSlotOwned
<1>8. CASE FinishEndSlot
  <2>1. UNCHANGED coreVars
    BY <1>8 DEF FinishEndSlot
  <2> QED
    BY <1>8, <1>1, <2>1, FinishEndSlotTarget, EndSlotOwned
<1>9. CASE HookReturns
  <2>1. /\ hook.slot \in OpenSlots /\ hook.ret \in {"idle", "unwind", "release"}
        /\ pc = "hook" /\ pc' = hook.ret
        /\ UNCHANGED coreVars
    BY <1>9 DEF HookReturns, IInv, CallInProgress, TypeOK, Hook, Resume
  <2>2. release_slot(hook.slot, hook.ret = "release")
    BY <1>9 DEF HookReturns
  <2>3. Forgets(hook.slot)
    <3>1. CASE hook.ret = "release"
      BY <1>9, <3>1 DEF HookReturns, Forgets
    <3>2. CASE hook.ret # "release"
      <4>1. owned' = owned
        BY <1>9, <3>2 DEF HookReturns
      <4>2. \A o \in Owner :
                <<hook.slot, slots[hook.slot].gen>> \notin owned[o]
        BY <2>1, <3>2 DEF OwnInv, HookForgotten
      <4> QED
        BY <4>1, <4>2 DEF Forgets
    <3> QED
      BY <3>1, <3>2
  <2> QED
    BY <2>1, <2>2, <2>3 DEF Leaves
<1>10. ASSUME NEW o \in Owner, NEW i \in SlotIdx, ReleaseLeaked(o, i)
       PROVE  i \in OpenSlots /\ Leaves(i) /\ pc' # "hook"
  <2>1. i \in OpenSlots /\ pc' = "release" /\ UNCHANGED coreVars
    BY <1>10, ReleasedIsOpen DEF ReleaseLeaked, Releasing, callVars
  <2>2. Forgets(i)
    BY <1>0, <1>10, DropEffect DEF ReleaseLeaked, Releasing
  <2> QED
    BY <1>10, <2>1, <2>2 DEF ReleaseLeaked, Leaves
<1>11. ASSUME NEW o \in Owner, NEW i \in SlotIdx, ReleaseAborted(o, i)
       PROVE  /\ i \in OpenSlots
              /\ \/ Leaves(i) /\ pc' # "hook"
                 \/ EntersHookOwned(i)
  <2>1. /\ i \in OpenSlots /\ ~slots[i].dispatching /\ UNCHANGED coreVars
        /\ <<i, slots[i].gen>> \in owned[o]
    BY <1>11, ReleasedIsOpen DEF ReleaseAborted, NotExported, Releasing
  <2>2. \/ Marked(i) /\ pc' = "hook" /\ hook' = [slot |-> i, ret |-> "release"]
        \/ Released(i, TRUE) /\ pc' = "release"
    BY <1>11, <2>1, DispatchEffect DEF ReleaseAborted, Resume
  <2>3. CASE Marked(i) /\ pc' = "hook" /\ hook' = [slot |-> i, ret |-> "release"]
    BY <1>11, <2>1, <2>3 DEF ReleaseAborted, EntersHookOwned
  <2>4. CASE Released(i, TRUE) /\ pc' = "release"
    <3>1. Forgets(i)
      BY <1>0, <1>11, <2>1, <2>4, DropEffect DEF ReleaseAborted
    <3> QED
      BY <2>1, <2>4, <3>1 DEF Leaves, Released
  <2> QED
    BY <2>1, <2>2, <2>3, <2>4
<1>12. ASSUME \/ UnwindActivation \/ UnwindNrec \/ FinishDeactivate
              \/ FinishEndNrec \/ HookFatal
       PROVE  Quiet /\ UNCHANGED coreVars /\ pc' # "hook"
  BY <1>12 DEF UnwindActivation, UnwindNrec, FinishDeactivate, FinishEndNrec,
               HookFatal, Unwinding, UnwindDone, Resume, Quiet, poolVars,
               callVars
<1>13. ASSUME \/ CommitTop \/ Abort \/ ProcExit \/ Exited
              \/ \E c \in BOOLEAN : DropPortal(c)
       PROVE  Quiet /\ UNCHANGED coreVars /\ pc' # "hook"
  BY <1>13 DEF CommitTop, Abort, ProcExit, Exited, DropPortal, XactIdle,
               Quiet, poolVars, callVars
<1>14. ASSUME BeginLevel \/ OpenPortal \/ CommitSub
       PROVE  Quiet /\ LiveOwners \subseteq LiveOwners' /\ pc' # "hook"
  <2>1. Quiet /\ pc' # "hook"
    BY <1>14 DEF BeginLevel, OpenPortal, CommitSub, XactIdle, Quiet, poolVars,
                 callVars
  <2>2. /\ level \in Nat /\ level' \in {level, level + 1}
        /\ portal > 0 => portal' > 0
    BY <1>0, <1>14, ConstantsAssumption
       DEF BeginLevel, OpenPortal, CommitSub, TypeOK, Level
  <2>3. LiveOwners \subseteq LiveOwners'
    BY <2>2 DEF LiveOwners
  <2> QED
    BY <2>1, <2>3
<1>15. ASSUME \/ DropNrecEntry \/ DropNrec \/ NrecsDropped \/ DropActivation
              \/ ActivationsDropped
       PROVE  Quiet /\ UNCHANGED coreVars /\ pc' # "hook"
  BY <1>15 DEF DropNrecEntry, DropNrec, NrecsDropped, DropActivation,
               ActivationsDropped, Quiet, poolVars, callVars
<1>16. CASE ReleaseDone
  BY <1>16 DEF ReleaseDone, Quiet, poolVars
<1>17. CASE UNCHANGED vars
  BY <1>17, <1>1 DEF vars, Quiet, poolVars
<1> QED
  BY <1>1, <1>2, <1>3, <1>4, <1>5, <1>6, <1>7, <1>8, <1>9, <1>10, <1>11,
     <1>12, <1>13, <1>14, <1>15, <1>16, <1>17
     DEF Next, Calls, Transactions, Proceed, Gone

(* What the kinds of steps do to the fields of slots.                      *)
LEMMA LeavesEffect ==
    ASSUME TypeOK, NEW i \in OpenSlots, Leaves(i)
    PROVE  /\ OpenSlots' = OpenSlots \ {i}
           /\ \A j \in SlotIdx : j # i => slots'[j] = slots[j]
           /\ slots'[i].gen = 0
<1>1. i \in SlotIdx
  BY DEF OpenSlots
<1>2. slots'[i].gen = 0 /\ \A j \in SlotIdx : j # i => slots'[j] = slots[j]
  BY <1>1, ReleaseEffect DEF Leaves
<1> QED
  BY <1>1, <1>2 DEF OpenSlots

LEMMA MarkedEffect ==
    ASSUME TypeOK, NEW i \in OpenSlots, Marked(i)
    PROVE  /\ OpenSlots' = OpenSlots
           /\ \A j \in SlotIdx : j # i => slots'[j] = slots[j]
           /\ slots'[i].gen = slots[i].gen /\ slots'[i].dispatching
           /\ slots'[i].owner = NoOwner /\ slots'[i].session = slots[i].session
<1>1. i \in SlotIdx /\ slots[i] \in Slot
  BY DEF OpenSlots, TypeOK
<1>2. /\ slots'[i].gen = slots[i].gen /\ slots'[i].dispatching
      /\ \A j \in SlotIdx : j # i => slots'[j] = slots[j]
  BY <1>1, MarkEffect
<1>3. slots'[i].owner = NoOwner /\ slots'[i].session = slots[i].session
  BY <1>1 DEF Marked, TypeOK, Slot
<1> QED
  BY <1>1, <1>2, <1>3 DEF OpenSlots

LEMMA StartSlotEffect ==
    ASSUME IInv, NEW d \in BOOLEAN, NEW o \in LiveOwners \union {NoOwner},
           api_span_start(d, o)
    PROVE  /\ FreeSlot \in SlotIdx /\ FreeSlot \notin OpenSlots
           /\ OpenSlots' = OpenSlots \union {FreeSlot}
           /\ \A j \in SlotIdx : j # FreeSlot => slots'[j] = slots[j]
           /\ slots'[FreeSlot].gen = next_gen
           /\ slots'[FreeSlot].owner = o
           /\ slots'[FreeSlot].session = (o = NoOwner)
           /\ o # NoOwner => o \in Owner
           /\ \A p \in Owner : owned'[p] = IF p = o
                                           THEN owned[p] \union
                                                  {<<FreeSlot, next_gen>>}
                                           ELSE owned[p]
<1>1. FreeSlot \in SlotIdx /\ slots[FreeSlot].gen = 0
  BY FreeSlotFree DEF api_span_start, take_slot, IInv
<1>2. next_gen \in Gen /\ next_gen # 0
  BY NextGenType DEF IInv, Gen
<1>3. /\ \A j \in SlotIdx : j # FreeSlot => slots'[j] = slots[j]
      /\ slots'[FreeSlot].gen = next_gen
      /\ slots'[FreeSlot].owner = o
      /\ slots'[FreeSlot].session = (o = NoOwner)
  BY <1>1 DEF api_span_start, IInv, TypeOK
<1>4. o # NoOwner => o \in Owner
  BY ConstantsAssumption
     DEF LiveOwners, NoOwner, PORTAL, Owner, IInv, TypeOK, Level
<1>5. \A p \in Owner : owned'[p] = IF p = o
                                   THEN owned[p] \union {<<FreeSlot, next_gen>>}
                                   ELSE owned[p]
  <2>1. owned \in [Owner -> SUBSET (SlotIdx \X Gen)] /\ NoOwner \notin Owner
    BY DEF IInv, TypeOK, NoOwner, Owner
  <2> QED
    BY <1>4, <2>1 DEF api_span_start, ResourceOwnerRemember
<1> QED
  BY <1>1, <1>2, <1>3, <1>4, <1>5 DEF OpenSlots

LEMMA OwnersRememberStep ==
    ASSUME IInv, OwnInv, [Next]_vars
    PROVE  OwnersRemember' /\ OneOwner'
<1>0. /\ TypeOK /\ OwnersRemember /\ OneOwner
      /\ owned \in [Owner -> SUBSET (SlotIdx \X Gen)]
  BY DEF IInv, OwnInv, TypeOK
<1>a. \A j \in SlotIdx : slots'[j].owner \in 0..PORTAL
  BY TypeStep DEF TypeOK, Slot
<1>1. CASE Quiet
  BY <1>0, <1>1 DEF Quiet, OwnersRemember, OneOwner, OpenSlots
<1>2. ASSUME NEW i \in OpenSlots, Leaves(i)
      PROVE  OwnersRemember' /\ OneOwner'
  <2>1. /\ OpenSlots' = OpenSlots \ {i}
        /\ \A j \in SlotIdx : j # i => slots'[j] = slots[j]
        /\ Forgets(i)
    BY <1>0, <1>2, LeavesEffect DEF Leaves
  <2>2. ASSUME NEW j \in OpenSlots', slots'[j].owner # NoOwner,
               slots'[j].owner \in Owner
        PROVE  <<j, slots'[j].gen>> \in owned'[slots'[j].owner]
    <3>1. j \in OpenSlots /\ j # i /\ slots'[j] = slots[j]
      BY <2>1, <2>2 DEF OpenSlots
    <3>2. <<j, slots[j].gen>> \in owned[slots[j].owner]
      BY <1>0, <2>2, <3>1 DEF OwnersRemember
    <3> QED
      BY <2>1, <2>2, <3>1, <3>2 DEF Forgets
  <2>3. ASSUME NEW o \in Owner, NEW h \in owned'[o]
        PROVE  /\ slots'[h[1]].gen = h[2]
               /\ \/ slots'[h[1]].owner = o
                  \/ slots'[h[1]].owner = NoOwner /\ slots'[h[1]].dispatching
    <3>1. h \in owned[o] /\ h # <<i, slots[i].gen>> /\ h \in SlotIdx \X Gen
      BY <1>0, <2>1, <2>3 DEF Forgets
    <3>2. slots[h[1]].gen = h[2] /\ h[1] \in SlotIdx /\ h = <<h[1], h[2]>>
      BY <1>0, <3>1 DEF OwnersRemember
    <3>3. h[1] # i
      BY <3>1, <3>2
    <3> QED
      BY <1>0, <2>1, <3>1, <3>2, <3>3 DEF OwnersRemember
  <2>4. \A j \in OpenSlots' : slots'[j].owner \in 0..PORTAL
    BY <1>a DEF OpenSlots
  <2>5. OneOwner'
    BY <1>0, <2>1 DEF OneOwner, Forgets
  <2> QED
    BY <2>2, <2>3, <2>4, <2>5, ConstantsAssumption
       DEF OwnersRemember, Owner, NoOwner, PORTAL
<1>3. ASSUME NEW i \in OpenSlots, Marked(i), Forgets(i) \/ owned' = owned
      PROVE  OwnersRemember' /\ OneOwner'
  <2>1. /\ OpenSlots' = OpenSlots /\ i \in SlotIdx
        /\ \A j \in SlotIdx : j # i => slots'[j] = slots[j]
        /\ slots'[i].gen = slots[i].gen /\ slots'[i].dispatching
        /\ slots'[i].owner = NoOwner
    BY <1>0, <1>3, MarkedEffect DEF OpenSlots
  <2>2. \A o \in Owner : /\ owned'[o] \subseteq owned[o]
                         /\ owned[o] \ {<<i, slots[i].gen>>} \subseteq owned'[o]
    BY <1>3 DEF Forgets
  <2>3. ASSUME NEW j \in OpenSlots', slots'[j].owner # NoOwner,
               slots'[j].owner \in Owner
        PROVE  <<j, slots'[j].gen>> \in owned'[slots'[j].owner]
    <3>1. j \in OpenSlots /\ j # i /\ slots'[j] = slots[j]
      BY <2>1, <2>3 DEF OpenSlots
    <3>2. <<j, slots[j].gen>> \in owned[slots[j].owner]
      BY <1>0, <2>3, <3>1 DEF OwnersRemember
    <3> QED
      BY <2>2, <2>3, <3>1, <3>2
  <2>4. ASSUME NEW o \in Owner, NEW h \in owned'[o]
        PROVE  /\ slots'[h[1]].gen = h[2]
               /\ \/ slots'[h[1]].owner = o
                  \/ slots'[h[1]].owner = NoOwner /\ slots'[h[1]].dispatching
    <3>1. h \in owned[o] /\ h[1] \in SlotIdx
      BY <1>0, <2>2, <2>4
    <3>2. CASE h[1] = i
      BY <1>0, <2>1, <3>1, <3>2 DEF OwnersRemember
    <3>3. CASE h[1] # i
      BY <1>0, <2>1, <3>1, <3>3 DEF OwnersRemember
    <3> QED
      BY <3>2, <3>3
  <2>5. \A j \in OpenSlots' : slots'[j].owner \in 0..PORTAL
    BY <1>a DEF OpenSlots
  <2>6. OneOwner'
    BY <1>0, <2>2 DEF OneOwner
  <2> QED
    BY <2>3, <2>4, <2>5, <2>6, ConstantsAssumption
       DEF OwnersRemember, Owner, NoOwner, PORTAL
<1>4. ASSUME NEW d \in BOOLEAN, NEW o \in LiveOwners \union {NoOwner},
             api_span_start(d, o)
      PROVE  OwnersRemember' /\ OneOwner'
  <2>1. /\ FreeSlot \in SlotIdx /\ FreeSlot \notin OpenSlots
        /\ OpenSlots' = OpenSlots \union {FreeSlot}
        /\ \A j \in SlotIdx : j # FreeSlot => slots'[j] = slots[j]
        /\ slots'[FreeSlot].gen = next_gen
        /\ slots'[FreeSlot].owner = o
        /\ o # NoOwner => o \in Owner
        /\ \A p \in Owner : owned'[p] = IF p = o
                                        THEN owned[p] \union
                                               {<<FreeSlot, next_gen>>}
                                        ELSE owned[p]
    BY <1>4, StartSlotEffect
  <2>2. \A p \in Owner : \A h \in owned[p] : /\ h[1] \in SlotIdx
                                             /\ h[1] # FreeSlot
    <3> SUFFICES ASSUME NEW p \in Owner, NEW h \in owned[p]
                 PROVE  h[1] \in SlotIdx /\ h[1] # FreeSlot
      OBVIOUS
    <3>1. h[1] \in SlotIdx /\ h[2] \in Gen /\ slots[h[1]].gen = h[2]
      BY <1>0 DEF OwnersRemember
    <3> QED
      BY <2>1, <3>1 DEF OpenSlots, Gen
  <2>3. ASSUME NEW j \in OpenSlots', slots'[j].owner # NoOwner,
               slots'[j].owner \in Owner
        PROVE  <<j, slots'[j].gen>> \in owned'[slots'[j].owner]
    <3>1. CASE j = FreeSlot
      BY <2>1, <2>3, <3>1
    <3>2. CASE j # FreeSlot
      <4>1. j \in OpenSlots /\ slots'[j] = slots[j]
        BY <2>1, <2>3, <3>2 DEF OpenSlots
      <4>2. <<j, slots[j].gen>> \in owned[slots[j].owner]
        BY <1>0, <2>3, <4>1 DEF OwnersRemember
      <4> QED
        BY <2>1, <2>3, <4>1, <4>2
    <3> QED
      BY <3>1, <3>2
  <2>4. ASSUME NEW p \in Owner, NEW h \in owned'[p]
        PROVE  /\ slots'[h[1]].gen = h[2]
               /\ \/ slots'[h[1]].owner = p
                  \/ slots'[h[1]].owner = NoOwner /\ slots'[h[1]].dispatching
    <3>1. h \in owned[p] \/ (p = o /\ h = <<FreeSlot, next_gen>>)
      BY <2>1, <2>4
    <3>2. CASE h \in owned[p]
      BY <1>0, <2>1, <2>2, <3>2 DEF OwnersRemember
    <3>3. CASE p = o /\ h = <<FreeSlot, next_gen>>
      BY <2>1, <3>3
    <3> QED
      BY <3>1, <3>2, <3>3
  <2>5. \A j \in OpenSlots' : slots'[j].owner \in 0..PORTAL
    BY <1>a DEF OpenSlots
  <2>6. OneOwner'
    <3> SUFFICES ASSUME NEW p \in Owner, NEW q \in Owner,
                        NEW h \in owned'[p], h \in owned'[q]
                 PROVE  p = q
      BY DEF OneOwner
    <3>1. \A t \in Owner : <<FreeSlot, next_gen>> \notin owned[t]
      BY <2>2
    <3>2. CASE h = <<FreeSlot, next_gen>>
      BY <2>1, <3>1, <3>2
    <3>3. CASE h # <<FreeSlot, next_gen>>
      <4>1. h \in owned[p] /\ h \in owned[q]
        BY <2>1, <3>3
      <4> QED
        BY <1>0, <4>1 DEF OneOwner
    <3> QED
      BY <3>2, <3>3
  <2> QED
    BY <2>3, <2>4, <2>5, <2>6, ConstantsAssumption
       DEF OwnersRemember, Owner, NoOwner, PORTAL
<1> QED
  BY <1>1, <1>2, <1>3, <1>4, OwnersEffect DEF EntersHook, EntersHookOwned

LEMMA HookForgottenStep ==
    ASSUME IInv, OwnInv, [Next]_vars
    PROVE  HookForgotten'
<1>1. CASE pc' # "hook" \/ hook'.ret = "release"
  BY <1>1 DEF HookForgotten
<1>2. CASE UNCHANGED vars
  BY <1>2 DEF vars, poolVars, callVars, OwnInv, HookForgotten
<1>3. ASSUME NEW i \in OpenSlots, EntersHook(i)
      PROVE  HookForgotten'
  <2>1. slots'[i].gen = slots[i].gen /\ hook'.slot = i
    BY <1>3, MarkedEffect DEF EntersHook, IInv
  <2> QED
    BY <1>3, <2>1 DEF EntersHook, Forgets, HookForgotten
<1> QED
  BY <1>1, <1>2, <1>3, OwnersEffect DEF EntersHookOwned

(* When a level's owners have been released, no open span names one.       *)
LEMMA ReleaseDoneOwned ==
    ASSUME IInv, OwnInv, ReleaseDone
    PROVE  OwnedWhileOpen'
<1>0. /\ TypeOK /\ OwnersRemember /\ OwnedWhileOpen
      /\ level \in 0..MAX_LEVEL /\ MAX_LEVEL \in Nat \ {0}
  BY ConstantsAssumption DEF IInv, OwnInv, TypeOK, Level
<1>1. /\ pc = "release" /\ slots' = slots
      /\ \A o \in ending.releasing : owned[o] = {}
      /\ level' = IF ending.lev > 0 THEN ending.lev - 1 ELSE level
      /\ portal' = IF PORTAL \in ending.releasing THEN 0 ELSE portal
  BY DEF ReleaseDone, poolVars
<1>2. \/ /\ ending.lev = level /\ level > 0 /\ level \in ending.releasing
      \/ ending.lev = 0 /\ ending.releasing = {PORTAL}
  BY <1>1 DEF OwnInv, EndingMatches, InEnding
<1>3. ASSUME NEW i \in OpenSlots, ~slots[i].session, ~slots[i].dispatching
      PROVE  slots[i].owner \in LiveOwners'
  <2> DEFINE o == slots[i].owner
  <2>1. o \in LiveOwners
    BY <1>0, <1>3 DEF OwnedWhileOpen
  <2>2. o \in Owner /\ o # NoOwner
    BY <1>0, <2>1 DEF LiveOwners, Owner, PORTAL, NoOwner
  <2>3. owned[o] # {}
    BY <1>0, <2>2 DEF OwnersRemember
  <2>4. o \notin ending.releasing
    BY <1>1, <2>3
  <2>5. CASE o = PORTAL
    <3>1. PORTAL \notin 1..level
      BY <1>0 DEF PORTAL
    <3>2. portal > 0
      BY <2>1, <2>5, <3>1 DEF LiveOwners
    <3>3. portal' = portal
      BY <1>1, <2>4, <2>5
    <3> QED
      BY <2>5, <3>2, <3>3 DEF LiveOwners
  <2>6. CASE o \in 1..level
    <3>1. o \in 1..level'
      BY <1>0, <1>1, <1>2, <2>4, <2>6
    <3> QED
      BY <3>1 DEF LiveOwners
  <2>7. o \in 1..level \/ o = PORTAL
    BY <2>1 DEF LiveOwners
  <2> QED
    BY <2>5, <2>6, <2>7
<1> QED
  BY <1>1, <1>3 DEF OwnedWhileOpen, OpenSlots

LEMMA OwnedWhileOpenStep ==
    ASSUME IInv, OwnInv, [Next]_vars
    PROVE  OwnedWhileOpen'
<1>0. TypeOK /\ OwnedWhileOpen
  BY DEF IInv, OwnInv
<1>1. CASE Quiet /\ LiveOwners \subseteq LiveOwners'
  BY <1>0, <1>1 DEF Quiet, OwnedWhileOpen, OpenSlots
<1>2. CASE ReleaseDone
  BY <1>2, ReleaseDoneOwned
<1>3. ASSUME UNCHANGED coreVars
      PROVE  LiveOwners' = LiveOwners
  BY <1>3 DEF coreVars, LiveOwners
<1>4. ASSUME NEW i \in OpenSlots, Leaves(i)
      PROVE  OwnedWhileOpen'
  <2>1. /\ OpenSlots' = OpenSlots \ {i} /\ LiveOwners' = LiveOwners
        /\ \A j \in OpenSlots : j # i => slots'[j] = slots[j]
    BY <1>0, <1>3, <1>4, LeavesEffect DEF Leaves, OpenSlots
  <2> QED
    BY <1>0, <2>1 DEF OwnedWhileOpen
<1>5. ASSUME NEW i \in OpenSlots, Marked(i), UNCHANGED coreVars
      PROVE  OwnedWhileOpen'
  <2>1. /\ OpenSlots' = OpenSlots /\ LiveOwners' = LiveOwners
        /\ \A j \in OpenSlots : j # i => slots'[j] = slots[j]
        /\ slots'[i].dispatching
    BY <1>0, <1>3, <1>5, MarkedEffect DEF OpenSlots
  <2> QED
    BY <1>0, <2>1 DEF OwnedWhileOpen
<1>6. ASSUME NEW d \in BOOLEAN, NEW o \in LiveOwners \union {NoOwner},
             api_span_start(d, o)
      PROVE  OwnedWhileOpen'
  <2>1. /\ OpenSlots' = OpenSlots \union {FreeSlot}
        /\ FreeSlot \notin OpenSlots
        /\ \A j \in OpenSlots : slots'[j] = slots[j]
        /\ slots'[FreeSlot].owner = o
        /\ slots'[FreeSlot].session = (o = NoOwner)
    BY <1>6, StartSlotEffect DEF OpenSlots
  <2>2. LiveOwners' = LiveOwners
    BY <1>3, <1>6 DEF api_span_start
  <2> QED
    BY <1>0, <2>1, <2>2 DEF OwnedWhileOpen
<1> QED
  BY <1>1, <1>2, <1>4, <1>5, <1>6, OwnersEffect DEF EntersHook, EntersHookOwned

(* The end in progress is that of the current level, or of a portal alone. *)
LEMMA EndingStep ==
    ASSUME IInv, OwnInv, [Next]_vars
    PROVE  EndingMatches'
<1>0. /\ TypeOK /\ EndingMatches /\ level \in Nat
      /\ Serving => pc = "idle"
      /\ hook.ret \in {"idle", "unwind", "release"}
  BY ServingQuiet, ConstantsAssumption
     DEF IInv, OwnInv, TypeOK, Level, Hook
<1>1. ASSUME pc' \in {"idle", "unwind"}
      PROVE  EndingMatches'
  BY <1>1 DEF EndingMatches, InEnding
<1>2. ASSUME pc' = "hook", hook'.ret \in {"idle", "unwind"}
      PROVE  EndingMatches'
  BY <1>2 DEF EndingMatches, InEnding
<1>3. ASSUME InEnding, UNCHANGED <<ending, level>>
      PROVE  EndingMatches'
  BY <1>0, <1>3 DEF EndingMatches
<1>4. ASSUME NEW d \in BOOLEAN, NEW ss \in BOOLEAN, start_nrec(d, ss)
      PROVE  EndingMatches'
  BY <1>0, <1>1, <1>4 DEF start_nrec, callVars
<1>5. ASSUME NEW d \in BOOLEAN, NEW o \in LiveOwners \union {NoOwner},
             api_span_start(d, o) \/ StartContextError(d, o)
      PROVE  EndingMatches'
  BY <1>0, <1>1, <1>5 DEF api_span_start, StartContextError, StartAdmitted,
                          callVars
<1>6. ASSUME NEW r \in BOOLEAN, NEW x \in SlotIdx \union NrecIdx,
             \/ api_span_end(r, x) \/ api_span_deactivate(r, x)
             \/ api_span_activate(r, x) \/ api_span_discard(r, x)
      PROVE  EndingMatches'
  BY <1>0, <1>1, <1>6 DEF api_span_end, api_span_deactivate, api_span_activate,
                          api_span_discard, callVars
<1>7. CASE UnwindSlot
  <2>1. UNCHANGED coreVars
    BY <1>7 DEF UnwindSlot
  <2> QED
    BY <1>1, <1>2, <1>7, <2>1, UnwindSlotTop, EndSlotOwned
<1>8. CASE FinishEndSlot
  <2>1. UNCHANGED coreVars
    BY <1>8 DEF FinishEndSlot
  <2> QED
    BY <1>1, <1>2, <1>8, <2>1, FinishEndSlotTarget, EndSlotOwned
<1>9. CASE HookReturns
  <2>1. pc = "hook" /\ pc' = hook.ret /\ UNCHANGED <<ending, level>>
    BY <1>9 DEF HookReturns, Resume, coreVars
  <2> QED
    BY <1>0, <1>1, <1>3, <2>1 DEF InEnding
<1>10. CASE HookFatal \/ FinishDeactivate \/ FinishEndNrec \/ ReleaseDone
  BY <1>1, <1>10 DEF HookFatal, FinishDeactivate, FinishEndNrec, ReleaseDone,
                     Resume
<1>11. CASE UnwindActivation \/ UnwindNrec
  BY <1>1, <1>11 DEF UnwindActivation, UnwindNrec, Unwinding, callVars
<1>12. CASE \/ DropNrecEntry \/ DropNrec \/ NrecsDropped \/ DropActivation
            \/ ActivationsDropped
  BY <1>3, <1>12 DEF DropNrecEntry, DropNrec, NrecsDropped, DropActivation,
                     ActivationsDropped, InEnding, callVars, coreVars
<1>13. ASSUME NEW o \in Owner, NEW i \in SlotIdx,
              ReleaseLeaked(o, i) \/ ReleaseAborted(o, i)
       PROVE  EndingMatches'
  BY <1>3, <1>13 DEF ReleaseLeaked, ReleaseAborted, Releasing, InEnding,
                     callVars, coreVars
<1>14. CASE BeginLevel \/ OpenPortal \/ ProcExit \/ Exited
  BY <1>0, <1>1, <1>14 DEF BeginLevel, OpenPortal, ProcExit, Exited, XactIdle,
                           callVars
<1>15. ASSUME NEW c \in BOOLEAN, DropPortal(c)
       PROVE  EndingMatches'
  BY <1>15 DEF DropPortal, EndingMatches
<1>16. CASE CommitTop \/ CommitSub \/ Abort
  BY <1>0, <1>16 DEF CommitTop, CommitSub, Abort, EndingMatches, coreVars
<1>17. CASE UNCHANGED vars
  BY <1>0, <1>17 DEF vars, coreVars, callVars, EndingMatches, InEnding
<1> QED
  BY <1>4, <1>5, <1>6, <1>7, <1>8, <1>9, <1>10, <1>11, <1>12, <1>13, <1>14,
     <1>15, <1>16, <1>17 DEF Next, Calls, Transactions, Proceed, Gone

LEMMA InitOwnInv == Init => OwnInv
<1> SUFFICES ASSUME Init
             PROVE  OwnInv
  OBVIOUS
<1>1. OpenSlots = {}
  BY DEF Init, OpenSlots, ZeroSlot
<1> QED
  BY <1>1 DEF Init, OwnInv, OwnersRemember, OneOwner, HookForgotten,
              OwnedWhileOpen, EndingMatches, InEnding

LEMMA StepOwnInv ==
    ASSUME IInv, OwnInv, [Next]_vars
    PROVE  OwnInv'
  BY OwnersRememberStep, HookForgottenStep, OwnedWhileOpenStep, EndingStep
     DEF OwnInv

LEMMA OwnInvHolds == Spec => [](IInv /\ OwnInv)
<1>1. Init => IInv /\ OwnInv
  BY InitIInv, InitOwnInv
<1>2. IInv /\ OwnInv /\ [Next]_vars => (IInv /\ OwnInv)'
  BY StepIInv, StepOwnInv
<1> QED
  BY <1>1, <1>2, PTL DEF Spec

(* A slot that names a resource owner is remembered by it and no owner     *)
(* remembers a span that is gone, whatever errors ResourceOwnerForget and  *)
(* the exporter raise: so the owner's release ends exactly what it owns.   *)
THEOREM OwnersAreExact == Spec => []OwnersRemember
<1>1. OwnInv => OwnersRemember
  BY DEF OwnInv
<1> QED
  BY <1>1, OwnInvHolds, PTL

(* Between calls every open span still has somebody who will end it.       *)
THEOREM SpansHaveAnOwner == Spec => []NoSpanOrphaned
<1>1. IInv /\ OwnInv => NoSpanOrphaned
  BY DEF IInv, OwnInv, OwnedWhileOpen, DispatchAccounted, NoSpanOrphaned
<1> QED
  BY <1>1, OwnInvHolds, PTL

-----------------------------------------------------------------------------
(***************************************************************************)
(* The counters.  Balance is the number of spans that the counters say are *)
(* still open; every step changes it with the number of open slots.        *)
(***************************************************************************)

Balance == tally["started"] - tally["emitted"] - tally["unseen"]
           - (tally["discarded"] - tally["nrec_discards"])
           - tally["leaked"] - tally["dropped"]

SessionSlots == {i \in OpenSlots : slots[i].session}

(* Counting a span as started adds one to the balance, counting it as gone *)
(* in any way takes one off.                                               *)
LEMMA CountBalance ==
    ASSUME TypeOK, NEW f \in TallyField, Count(f)
    PROVE  /\ f = "started" => Balance' = Balance + 1
           /\ f \in {"emitted", "unseen", "discarded", "leaked", "dropped"} =>
                Balance' = Balance - 1
<1>1. \A g \in TallyField : tally[g] \in Nat
  BY DEF TypeOK
<1>2. \A g \in TallyField :
        tally'[g] = IF g = f THEN tally[g] + 1 ELSE tally[g]
  BY DEF TypeOK, Count
<1> QED
  BY <1>1, <1>2 DEF Balance, TallyField

(* The slots are a finite set, so the open ones can be counted.            *)
LEMMA OpenSlotsFinite ==
    /\ IsFiniteSet(OpenSlots) /\ IsFiniteSet(SessionSlots)
    /\ Cardinality(OpenSlots) \in Nat /\ Cardinality(SessionSlots) \in Nat
<1>1. IsFiniteSet(SlotIdx)
  BY ConstantsAssumption, FS_Interval DEF SlotIdx
<1>2. OpenSlots \subseteq SlotIdx /\ SessionSlots \subseteq SlotIdx
  BY DEF OpenSlots, SessionSlots
<1>3. IsFiniteSet(OpenSlots) /\ IsFiniteSet(SessionSlots)
  BY <1>1, <1>2, FS_Subset
<1> QED
  BY <1>3, FS_CardinalityType

(* The counters add up when the balance is the number of open slots.       *)
LEMMA BalanceCounts ==
    ASSUME TypeOK
    PROVE  CountersAddUp <=>
             /\ Balance = Cardinality(OpenSlots)
             /\ session_spans_open = Cardinality(SessionSlots)
             /\ session_spans_open <= MAX_SESSION_SPANS
<1>1. \A g \in TallyField : tally[g] \in Nat
  BY DEF TypeOK
<1>2. Cardinality(OpenSlots) \in Nat
  BY OpenSlotsFinite
<1>3. (tally["started"] =
         Cardinality(OpenSlots) + tally["emitted"] + tally["unseen"]
         + (tally["discarded"] - tally["nrec_discards"])
         + tally["leaked"] + tally["dropped"])
      <=> Balance = Cardinality(OpenSlots)
  BY <1>1, <1>2 DEF Balance, TallyField
<1> QED
  BY <1>3 DEF CountersAddUp, SessionSlots

(* The same after a step.                                                  *)
LEMMA BalanceCountsNext ==
    ASSUME TypeOK'
    PROVE  CountersAddUp' <=>
             /\ Balance' = Cardinality(OpenSlots')
             /\ session_spans_open' = Cardinality(SessionSlots')
             /\ session_spans_open' <= MAX_SESSION_SPANS
<1>1. \A g \in TallyField : tally'[g] \in Nat
  BY DEF TypeOK
<1>2. Cardinality(OpenSlots') \in Nat
  <2>1. IsFiniteSet(SlotIdx)
    BY ConstantsAssumption, FS_Interval DEF SlotIdx
  <2>2. OpenSlots' \subseteq SlotIdx
    BY DEF OpenSlots
  <2> QED
    BY <2>1, <2>2, FS_Subset, FS_CardinalityType
<1>3. (tally'["started"] =
         Cardinality(OpenSlots') + tally'["emitted"] + tally'["unseen"]
         + (tally'["discarded"] - tally'["nrec_discards"])
         + tally'["leaked"] + tally'["dropped"])
      <=> Balance' = Cardinality(OpenSlots')
  BY <1>1, <1>2 DEF Balance, TallyField
<1> QED
  BY <1>3 DEF CountersAddUp, SessionSlots

(* What a step does to the slots and to the counters.                      *)
NothingCounted == slots' = slots /\ UNCHANGED session_spans_open
                  /\ Balance' = Balance

SlotMarked(i) == Marked(i) /\ UNCHANGED session_spans_open
                 /\ Balance' = Balance

SlotCountedOut(i, b) == release_slot(i, b) /\ Balance' = Balance - 1

(* A step that leaves the counters alone leaves the balance alone.         *)
LEMMA SameTally ==
    ASSUME UNCHANGED tally
    PROVE  Balance' = Balance
  BY DEF Balance

(* dispatch_span counts a slot out or leaves it open, marked.              *)
LEMMA DispatchCount ==
    ASSUME TypeOK, NEW i \in OpenSlots, ~slots[i].dispatching, NEW cont,
           NEW b \in BOOLEAN, dispatch_span(i, cont, b)
    PROVE  SlotMarked(i) \/ SlotCountedOut(i, b)
<1>1. CASE Marked(i) /\ UNCHANGED <<session_spans_open, tally>>
  BY <1>1, SameTally DEF SlotMarked
<1>2. CASE release_slot(i, b) /\ Count("unseen")
  BY <1>2, CountBalance DEF SlotCountedOut, TallyField
<1> QED
  BY <1>1, <1>2 DEF dispatch_span, Marked

(* So does end_slot, unless ResourceOwnerForget raises an error.           *)
LEMMA EndSlotCount ==
    ASSUME TypeOK, NEW i \in OpenSlots, ~slots[i].dispatching, NEW cont,
           end_slot(i, cont)
    PROVE  SlotMarked(i) \/ SlotCountedOut(i, FALSE) \/ NothingCounted
<1>1. CASE UNCHANGED <<poolVars, owned, hook, dispatch_depth, histVars>>
  BY <1>1, SameTally DEF NothingCounted, poolVars, histVars
<1> QED
  BY <1>1, DispatchCount DEF end_slot

(* Every step counts what it does to the slots.                            *)
LEMMA CountEffect ==
    ASSUME IInv, [Next]_vars
    PROVE  \/ NothingCounted
           \/ \E i \in OpenSlots : SlotMarked(i)
           \/ \E i \in OpenSlots, b \in BOOLEAN : SlotCountedOut(i, b)
           \/ \E d \in BOOLEAN, o \in LiveOwners \union {NoOwner} :
                api_span_start(d, o)
<1>0. TypeOK
  BY DEF IInv
<1>1. ASSUME NEW d \in BOOLEAN, NEW ss \in BOOLEAN, start_nrec(d, ss)
      PROVE  NothingCounted
  BY <1>1, SameTally DEF start_nrec, NothingCounted, poolVars
<1>2. ASSUME NEW d \in BOOLEAN, NEW o \in LiveOwners \union {NoOwner},
             StartContextError(d, o)
      PROVE  NothingCounted
  BY <1>2, SameTally DEF StartContextError, NothingCounted, histVars
<1>3. ASSUME NEW r \in BOOLEAN, NEW x \in SlotIdx \union NrecIdx,
             \/ api_span_end(r, x) \/ api_span_deactivate(r, x)
             \/ api_span_activate(r, x)
      PROVE  NothingCounted
  BY <1>3, SameTally
     DEF api_span_end, api_span_deactivate, api_span_activate,
         NothingCounted, poolVars, histVars
<1>4. ASSUME NEW r \in BOOLEAN, NEW x \in SlotIdx \union NrecIdx,
             api_span_discard(r, x)
      PROVE  NothingCounted \/ (x \in OpenSlots /\ SlotCountedOut(x, FALSE))
  <2>1. CASE r /\ release_slot(x, FALSE) /\ Count("discarded")
    <3>1. x \in OpenSlots
      BY <1>4, <2>1 DEF api_span_discard, Resolves
    <3> QED
      BY <1>0, <2>1, <3>1, CountBalance DEF SlotCountedOut, TallyField
  <2>2. CASE /\ tally' = [tally EXCEPT !["discarded"] = @ + 1,
                                       !["nrec_discards"] = @ + 1]
             /\ UNCHANGED <<poolVars, owned>>
    <3>1. \A g \in TallyField : tally[g] \in Nat
      BY <1>0 DEF TypeOK
    <3>2. \A g \in TallyField :
            tally'[g] = IF g \in {"discarded", "nrec_discards"}
                        THEN tally[g] + 1 ELSE tally[g]
      BY <1>0, <2>2 DEF TypeOK, TallyField
    <3>3. Balance' = Balance
      BY <3>1, <3>2 DEF Balance, TallyField
    <3> QED
      BY <2>2, <3>3 DEF NothingCounted, poolVars
  <2>3. CASE DiscardFails(x)
    BY <2>3, SameTally DEF DiscardFails, NothingCounted, poolVars
  <2> QED
    BY <1>4, <2>1, <2>2, <2>3 DEF api_span_discard
<1>5. CASE UnwindSlot
  BY <1>0, <1>5, UnwindSlotTop, EndSlotCount
<1>6. CASE FinishEndSlot
  BY <1>0, <1>6, FinishEndSlotTarget, EndSlotCount
<1>7. CASE HookReturns
  <2>1. hook.slot \in OpenSlots
    BY <1>7 DEF HookReturns, IInv, CallInProgress
  <2>2. SlotCountedOut(hook.slot, hook.ret = "release")
    BY <1>0, <1>7, CountBalance DEF HookReturns, SlotCountedOut, TallyField
  <2> QED
    BY <2>1, <2>2
<1>8. ASSUME NEW o \in Owner, NEW i \in SlotIdx, ReleaseLeaked(o, i)
      PROVE  i \in OpenSlots /\ SlotCountedOut(i, TRUE)
  <2>1. i \in OpenSlots
    BY <1>8, ReleasedIsOpen DEF ReleaseLeaked
  <2>2. Count("leaked") \/ Count("dropped")
    BY <1>8 DEF ReleaseLeaked
  <2>3. Balance' = Balance - 1
    BY <1>0, <2>2, CountBalance DEF TallyField
  <2> QED
    BY <1>8, <2>1, <2>3 DEF ReleaseLeaked, SlotCountedOut
<1>9. ASSUME NEW o \in Owner, NEW i \in SlotIdx, ReleaseAborted(o, i)
      PROVE  i \in OpenSlots /\ (SlotMarked(i) \/ SlotCountedOut(i, TRUE))
  <2>1. i \in OpenSlots /\ ~slots[i].dispatching
    BY <1>9, ReleasedIsOpen DEF ReleaseAborted, NotExported
  <2> QED
    BY <1>0, <1>9, <2>1, DispatchCount DEF ReleaseAborted
<1>10. CASE \/ UnwindActivation \/ UnwindNrec \/ FinishDeactivate
            \/ FinishEndNrec \/ HookFatal
  BY <1>10, SameTally
     DEF UnwindActivation, UnwindNrec, FinishDeactivate, FinishEndNrec,
         HookFatal, NothingCounted, poolVars, histVars
<1>11. ASSUME \/ BeginLevel \/ OpenPortal \/ CommitTop \/ CommitSub \/ Abort
              \/ ProcExit \/ Exited \/ \E c \in BOOLEAN : DropPortal(c)
       PROVE  NothingCounted
  BY <1>11, SameTally
     DEF BeginLevel, OpenPortal, CommitTop, CommitSub, Abort, ProcExit,
         Exited, DropPortal, NothingCounted, poolVars, histVars
<1>12. CASE \/ DropNrecEntry \/ DropNrec \/ NrecsDropped \/ DropActivation
            \/ ActivationsDropped \/ ReleaseDone
  BY <1>12, SameTally
     DEF DropNrecEntry, DropNrec, NrecsDropped, DropActivation,
         ActivationsDropped, ReleaseDone, NothingCounted, poolVars, histVars
<1>13. CASE UNCHANGED vars
  BY <1>13, SameTally DEF vars, NothingCounted, poolVars, histVars
<1> QED
  BY <1>1, <1>2, <1>3, <1>4, <1>5, <1>6, <1>7, <1>8, <1>9, <1>10, <1>11,
     <1>12, <1>13
     DEF Next, Calls, Transactions, Proceed, Gone

(* So every step keeps the account.                                        *)
LEMMA CountStep ==
    ASSUME IInv, CountersAddUp, [Next]_vars
    PROVE  CountersAddUp'
<1> DEFINE n == Cardinality(OpenSlots)
           m == Cardinality(SessionSlots)
<1>0. TypeOK /\ TypeOK'
  BY TypeStep DEF IInv
<1>1. /\ Balance = n /\ session_spans_open = m
      /\ session_spans_open <= MAX_SESSION_SPANS
      /\ n \in Nat /\ m \in Nat /\ MAX_SESSION_SPANS \in Nat
      /\ IsFiniteSet(OpenSlots) /\ IsFiniteSet(SessionSlots)
  BY <1>0, BalanceCounts, OpenSlotsFinite, ConstantsAssumption
<1>2. SUFFICES /\ Balance' = Cardinality(OpenSlots')
               /\ session_spans_open' = Cardinality(SessionSlots')
               /\ session_spans_open' <= MAX_SESSION_SPANS
  <2>1. CountersAddUp' <=> /\ Balance' = Cardinality(OpenSlots')
                           /\ session_spans_open' = Cardinality(SessionSlots')
                           /\ session_spans_open' <= MAX_SESSION_SPANS
    BY <1>0, BalanceCountsNext
  <2> QED
    BY <2>1
<1>3. CASE NothingCounted
  <2>1. OpenSlots' = OpenSlots /\ SessionSlots' = SessionSlots
    BY <1>3 DEF NothingCounted, OpenSlots, SessionSlots
  <2> QED
    BY <1>1, <1>3, <2>1 DEF NothingCounted
<1>4. ASSUME NEW i \in OpenSlots, SlotMarked(i)
      PROVE  /\ Balance' = Cardinality(OpenSlots')
             /\ session_spans_open' = Cardinality(SessionSlots')
             /\ session_spans_open' <= MAX_SESSION_SPANS
  <2>1. OpenSlots' = OpenSlots /\ SessionSlots' = SessionSlots
    BY <1>0, <1>4, MarkedEffect DEF SlotMarked, SessionSlots, OpenSlots
  <2> QED
    BY <1>1, <1>4, <2>1 DEF SlotMarked
<1>5. ASSUME NEW i \in OpenSlots, NEW b \in BOOLEAN, SlotCountedOut(i, b)
      PROVE  /\ Balance' = Cardinality(OpenSlots')
             /\ session_spans_open' = Cardinality(SessionSlots')
             /\ session_spans_open' <= MAX_SESSION_SPANS
  <2>1. i \in SlotIdx /\ slots'[i].gen = 0
        /\ \A j \in SlotIdx : j # i => slots'[j] = slots[j]
    BY <1>0, <1>5, ReleaseEffect DEF SlotCountedOut, OpenSlots
  <2>2. OpenSlots' = OpenSlots \ {i} /\ SessionSlots' = SessionSlots \ {i}
    BY <2>1 DEF OpenSlots, SessionSlots
  <2>3. /\ Cardinality(OpenSlots \ {i}) = n - 1
        /\ Cardinality(SessionSlots \ {i}) =
             IF i \in SessionSlots THEN m - 1 ELSE m
    BY <1>1, FS_RemoveElement
  <2>4. session_spans_open' = IF i \in SessionSlots
                              THEN session_spans_open - 1
                              ELSE session_spans_open
    BY <1>5 DEF SlotCountedOut, release_slot, SessionSlots
  <2> QED
    BY <1>1, <1>5, <2>2, <2>3, <2>4 DEF SlotCountedOut
<1>6. ASSUME NEW d \in BOOLEAN, NEW o \in LiveOwners \union {NoOwner},
             api_span_start(d, o)
      PROVE  /\ Balance' = Cardinality(OpenSlots')
             /\ session_spans_open' = Cardinality(SessionSlots')
             /\ session_spans_open' <= MAX_SESSION_SPANS
  <2> DEFINE i == FreeSlot
  <2>1. /\ i \in SlotIdx /\ i \notin OpenSlots
        /\ OpenSlots' = OpenSlots \union {i}
        /\ \A j \in SlotIdx : j # i => slots'[j] = slots[j]
        /\ slots'[i].session = (o = NoOwner)
    BY <1>6, StartSlotEffect
  <2>2. i \notin SessionSlots
    BY <2>1 DEF SessionSlots
  <2>3. SessionSlots' = IF o = NoOwner THEN SessionSlots \union {i}
                        ELSE SessionSlots
    BY <2>1 DEF SessionSlots, OpenSlots
  <2>4. /\ Cardinality(OpenSlots \union {i}) = n + 1
        /\ Cardinality(SessionSlots \union {i}) = m + 1
    BY <1>1, <2>1, <2>2, FS_AddElement
  <2>5. Balance' = Balance + 1
    BY <1>0, <1>6, CountBalance DEF api_span_start, TallyField
  <2>6. /\ session_spans_open' = IF o = NoOwner THEN session_spans_open + 1
                                 ELSE session_spans_open
        /\ o = NoOwner => session_spans_open < MAX_SESSION_SPANS
    BY <1>6 DEF api_span_start, StartAdmitted
  <2> HIDE DEF i
  <2> QED
    BY <1>1, <2>1, <2>3, <2>4, <2>5, <2>6
<1> QED
  BY <1>3, <1>4, <1>5, <1>6, CountEffect

(* The counters add up whatever way spans leave: every span that was       *)
(* started is open or counted once, and the session budget is exact.       *)
THEOREM CountersAreExact == Spec => []CountersAddUp
<1>1. Init => CountersAddUp
  <2> SUFFICES ASSUME Init PROVE CountersAddUp
    OBVIOUS
  <2>1. OpenSlots = {} /\ SessionSlots = {}
    BY DEF Init, OpenSlots, SessionSlots, ZeroSlot
  <2>2. Cardinality(OpenSlots) = 0 /\ Cardinality(SessionSlots) = 0
    BY <2>1, FS_EmptySet
  <2>3. /\ \A f \in TallyField : tally[f] = 0
        /\ session_spans_open = 0
    BY DEF Init
  <2> QED
    BY <2>2, <2>3, ConstantsAssumption
       DEF CountersAddUp, SessionSlots, TallyField
<1>2. IInv /\ CountersAddUp /\ [Next]_vars => CountersAddUp'
  BY CountStep
<1> QED
  BY <1>1, <1>2, Inductive, PTL DEF Spec

(***************************************************************************)
(* The unwind.                                                             *)
(***************************************************************************)

(* end_slot touches no other slot.                                         *)
LEMMA EndSlotOnly ==
    ASSUME TypeOK, NEW i \in OpenSlots, ~slots[i].dispatching, NEW cont,
           end_slot(i, cont)
    PROVE  \A j \in SlotIdx : j # i => slots'[j] = slots[j]
<1>1. i \in SlotIdx
  BY DEF OpenSlots
<1> QED
  BY <1>1, EndSlotCount, MarkEffect, ReleaseEffect
     DEF SlotMarked, SlotCountedOut, NothingCounted

(* The entry an unwind takes off is not an activation, so its span is not  *)
(* a detached one.                                                         *)
LEMMA UnwindStep ==
    ASSUME IInv, [Next]_vars, pc = "unwind", NEW i \in OpenSlots,
           slots[i].detached, slots'[i] # slots[i]
    PROVE  target.after = "end" /\ target.rec /\ target.idx = i
<1>0. TypeOK /\ ~Serving /\ i \in SlotIdx
  BY DEF IInv, Serving, OpenSlots
<1>1. CASE UnwindSlot
  <2>1. /\ TopEntry.idx \in OpenSlots /\ ~slots[TopEntry.idx].dispatching
        /\ end_slot(TopEntry.idx, "unwind")
    BY <1>1, UnwindSlotTop
  <2>2. ~slots[TopEntry.idx].detached
    <3>1. Len(span_stack) \in 1..Len(span_stack)
      BY <1>0, <1>1 DEF UnwindSlot, Unwinding, TypeOK, Target
    <3> QED
      BY <1>1, <3>1
         DEF UnwindSlot, TopIsActivation, TopEntry, IInv, StackNamesOpenSpans
  <2>3. slots'[i] = slots[i]
    BY <1>0, <2>1, <2>2, EndSlotOnly
  <2> QED
    BY <2>3
<1>2. CASE FinishEndSlot
  <2>1. target.idx = i
    BY <1>0, <1>2, FinishEndSlotTarget, EndSlotOnly
  <2> QED
    BY <1>2, <2>1 DEF FinishEndSlot
<1>3. Calls => FALSE
  BY <1>0 DEF Calls, start_nrec, api_span_start, StartContextError,
              StartAdmitted, api_span_end, api_span_discard,
              api_span_activate, api_span_deactivate
<1>4. Transactions => UNCHANGED slots
  BY DEF Transactions, BeginLevel, OpenPortal, DropPortal, CommitTop,
         CommitSub, Abort, ProcExit, Exited, Gone, XactIdle, vars, poolVars
<1>5. CASE \/ UnwindActivation \/ UnwindNrec \/ FinishDeactivate
           \/ FinishEndNrec
  BY <1>5 DEF UnwindActivation, UnwindNrec, FinishDeactivate, FinishEndNrec,
              poolVars
<1>6. ~(\/ HookReturns \/ HookFatal \/ DropNrecEntry \/ DropNrec
        \/ NrecsDropped \/ DropActivation \/ ActivationsDropped \/ ReleaseDone
        \/ \E o \in Owner, j \in SlotIdx :
             ReleaseLeaked(o, j) \/ ReleaseAborted(o, j))
  BY DEF HookReturns, HookFatal, DropNrecEntry, DropNrec, NrecsDropped,
         DropActivation, ActivationsDropped, ReleaseDone, ReleaseLeaked,
         ReleaseAborted, Releasing
<1> QED
  BY <1>1, <1>2, <1>3, <1>4, <1>5, <1>6 DEF Next, Proceed, vars, poolVars

(* An unwind closes the spans above its target that nested in it and       *)
(* leaves open every detached span it passes over.                         *)
THEOREM UnwindSparesDetached == Spec => UnwindSparesActivated
<1> DEFINE Spares ==
      pc = "unwind" =>
        \A i \in OpenSlots :
            (slots[i].detached /\ slots'[i] # slots[i]) =>
                (target.after = "end" /\ target.rec /\ target.idx = i)
<1>1. IInv /\ [Next]_vars => [Spares]_vars
  BY UnwindStep
<1>2. Spec => [][Spares]_vars
  BY <1>1, Inductive, PTL DEF Spec
<1> QED
  BY <1>2 DEF UnwindSparesActivated
=============================================================================

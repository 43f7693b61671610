---------------------------- MODULE SpanProducer ----------------------------
(***************************************************************************)
(* The span store of one backend (otel_api/otel_producer.c): the slot pool *)
(* and its free list, the non-recording entries, the active stack, the     *)
(* resource owners that remember recording spans, and the ways a span      *)
(* leaves the store: otel_span_end, otel_span_discard, a LIFO unwind, the  *)
(* release of its owner at (sub)transaction end, and an emit hook that     *)
(* returns, raises ERROR or raises FATAL.                                  *)
(*                                                                         *)
(* A backend is single threaded.  A C call that runs foreign code (the     *)
(* emit hook) or loops over the stack takes several steps; pc says where   *)
(* in the call the backend is, and every step but "idle" and "hook" is     *)
(* uninterruptible.  Span data (names, attributes, times) is left out, and *)
(* so are the counters that only count refused or mistaken calls.          *)
(*                                                                         *)
(* The definitions whose names end in _m are faulty variants of the one    *)
(* that follows them; no specification here uses them.                     *)
(***************************************************************************)
EXTENDS Integers, Sequences, FiniteSets

CONSTANTS
    MAX_OPEN_SPANS,     \* otel_api.max_open_spans: slots in the pool
    MAX_SESSION_SPANS,  \* otel_api.max_session_spans
    MAX_STACK_DEPTH,    \* OTEL_MAX_STACK_DEPTH: stack entries, and nrecs
    GEN_MASK,           \* OTEL_GEN_MASK: generations are 1..GEN_MASK
    SEEDS,              \* values seed_prng_if_needed may give gen_counter
    MAX_LEVEL           \* bound: deepest subtransaction nesting explored

ASSUME ConstantsAssumption ==
    /\ MAX_OPEN_SPANS \in Nat
    /\ MAX_SESSION_SPANS \in Nat
    /\ MAX_STACK_DEPTH \in Nat
    /\ GEN_MASK \in Nat \ {0}
    /\ SEEDS \subseteq 0..GEN_MASK
    /\ MAX_LEVEL \in Nat \ {0}

VARIABLES
    slots,              \* the slot array
    slots_used,         \* slots below this have been initialised
    slot_free,          \* slot_free_head and next_free links; last = head
    session_spans_open,
    nrecs,              \* non-recording entries
    nrecs_used,
    nrec_free,          \* nrec_free_head and next_free links; last = head
    span_stack,         \* span_stack with span_stack_meta; last = top
    gen_counter,
    owned,              \* core: the spans each resource owner remembers
    level,              \* core: GetCurrentTransactionNestLevel()
    portal,             \* core: level whose owner is the portal's parent, or 0
    pc,                 \* where in a call the backend is
    target,             \* locals of api_span_end and api_span_deactivate
    hook,               \* locals of end_slot while the emit hook runs
    ending,             \* the (sub)transaction or portal end in progress
    dispatch_depth,
    exiting,            \* "no", "exiting" (proc_exit running) or "gone"
    issued,             \* history: generations handed out
    emits,              \* history: emit-hook calls per generation
    owner_ended,        \* history: handles ended by owner or xact end
    tally               \* spans_started and the counters of how spans left

poolVars  == <<slots, slots_used, slot_free, session_spans_open>>
nrecVars  == <<nrecs, nrecs_used, nrec_free>>
coreVars  == <<level, portal>>
callVars  == <<pc, target, hook, ending>>
histVars  == <<issued, emits, owner_ended, tally>>
vars == <<poolVars, nrecVars, span_stack, gen_counter, owned, coreVars,
          callVars, dispatch_depth, exiting, histVars>>

-----------------------------------------------------------------------------
(* Data.                                                                   *)

SlotIdx == 0..(MAX_OPEN_SPANS - 1)
NrecIdx == 0..(MAX_STACK_DEPTH - 1)
Gen     == 1..GEN_MASK
Level   == 0..MAX_LEVEL

NoOwner == 0
PORTAL  == MAX_LEVEL + 1
Owner   == 1..PORTAL          \* one per transaction level, and a portal's

Slot == [gen : 0..GEN_MASK, owner_released_gen : 0..GEN_MASK,
         detached : BOOLEAN, session : BOOLEAN, dispatching : BOOLEAN,
         owner : 0..PORTAL, cxt : BOOLEAN]

ZeroSlot == [gen |-> 0, owner_released_gen |-> 0, detached |-> FALSE,
             session |-> FALSE, dispatching |-> FALSE, owner |-> NoOwner,
             cxt |-> FALSE]

Nrec == [gen : 0..GEN_MASK, owner_released_gen : 0..GEN_MASK,
         nest_level : Level, detached : BOOLEAN]

ZeroNrec == [gen |-> 0, owner_released_gen |-> 0, nest_level |-> 0,
             detached |-> FALSE]

(* A stack entry: a slot (rec) or nrec index, with its StackEntryMeta.     *)
Entry == [rec : BOOLEAN, idx : Nat, is_activation : BOOLEAN,
          nest_level : Level]

(* The span being ended or deactivated: its entry's position (0: none) and *)
(* what follows the unwind.                                                *)
Target == [pos : Nat, rec : BOOLEAN, idx : Nat, after : {"end", "pop"}]
NoTarget == [pos |-> 0, rec |-> FALSE, idx |-> 0, after |-> "end"]

(* The slot inside the emit hook, and where its end_slot call returns to.  *)
Hook == [slot : SlotIdx \union {-1}, ret : {"idle", "unwind", "release"}]
NoHook == [slot |-> -1, ret |-> "idle"]

(* A level (0: only a portal) that ends, and the owners being released.    *)
Ending == [lev : Level, commit : BOOLEAN, releasing : SUBSET Owner]
NoEnding == [lev |-> 0, commit |-> FALSE, releasing |-> {}]

(* spans_emitted, spans_discarded, leaked_at_commit, dropped_in_dispatch   *)
(* and spans_started as otel_counters keeps them; unseen and nrec_discards *)
(* are history: spans ended with no exporter, nrecs among the discards.    *)
TallyField == {"started", "emitted", "discarded", "leaked", "dropped",
               "unseen", "nrec_discards"}

(* A call that goes on at cont: its target is dead once the call is over.  *)
Resume(cont) ==
    /\ pc' = cont
    /\ target' = IF cont = "idle" THEN NoTarget ELSE target

Count(f) == tally' = [tally EXCEPT ![f] = @ + 1]

OpenSlots == {i \in SlotIdx : slots[i].gen # 0}
OpenNrecs == {i \in NrecIdx : nrecs[i].gen # 0}
LiveOwners == (1..level) \union (IF portal > 0 THEN {PORTAL} ELSE {})

-----------------------------------------------------------------------------
(* Sequences used as stacks, the last element on top.                      *)

Pop(s) == [k \in 1..(Len(s) - 1) |-> s[k]]

stack_remove_at(pos) ==
    [k \in 1..(Len(span_stack) - 1) |->
        IF k < pos THEN span_stack[k] ELSE span_stack[k + 1]]

(* Positions of an entry; stack_find returns the topmost one.              *)
Positions(rec, idx) ==
    {k \in 1..Len(span_stack) : /\ span_stack[k].rec = rec
                                /\ span_stack[k].idx = idx}

Topmost(k, S) == k \in S /\ \A j \in S : j <= k

stack_find(rec, idx) ==
    IF Positions(rec, idx) = {} THEN 0
    ELSE CHOOSE k \in 1..Len(span_stack) : Topmost(k, Positions(rec, idx))

stack_push(rec, idx, act, lev) ==
    span_stack' = Append(span_stack, [rec |-> rec, idx |-> idx,
                                      is_activation |-> act,
                                      nest_level |-> lev])

(* The stack without the entry, if it has one.                             *)
stack_without(rec, idx) ==
    IF Positions(rec, idx) = {} THEN span_stack
    ELSE stack_remove_at(stack_find(rec, idx))

-----------------------------------------------------------------------------
(* Slots.                                                                  *)

(* The generation next_gen gives out, which skips 0.  StartBound names the *)
(* one bound on starts: no generation is handed out twice.                 *)
next_gen == IF gen_counter = GEN_MASK THEN 1 ELSE gen_counter + 1

StartBound == next_gen \notin issued

take_gen ==
    /\ StartBound
    /\ gen_counter' = next_gen
    /\ issued' = issued \union {next_gen}

(* The slot take_slot hands out, or none: the head of the free list, else  *)
(* the first slot never used.                                              *)
FreeSlot == IF slot_free # <<>> THEN slot_free[Len(slot_free)] ELSE slots_used
HaveFreeSlot == slot_free # <<>> \/ slots_used < MAX_OPEN_SPANS

take_slot_m ==
    /\ HaveFreeSlot
    /\ slot_free' = IF slot_free # <<>> THEN Pop(slot_free) ELSE slot_free
    /\ slots_used' = IF slots_used < MAX_OPEN_SPANS THEN slots_used + 1
                     ELSE slots_used

take_slot ==
    /\ HaveFreeSlot
    /\ slot_free' = IF slot_free # <<>> THEN Pop(slot_free) ELSE slot_free
    /\ slots_used' = IF slot_free # <<>> THEN slots_used ELSE slots_used + 1

(* What release_slot leaves in a slot that was in state s.                 *)
Freed(s, by_owner) ==
    [gen |-> 0,
     owner_released_gen |-> IF by_owner THEN s.gen ELSE s.owner_released_gen,
     detached |-> FALSE, session |-> FALSE, dispatching |-> FALSE,
     owner |-> NoOwner, cxt |-> s.cxt]

(* release_slot(i, by_owner); forgetting the owner is left to the caller,  *)
(* who says what becomes of owned.                                         *)
release_slot(i, by_owner) ==
    /\ slots' = [slots EXCEPT ![i] = Freed(slots[i], by_owner)]
    /\ slot_free' = Append(slot_free, i)
    /\ session_spans_open' =
         IF slots[i].session THEN session_spans_open - 1
         ELSE session_spans_open
    /\ UNCHANGED slots_used

ResourceOwnerForget_m(i) == owned' = owned

ResourceOwnerForget(i) ==
    owned' = IF slots[i].owner = NoOwner THEN owned
             ELSE [owned EXCEPT ![slots[i].owner] = @ \ {<<i, slots[i].gen>>}]

(* end_slot after the owner entry is forgotten: either there is a hook (or *)
(* the log emitter) and dispatch_span calls it, or nobody listens and the  *)
(* slot is freed at once.  cont is where the call goes on.                 *)
dispatch_span(i, cont, by_owner) ==
    \/ /\ slots' = [slots EXCEPT ![i].owner = NoOwner,
                                 ![i].dispatching = TRUE]
       /\ dispatch_depth' = dispatch_depth + 1
       /\ emits' = [emits EXCEPT ![slots[i].gen] = @ + 1]
       /\ pc' = "hook"
       /\ hook' = [slot |-> i, ret |-> cont]
       /\ UNCHANGED <<slots_used, slot_free, session_spans_open, target,
                      issued, owner_ended, tally>>
    \/ /\ release_slot(i, by_owner)
       /\ Resume(cont)
       /\ Count("unseen")
       /\ owner_ended' = IF by_owner
                         THEN owner_ended \union {<<TRUE, i, slots[i].gen>>}
                         ELSE owner_ended
       /\ UNCHANGED <<hook, dispatch_depth, issued, emits>>

end_slot_m(i, cont) ==
    \/ ResourceOwnerForget(i) /\ dispatch_span(i, cont, FALSE)
    \/ /\ slots[i].owner # NoOwner
       /\ slots' = [slots EXCEPT ![i].owner = NoOwner]
       /\ Resume("idle")
       /\ UNCHANGED <<slots_used, slot_free, session_spans_open, owned, hook,
                      dispatch_depth, histVars>>

(* end_slot(i).  ResourceOwnerForget may raise ERROR before anything else  *)
(* happened: the call is abandoned, the span stays open and owned.         *)
end_slot(i, cont) ==
    \/ ResourceOwnerForget(i) /\ dispatch_span(i, cont, FALSE)
    \/ /\ slots[i].owner # NoOwner
       /\ Resume("idle")
       /\ UNCHANGED <<poolVars, owned, hook, dispatch_depth, histVars>>

free_nrec(i, by_owner) ==
    /\ nrecs' = [nrecs EXCEPT ![i].gen = 0,
                              ![i].owner_released_gen =
                                 IF by_owner THEN nrecs[i].gen ELSE @]
    /\ nrec_free' = Append(nrec_free, i)
    /\ UNCHANGED nrecs_used

-----------------------------------------------------------------------------
(* The producer API.  call_refused: no call is served while an emit hook   *)
(* runs, nor after a FATAL left dispatch_depth raised.                     *)

call_refused == dispatch_depth > 0

Serving == /\ pc \in {"idle", "hook"}
           /\ ~call_refused
           /\ exiting = "no"

FirstNrec == IF nrec_free # <<>> THEN nrec_free[Len(nrec_free)] ELSE nrecs_used

(* start_nrec: the span is not sampled.  session: an OTEL_OWNER_SESSION    *)
(* span, or no CurrentResourceOwner.                                       *)
start_nrec(detached, session) ==
    /\ Serving
    /\ detached \/ Len(span_stack) < MAX_STACK_DEPTH
    /\ nrec_free # <<>> \/ nrecs_used < MAX_STACK_DEPTH
    /\ take_gen
    /\ nrecs' = [nrecs EXCEPT ![FirstNrec] =
                    [gen |-> next_gen,
                     owner_released_gen |-> nrecs[FirstNrec].owner_released_gen,
                     nest_level |-> IF session THEN 0 ELSE level,
                     detached |-> detached]]
    /\ nrec_free' = IF nrec_free # <<>> THEN Pop(nrec_free) ELSE nrec_free
    /\ nrecs_used' = IF nrec_free # <<>> THEN nrecs_used ELSE nrecs_used + 1
    /\ IF detached THEN UNCHANGED span_stack
                   ELSE stack_push(FALSE, FirstNrec, FALSE, 0)
    /\ UNCHANGED <<poolVars, owned, coreVars, callVars, dispatch_depth,
                   exiting, emits, owner_ended, tally>>

(* api_span_start, a sampled span: owner is the resolved resource owner,   *)
(* NoOwner for a session span.                                             *)
StartAdmitted(detached, owner) ==
    /\ Serving
    /\ owner = NoOwner => session_spans_open < MAX_SESSION_SPANS
    /\ detached \/ Len(span_stack) < MAX_STACK_DEPTH

ResourceOwnerRemember(owner) ==
    owned' = IF owner = NoOwner THEN owned
             ELSE [owned EXCEPT ![owner] = @ \union {<<FreeSlot, next_gen>>}]

api_span_start(detached, owner) ==
    /\ StartAdmitted(detached, owner)
    /\ take_slot
    /\ take_gen
    /\ slots' = [slots EXCEPT ![FreeSlot] =
                    [gen |-> next_gen,
                     owner_released_gen |-> slots[FreeSlot].owner_released_gen,
                     detached |-> detached,
                     session |-> (owner = NoOwner),
                     dispatching |-> FALSE,
                     owner |-> owner,
                     cxt |-> TRUE]]
    /\ IF detached THEN UNCHANGED span_stack
                   ELSE stack_push(TRUE, FreeSlot, FALSE, 0)
    /\ ResourceOwnerRemember(owner)
    /\ session_spans_open' =
         IF owner = NoOwner THEN session_spans_open + 1 ELSE session_spans_open
    /\ Count("started")
    /\ UNCHANGED <<nrecVars, coreVars, callVars, dispatch_depth, exiting,
                   emits, owner_ended>>

(* take_slot raises ERROR creating the slot's memory context: the slot     *)
(* goes back to the free list.                                             *)
StartContextError(detached, owner) ==
    /\ StartAdmitted(detached, owner)
    /\ HaveFreeSlot
    /\ ~slots[FreeSlot].cxt
    /\ slot_free' = IF slot_free # <<>> THEN slot_free
                    ELSE Append(slot_free, FreeSlot)
    /\ slots_used' = IF slot_free # <<>> THEN slots_used ELSE slots_used + 1
    /\ UNCHANGED <<slots, session_spans_open, nrecVars, span_stack,
                   gen_counter, owned, coreVars, callVars, dispatch_depth,
                   exiting, histVars>>

(* A handle resolves while its slot or nrec still has its generation.      *)
Resolves(rec, idx) ==
    IF rec THEN idx \in OpenSlots ELSE idx \in OpenNrecs

(* api_span_end: the span's own entry is at pos (0 when detached and not   *)
(* active); whatever is above it is unwound first.                         *)
api_span_end(rec, idx) ==
    /\ Serving
    /\ Resolves(rec, idx)
    /\ pc' = "unwind"
    /\ target' = [pos |-> stack_find(rec, idx), rec |-> rec, idx |-> idx,
                  after |-> "end"]
    /\ UNCHANGED <<poolVars, nrecVars, span_stack, gen_counter, owned,
                   coreVars, hook, ending, dispatch_depth, exiting, histVars>>

Detached(rec, idx) == IF rec THEN slots[idx].detached ELSE nrecs[idx].detached

(* api_span_deactivate of a token (callers get one only for a detached     *)
(* span) whose span is on the stack.                                       *)
api_span_deactivate(rec, idx) ==
    /\ Serving
    /\ Resolves(rec, idx) /\ Detached(rec, idx)
    /\ stack_find(rec, idx) # 0
    /\ pc' = "unwind"
    /\ target' = [pos |-> stack_find(rec, idx), rec |-> rec, idx |-> idx,
                  after |-> "pop"]
    /\ UNCHANGED <<poolVars, nrecVars, span_stack, gen_counter, owned,
                   coreVars, hook, ending, dispatch_depth, exiting, histVars>>

(* api_span_activate of a detached span that is not on the stack.          *)
api_span_activate(rec, idx) ==
    /\ Serving
    /\ Resolves(rec, idx) /\ Detached(rec, idx)
    /\ stack_find(rec, idx) = 0
    /\ Len(span_stack) < MAX_STACK_DEPTH
    /\ stack_push(rec, idx, TRUE, level)
    /\ UNCHANGED <<poolVars, nrecVars, gen_counter, owned, coreVars, callVars,
                   dispatch_depth, exiting, histVars>>

DiscardFails_m(idx) ==
    /\ slots[idx].owner # NoOwner
    /\ Count("discarded")
    /\ UNCHANGED <<poolVars, nrecVars, owned>>

(* release_slot's ResourceOwnerForget raises ERROR, after the stack entry  *)
(* is gone and before the discard is counted.                              *)
DiscardFails(idx) ==
    /\ slots[idx].owner # NoOwner
    /\ UNCHANGED <<poolVars, nrecVars, owned, tally>>

(* api_span_discard: off the stack wherever it is, nothing is exported.    *)
api_span_discard(rec, idx) ==
    /\ Serving
    /\ Resolves(rec, idx)
    /\ span_stack' = stack_without(rec, idx)
    /\ \/ /\ rec
          /\ ResourceOwnerForget(idx)
          /\ release_slot(idx, FALSE)
          /\ Count("discarded")
          /\ UNCHANGED nrecVars
       \/ /\ ~rec
          /\ free_nrec(idx, FALSE)
          /\ tally' = [tally EXCEPT !["discarded"] = @ + 1,
                                    !["nrec_discards"] = @ + 1]
          /\ UNCHANGED <<poolVars, owned>>
       \/ rec /\ DiscardFails(idx)
    /\ UNCHANGED <<gen_counter, coreVars, callVars, dispatch_depth, exiting,
                   issued, emits, owner_ended>>

-----------------------------------------------------------------------------
(* stack_unwind_above, one iteration per step.                             *)

Unwinding == pc = "unwind" /\ target.pos # 0 /\ Len(span_stack) > target.pos
TopEntry  == span_stack[Len(span_stack)]

(* An activation is popped and its span left open; any other entry's span  *)
(* is ended.                                                               *)
TopIsActivation_m == FALSE
TopIsActivation == TopEntry.is_activation

UnwindActivation_m == Unwinding /\ TopIsActivation /\ UNCHANGED vars

UnwindActivation ==
    /\ Unwinding
    /\ TopIsActivation
    /\ span_stack' = Pop(span_stack)
    /\ UNCHANGED <<poolVars, nrecVars, gen_counter, owned, coreVars, callVars,
                   dispatch_depth, exiting, histVars>>

UnwindNrec ==
    /\ Unwinding
    /\ ~TopIsActivation /\ ~TopEntry.rec
    /\ span_stack' = Pop(span_stack)
    /\ free_nrec(TopEntry.idx, FALSE)
    /\ UNCHANGED <<poolVars, gen_counter, owned, coreVars, callVars,
                   dispatch_depth, exiting, histVars>>

UnwindSlot ==
    /\ Unwinding
    /\ ~TopIsActivation /\ TopEntry.rec
    /\ span_stack' = Pop(span_stack)
    /\ end_slot(TopEntry.idx, "unwind")
    /\ UNCHANGED <<nrecVars, gen_counter, coreVars, ending, exiting>>

(* Nothing is left above: pop the target's own entry, then end the span    *)
(* (otel_span_end) or leave it open (otel_span_deactivate).                *)
UnwindDone ==
    /\ pc = "unwind"
    /\ target.pos = 0 \/ Len(span_stack) = target.pos

PopTarget ==
    span_stack' = IF target.pos = 0 THEN span_stack ELSE Pop(span_stack)

FinishDeactivate ==
    /\ UnwindDone
    /\ target.after = "pop"
    /\ PopTarget
    /\ Resume("idle")
    /\ UNCHANGED <<poolVars, nrecVars, gen_counter, owned, coreVars, hook,
                   ending, dispatch_depth, exiting, histVars>>

FinishEndNrec ==
    /\ UnwindDone
    /\ target.after = "end" /\ ~target.rec
    /\ PopTarget
    /\ free_nrec(target.idx, FALSE)
    /\ Resume("idle")
    /\ UNCHANGED <<poolVars, gen_counter, owned, coreVars, hook, ending,
                   dispatch_depth, exiting, histVars>>

FinishEndSlot ==
    /\ UnwindDone
    /\ target.after = "end" /\ target.rec
    /\ PopTarget
    /\ end_slot(target.idx, "idle")
    /\ UNCHANGED <<nrecVars, gen_counter, coreVars, ending, exiting>>

-----------------------------------------------------------------------------
(* The emit hook is running for slot hook.slot.                         *)

(* It returns, or raises an ERROR that dispatch_span catches: either way   *)
(* the span counts as emitted and its slot is freed.  Called from          *)
(* ReleaseResource, the owner's entry goes away only now.                  *)
HookReturns ==
    LET i == hook.slot
        byOwner == hook.ret = "release"
        g == slots[i].gen
    IN
    /\ pc = "hook"
    /\ dispatch_depth' = dispatch_depth - 1
    /\ release_slot(i, byOwner)
    /\ owned' = IF byOwner THEN [o \in Owner |-> owned[o] \ {<<i, g>>}]
                ELSE owned
    /\ owner_ended' = IF byOwner THEN owner_ended \union {<<TRUE, i, g>>}
                      ELSE owner_ended
    /\ Count("emitted")
    /\ Resume(hook.ret)
    /\ hook' = NoHook
    /\ UNCHANGED <<nrecVars, span_stack, gen_counter, coreVars, ending,
                   exiting, issued, emits>>

(* It raises FATAL: proc_exit runs with the slot still dispatching and     *)
(* dispatch_depth still raised.  A second FATAL while exiting skips the    *)
(* rest of the cleanup.                                                    *)
HookFatal ==
    /\ pc = "hook"
    /\ exiting' = IF exiting = "no" THEN "exiting" ELSE "gone"
    /\ Resume("idle")
    /\ hook' = NoHook
    /\ ending' = NoEnding
    /\ UNCHANGED <<poolVars, nrecVars, span_stack, gen_counter, owned,
                   coreVars, dispatch_depth, histVars>>

-----------------------------------------------------------------------------
(* Transactions, as core drives them.                                      *)

XactIdle == pc = "idle" /\ exiting # "gone"

BeginLevel ==
    /\ XactIdle /\ exiting = "no"
    /\ level < MAX_LEVEL
    /\ level' = level + 1
    /\ UNCHANGED <<poolVars, nrecVars, span_stack, gen_counter, owned, portal,
                   callVars, dispatch_depth, exiting, histVars>>

(* A portal's resource owner is a child of the current level's owner.      *)
OpenPortal ==
    /\ XactIdle /\ exiting = "no"
    /\ level > 0 /\ portal = 0
    /\ portal' = level
    /\ UNCHANGED <<poolVars, nrecVars, span_stack, gen_counter, owned, level,
                   callVars, dispatch_depth, exiting, histVars>>

(* PortalDrop releases the portal's owner; commit tells a portal that      *)
(* finished from one that failed.                                          *)
DropPortal(commit) ==
    /\ XactIdle /\ exiting = "no"
    /\ portal > 0
    /\ pc' = "release"
    /\ ending' = [lev |-> 0, commit |-> commit, releasing |-> {PORTAL}]
    /\ UNCHANGED <<poolVars, nrecVars, span_stack, gen_counter, owned,
                   coreVars, target, hook, dispatch_depth, exiting, histVars>>

(* CommitTransaction: portals are gone, then the callbacks, then owners.   *)
CommitTop ==
    /\ XactIdle /\ exiting = "no"
    /\ level = 1 /\ portal = 0
    /\ pc' = "drop_nrecs"
    /\ ending' = [lev |-> 1, commit |-> TRUE, releasing |-> {1}]
    /\ UNCHANGED <<poolVars, nrecVars, span_stack, gen_counter, owned,
                   coreVars, target, hook, dispatch_depth, exiting, histVars>>

(* CommitSubTransaction: otel_subxact_callback ignores COMMIT_SUB; the     *)
(* portal's owner passes to the parent level.                              *)
CommitSub ==
    /\ XactIdle /\ exiting = "no"
    /\ level > 1
    /\ portal' = IF portal = level THEN level - 1 ELSE portal
    /\ pc' = "release"
    /\ ending' = [lev |-> level, commit |-> TRUE, releasing |-> {level}]
    /\ UNCHANGED <<poolVars, nrecVars, span_stack, gen_counter, owned, level,
                   target, hook, dispatch_depth, exiting, histVars>>

(* AbortTransaction and AbortSubTransaction: the callbacks, then the       *)
(* owners, children first.  Also what backend exit does, level by level.   *)
Abort ==
    /\ XactIdle
    /\ level > 0
    /\ pc' = "drop_nrecs"
    /\ ending' = [lev |-> level, commit |-> FALSE,
                  releasing |-> {level} \union
                                (IF portal = level THEN {PORTAL} ELSE {})]
    /\ UNCHANGED <<poolVars, nrecVars, span_stack, gen_counter, owned,
                   coreVars, target, hook, dispatch_depth, exiting, histVars>>

(* drop_nrecs_from_level(lev), one iteration of its two loops per step.    *)
NrecEntriesToDrop ==
    {k \in 1..Len(span_stack) :
        /\ ~span_stack[k].rec
        /\ nrecs[span_stack[k].idx].nest_level >= ending.lev}

NrecsToDrop == {i \in OpenNrecs : nrecs[i].nest_level >= ending.lev}

DropNrecEntry ==
    /\ pc = "drop_nrecs"
    /\ \E k \in NrecEntriesToDrop :
         /\ Topmost(k, NrecEntriesToDrop)
         /\ span_stack' = stack_remove_at(k)
    /\ UNCHANGED <<poolVars, nrecVars, gen_counter, owned, coreVars, callVars,
                   dispatch_depth, exiting, histVars>>

DropNrec ==
    /\ pc = "drop_nrecs"
    /\ NrecEntriesToDrop = {}
    /\ \E i \in NrecsToDrop :
         /\ \A j \in NrecsToDrop : i <= j
         /\ free_nrec(i, TRUE)
         /\ owner_ended' = owner_ended \union {<<FALSE, i, nrecs[i].gen>>}
    /\ UNCHANGED <<poolVars, span_stack, gen_counter, owned, coreVars,
                   callVars, dispatch_depth, exiting, issued, emits, tally>>

NrecsDropped ==
    /\ pc = "drop_nrecs"
    /\ NrecEntriesToDrop = {} /\ NrecsToDrop = {}
    /\ pc' = "drop_activations"
    /\ UNCHANGED <<poolVars, nrecVars, span_stack, gen_counter, owned,
                   coreVars, target, hook, ending, dispatch_depth, exiting,
                   histVars>>

(* drop_activations_from_level(lev, ...), one iteration per step.          *)
ActivationsToDrop ==
    {k \in 1..Len(span_stack) : /\ span_stack[k].is_activation
                                /\ span_stack[k].nest_level >= ending.lev}

DropActivation ==
    /\ pc = "drop_activations"
    /\ \E k \in ActivationsToDrop :
         /\ Topmost(k, ActivationsToDrop)
         /\ span_stack' = stack_remove_at(k)
    /\ UNCHANGED <<poolVars, nrecVars, gen_counter, owned, coreVars, callVars,
                   dispatch_depth, exiting, histVars>>

ActivationsDropped ==
    /\ pc = "drop_activations"
    /\ ActivationsToDrop = {}
    /\ pc' = "release"
    /\ UNCHANGED <<poolVars, nrecVars, span_stack, gen_counter, owned,
                   coreVars, target, hook, ending, dispatch_depth, exiting,
                   histVars>>

(* The owner whose entries are released now: a child before its parent.    *)
ReleasingNow ==
    IF PORTAL \in ending.releasing /\ owned[PORTAL] # {} THEN PORTAL
    ELSE ending.lev

Releasing(o, i) ==
    /\ pc = "release"
    /\ o = ReleasingNow /\ o \in ending.releasing
    /\ <<i, slots[i].gen>> \in owned[o]
    /\ span_stack' = stack_without(TRUE, i)

(* otel_span_release_resource of a span leaked at commit (DebugPrint has   *)
(* just marked it), or of one whose dispatch a FATAL cut short: freed      *)
(* without an export.                                                      *)
NotExported_m(i) == ending.commit
NotExported(i) == ending.commit \/ slots[i].dispatching

ReleaseLeaked(o, i) ==
    /\ Releasing(o, i)
    /\ NotExported(i)
    /\ release_slot(i, TRUE)
    /\ owned' = [owned EXCEPT ![o] = @ \ {<<i, slots[i].gen>>}]
    /\ owner_ended' = owner_ended \union {<<TRUE, i, slots[i].gen>>}
    /\ Count(IF ending.commit THEN "leaked" ELSE "dropped")
    /\ UNCHANGED <<nrecVars, gen_counter, coreVars, callVars, dispatch_depth,
                   exiting, issued, emits>>

(* otel_span_release_resource on abort: end_slot with the owner already    *)
(* cleared.  The owner drops its entry when the callback returns.          *)
ReleaseAborted(o, i) ==
    /\ Releasing(o, i)
    /\ ~NotExported(i)
    /\ dispatch_span(i, "release", TRUE)
    /\ owned' = IF pc' = "hook" THEN owned
                ELSE [owned EXCEPT ![o] = @ \ {<<i, slots[i].gen>>}]
    /\ UNCHANGED <<nrecVars, gen_counter, coreVars, ending, exiting>>

ReleaseDone ==
    /\ pc = "release"
    /\ \A o \in ending.releasing : owned[o] = {}
    /\ pc' = "idle"
    /\ level' = IF ending.lev > 0 THEN ending.lev - 1 ELSE level
    /\ portal' = IF PORTAL \in ending.releasing THEN 0 ELSE portal
    /\ ending' = NoEnding
    /\ UNCHANGED <<poolVars, nrecVars, span_stack, gen_counter, owned, target,
                   hook, dispatch_depth, exiting, histVars>>

(* The client disconnects: proc_exit, which aborts what is in progress.    *)
ProcExit ==
    /\ XactIdle /\ exiting = "no"
    /\ exiting' = "exiting"
    /\ UNCHANGED <<poolVars, nrecVars, span_stack, gen_counter, owned,
                   coreVars, callVars, dispatch_depth, histVars>>

Exited ==
    /\ XactIdle /\ exiting = "exiting"
    /\ level = 0
    /\ exiting' = "gone"
    /\ UNCHANGED <<poolVars, nrecVars, span_stack, gen_counter, owned,
                   coreVars, callVars, dispatch_depth, histVars>>

Gone == exiting = "gone" /\ UNCHANGED vars

-----------------------------------------------------------------------------
Init ==
    /\ slots = [i \in SlotIdx |-> ZeroSlot]
    /\ slots_used = 0
    /\ slot_free = <<>>
    /\ session_spans_open = 0
    /\ nrecs = [i \in NrecIdx |-> ZeroNrec]
    /\ nrecs_used = 0
    /\ nrec_free = <<>>
    /\ span_stack = <<>>
    /\ gen_counter \in SEEDS
    /\ owned = [o \in Owner |-> {}]
    /\ level = 0
    /\ portal = 0
    /\ pc = "idle"
    /\ target = NoTarget
    /\ hook = NoHook
    /\ ending = NoEnding
    /\ dispatch_depth = 0
    /\ exiting = "no"
    /\ issued = {}
    /\ emits = [g \in Gen |-> 0]
    /\ owner_ended = {}
    /\ tally = [f \in TallyField |-> 0]

(* What clients of the API and core may do next.                           *)
Calls ==
    \/ \E detached, session \in BOOLEAN : start_nrec(detached, session)
    \/ \E detached \in BOOLEAN, owner \in LiveOwners \union {NoOwner} :
         \/ api_span_start(detached, owner)
         \/ StartContextError(detached, owner)
    \/ \E rec \in BOOLEAN, idx \in SlotIdx \union NrecIdx :
         \/ api_span_end(rec, idx)
         \/ api_span_discard(rec, idx)
         \/ api_span_activate(rec, idx)
         \/ api_span_deactivate(rec, idx)

Transactions ==
    \/ BeginLevel \/ OpenPortal
    \/ \E commit \in BOOLEAN : DropPortal(commit)
    \/ CommitTop \/ CommitSub \/ Abort
    \/ ProcExit \/ Exited \/ Gone

(* The rest of a call once it has begun.                                   *)
Proceed ==
    \/ UnwindActivation \/ UnwindNrec \/ UnwindSlot
    \/ FinishDeactivate \/ FinishEndNrec \/ FinishEndSlot
    \/ HookReturns \/ HookFatal
    \/ DropNrecEntry \/ DropNrec \/ NrecsDropped
    \/ DropActivation \/ ActivationsDropped
    \/ \E o \in Owner, i \in SlotIdx :
         ReleaseLeaked(o, i) \/ ReleaseAborted(o, i)
    \/ ReleaseDone

Next == Calls \/ Transactions \/ Proceed

Spec == Init /\ [][Next]_vars

(* A call runs to its end: the backend does not stop inside otel_api, and  *)
(* an emit hook returns or throws.                                         *)
FairSpec == Spec /\ WF_vars(Proceed)

-----------------------------------------------------------------------------
(* Properties.                                                             *)

Stages == {"idle", "unwind", "hook", "drop_nrecs", "drop_activations",
           "release"}

(* Every variable keeps its type; in particular no index leaves its array, *)
(* whatever the lists and the stack hold.                                  *)
TypeOK ==
    /\ slots \in [SlotIdx -> Slot]
    /\ slots_used \in 0..MAX_OPEN_SPANS
    /\ slot_free \in Seq(SlotIdx)
    /\ session_spans_open \in Int
    /\ nrecs \in [NrecIdx -> Nrec]
    /\ nrecs_used \in 0..MAX_STACK_DEPTH
    /\ nrec_free \in Seq(NrecIdx)
    /\ span_stack \in Seq(Entry)
    /\ gen_counter \in 0..GEN_MASK
    /\ owned \in [Owner -> SUBSET (SlotIdx \X Gen)]
    /\ level \in Level
    /\ portal \in Level
    /\ pc \in Stages
    /\ target \in Target
    /\ hook \in Hook
    /\ ending \in Ending
    /\ dispatch_depth \in Int
    /\ exiting \in {"no", "exiting", "gone"}
    /\ issued \subseteq Gen
    /\ emits \in [Gen -> Nat]
    /\ owner_ended \subseteq (BOOLEAN \X Nat \X Gen)
    /\ tally \in [TallyField -> Nat]

(* No span reaches the exporter twice, whatever mix of end, unwind, abort, *)
(* ERROR and FATAL from the hook, and second release at backend exit.      *)
ExportAtMostOnce == \A g \in Gen : emits[g] <= 1

(* The free list holds exactly the initialised slots that are free, each   *)
(* once: no slot is lost by an error path and none is handed out twice.    *)
SlotFreeListExact ==
    /\ \A j, k \in 1..Len(slot_free) : slot_free[j] = slot_free[k] => j = k
    /\ \A i \in SlotIdx :
         (i < slots_used /\ slots[i].gen = 0)
            <=> \E k \in 1..Len(slot_free) : slot_free[k] = i

(* The same for non-recording entries, which only transaction callbacks    *)
(* clean up.                                                               *)
NrecFreeListExact ==
    /\ \A j, k \in 1..Len(nrec_free) : nrec_free[j] = nrec_free[k] => j = k
    /\ \A i \in NrecIdx :
         (i < nrecs_used /\ nrecs[i].gen = 0)
            <=> \E k \in 1..Len(nrec_free) : nrec_free[k] = i

(* Every entry of the active stack names an open span that is not already  *)
(* being dispatched, no span is on it twice, and an entry is an activation *)
(* exactly when its span is detached: so the current span is always one    *)
(* that a child can take as its parent, and end_slot's Assert holds.       *)
StackNamesOpenSpans ==
    /\ \A k \in 1..Len(span_stack) :
         LET e == span_stack[k] IN
         IF e.rec
         THEN /\ e.idx \in OpenSlots
              /\ ~slots[e.idx].dispatching
              /\ e.is_activation = slots[e.idx].detached
         ELSE /\ e.idx \in OpenNrecs
              /\ e.is_activation = nrecs[e.idx].detached
    /\ \A j, k \in 1..Len(span_stack) :
         /\ span_stack[j].rec = span_stack[k].rec
         /\ span_stack[j].idx = span_stack[k].idx
         => j = k
    /\ Len(span_stack) <= MAX_STACK_DEPTH

(* A slot that names an owner is remembered by it, and a remembered handle *)
(* names a slot that is open and either belongs to that owner or is the    *)
(* one whose release was cut short in the emit hook.                       *)
OwnersRemember ==
    /\ \A i \in OpenSlots : slots[i].owner # NoOwner =>
         <<i, slots[i].gen>> \in owned[slots[i].owner]
    /\ \A o \in Owner : \A h \in owned[o] :
         /\ slots[h[1]].gen = h[2]
         /\ \/ slots[h[1]].owner = o
            \/ slots[h[1]].owner = NoOwner /\ slots[h[1]].dispatching

(* Between calls, every open span has somebody who will end it: it is a    *)
(* session span, or its owner is still there to release it, or the backend *)
(* is exiting out of its dispatch.                                         *)
NoSpanOrphaned ==
    pc = "idle" =>
        \A i \in OpenSlots : \/ slots[i].session
                             \/ slots[i].owner \in LiveOwners
                             \/ slots[i].dispatching /\ exiting # "no"

(* The counters add up: every span started is still open or is counted in  *)
(* exactly one of emitted, discarded, leaked and dropped (or ended when    *)
(* nobody was listening); and session_spans_open is the number of open     *)
(* session spans, so their budget is neither leaked nor exceeded.          *)
CountersAddUp ==
    /\ tally["started"] =
         Cardinality(OpenSlots) + tally["emitted"] + tally["unseen"]
         + (tally["discarded"] - tally["nrec_discards"])
         + tally["leaked"] + tally["dropped"]
    /\ session_spans_open = Cardinality({i \in OpenSlots : slots[i].session})
    /\ session_spans_open <= MAX_SESSION_SPANS

(* A LIFO unwind never ends a detached span it passes over: in a step of   *)
(* an unwind the only detached span that can change is the one being ended.*)
UnwindSparesActivated ==
    [][pc = "unwind" =>
        \A i \in OpenSlots :
            (slots[i].detached /\ slots'[i] # slots[i]) =>
                (target.after = "end" /\ target.rec /\ target.idx = i)]_vars

(* A call of the API, and a (sub)transaction end, always comes back.       *)
CallsReturn == (pc # "idle") ~> (pc = "idle")

(* The producer implements the contract: a generation is open while a slot *)
(* holds it and it has not been passed to the exporter.                    *)
ContractStatus ==
    [g \in Gen |->
        IF emits[g] # 0 THEN "exported"
        ELSE IF \E i \in OpenSlots : slots[i].gen = g THEN "open"
        ELSE IF g \in issued THEN "dropped"
        ELSE "new"]

Contract == INSTANCE SpanContract
                WITH Span <- Gen, status <- ContractStatus, exports <- emits

(* Every behaviour of the slot pool, stack, owners and hook is one of the  *)
(* contract: a started span is exported once or dropped, never both, and   *)
(* a span that left the pool never comes back.                             *)
ImplementsContract == Contract!Spec

(* The parts that make the invariants above inductive.  Slots and nrecs    *)
(* never initialised are free.                                             *)
NeverUsedIsFree ==
    /\ \A i \in SlotIdx : i >= slots_used => slots[i].gen = 0
    /\ \A i \in NrecIdx : i >= nrecs_used => nrecs[i].gen = 0

(* During an unwind the target stays open, undispatched and where it was   *)
(* found; the slot inside the hook is open, marked and off the stack.      *)
CallInProgress ==
    /\ pc = "unwind" \/ (pc = "hook" /\ hook.ret = "unwind") =>
         /\ Resolves(target.rec, target.idx)
         /\ target.rec => ~slots[target.idx].dispatching
         /\ target.pos <= Len(span_stack)
         /\ target.pos # 0 => /\ span_stack[target.pos].rec = target.rec
                             /\ span_stack[target.pos].idx = target.idx
         /\ target.pos = 0 => \A k \in 1..Len(span_stack) :
                                ~(/\ span_stack[k].rec = target.rec
                                  /\ span_stack[k].idx = target.idx)
    /\ pc = "hook" => /\ hook.slot \in OpenSlots
                      /\ slots[hook.slot].dispatching

(* dispatch_depth is raised inside a hook, and an open slot is marked      *)
(* dispatching only there or once a FATAL has the backend exiting.         *)
DispatchAccounted ==
    /\ dispatch_depth >= 0
    /\ pc = "hook" => dispatch_depth > 0
    /\ \A i \in OpenSlots : slots[i].dispatching =>
         \/ exiting # "no"
         \/ pc = "hook" /\ hook.slot = i

(* An open span's generation was handed out, is no other open span's, and  *)
(* has not reached the exporter unless the slot is marked dispatching.     *)
UnexportedWhileOpen ==
    /\ \A i \in OpenSlots : /\ slots[i].gen \in issued
                            /\ ~slots[i].dispatching => emits[slots[i].gen] = 0
    /\ \A i, j \in OpenSlots : slots[i].gen = slots[j].gen => i = j
    /\ \A g \in Gen : g \notin issued => emits[g] = 0

(* The inductive invariant of the producer: pools, stack, the call in      *)
(* progress and the account of exports fit together between any two steps. *)
IInv ==
    /\ TypeOK
    /\ SlotFreeListExact
    /\ NrecFreeListExact
    /\ NeverUsedIsFree
    /\ StackNamesOpenSpans
    /\ CallInProgress
    /\ DispatchAccounted
    /\ UnexportedWhileOpen
    /\ ExportAtMostOnce

-----------------------------------------------------------------------------
(* What comments of the code say and the code does not do: none of the     *)
(* statements below holds of this model.                                   *)

(* What the header comment of otel_producer.c says of nrecs: subtransaction*)
(* end drops the entries of its level, so none is left with a level deeper *)
(* than the current one.                                                   *)
NrecsEndWithSubxact ==
    pc = "idle" => \A i \in OpenNrecs : nrecs[i].nest_level <= level

(* What StackEntryMeta's comment says of activations: they are popped by a *)
(* (sub)transaction ending at or above their level.                        *)
ActivationsEndWithSubxact ==
    pc = "idle" => \A k \in 1..Len(span_stack) :
        span_stack[k].is_activation => span_stack[k].nest_level <= level

(* slot_for_ref and nrec_for_ref count h as a stale handle.                *)
CountedStale(h) ==
    LET e == IF h[1] THEN slots[h[2]] ELSE nrecs[h[2]]
    IN e.gen # h[3] /\ e.owner_released_gen # h[3]

(* What the comments say of a handle whose span its owner ended: using it  *)
(* is a quiet no-op, never counted as stale.                               *)
OwnerEndedStaysQuiet == \A h \in owner_ended : ~CountedStale(h)
=============================================================================

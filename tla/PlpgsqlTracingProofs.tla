------------------------ MODULE PlpgsqlTracingProofs ------------------------
(***************************************************************************)
(* Proofs about PL/pgSQL tracing, for any nesting of calls, statements and *)
(* transactions and any number of spans.  What runs (ShapeInv) is bound to *)
(* its spans (SpanInv), and these to the registry of session spans, in the *)
(* middle of an abort too.                                                 *)
(***************************************************************************)
EXTENDS PlpgsqlTracing, StackFacts

(***************************************************************************)
(* The inductive invariant: what runs.                                     *)
(***************************************************************************)

CallFrame == [kind : {"fn"}, traced : BOOLEAN, nonatomic : BOOLEAN,
              use_session_owner : BOOLEAN, func_span : Ref,
              stack : Seq(Entry), begun : BOOLEAN]
Frame == CallFrame \union StmtFrame \union OtherFrame

RegEntry == [span : Spans, nest_level : 1..MAX_LEVEL]

(* The variables are the sequences TypeOK takes them for.                  *)
Types ==
    /\ frames \in Seq(Frame)
    /\ level \in 1..MAX_LEVEL
    /\ registry \in Seq(RegEntry)
    /\ owner \in [Spans -> {NoSpan, SESSION} \union 1..MAX_LEVEL]
    /\ active \in Seq(Spans)
    /\ pc \in Stages
    /\ misuse \subseteq {"lifo", "stale"}
    /\ rolled_back \in BOOLEAN

(* Frame c is the call that frame k is, or is a statement of.              *)
CallOf(c, k) ==
    /\ c \in 1..k /\ frames[c].kind = "fn"
    /\ \A j \in (c + 1)..k : frames[j].kind = "stmt"

(* Every statement is one of a call; an untraced call has no spans; and    *)
(* the owner is chosen per call, nonatomic calls being outermost.          *)
CallFits(k) ==
    /\ frames[k].kind = "stmt" => \E c \in 1..k : CallOf(c, k)
    /\ frames[k].kind = "fn" =>
         /\ frames[k].use_session_owner
              <=> frames[k].traced /\ frames[k].nonatomic
         /\ ~frames[k].traced =>
              frames[k].func_span = 0 /\ frames[k].stack = <<>>
         /\ frames[k].nonatomic =>
              \A j \in FnIndexes : j < k => frames[j].nonatomic

CallsFit == \A k \in 1..Len(frames) : CallFits(k)

(* The statements of a traced call are on its stack, in their order, with  *)
(* their spans, among entries that an error has left there; ids are on it  *)
(* once.                                                                   *)
At(c, k, p) == frames[c].stack[p].stmtid = frames[k].stmtid

Remembered(c, k) ==
    LET places == 1..Len(frames[c].stack)
    IN /\ IF frames[c].traced
          THEN \E p \in places : /\ At(c, k, p)
                                 /\ frames[c].stack[p].span = frames[k].span
          ELSE frames[k].span = 0
       /\ \A j \in (c + 1)..(k - 1) : \A p, q \in places :
            At(c, j, p) /\ At(c, k, q) => p < q

IdsDiffer(stack) ==
    \A p, q \in 1..Len(stack) : p < q => stack[p].stmtid # stack[q].stmtid

StacksFit ==
    \A c \in FnIndexes :
        /\ IdsDiffer(frames[c].stack)
        /\ \A k \in (c + 1)..Len(frames) : CallOf(c, k) => Remembered(c, k)

(* The subtransactions are those of the blocks, from the outermost inwards,*)
(* and each stage has what it works on.                                    *)
BlocksFit ==
    /\ \A k \in Blocks : frames[k].sub \in 2..level
    /\ \A j, k \in Blocks : j < k => frames[j].sub < frames[k].sub
    /\ \A l \in 2..level : \E k \in Blocks : frames[k].sub = l

StagesFit ==
    /\ pc = "subabort" =>
         /\ frames # <<>> /\ Last(frames).kind = "stmt"
         /\ Last(frames).sub = level /\ level > 1
    /\ pc = "abort" => frames = <<>>
    /\ pc = "rollback" => level = 1 /\ rolled_back

ShapeInv == Types /\ CallsFit /\ StacksFit /\ BlocksFit /\ StagesFit

(***************************************************************************)
(* The inductive invariant: the spans.                                     *)
(***************************************************************************)

SpanOf(f) == IF f.kind = "fn" THEN f.func_span ELSE f.span

(* Frame k's span is a session span.                                       *)
Session(k) == \E c \in 1..k : CallOf(c, k) /\ frames[c].use_session_owner

Before(s, t) == \E a, b \in 1..Len(active) :
                   a < b /\ active[a] = s /\ active[b] = t

(* An entry of the registry whose span is to be ended by the abort.        *)
Leaked(e) == e.nest_level >= level

(* The active stack has the open spans, each once.                         *)
ActiveIsOpen ==
    /\ Items(active) = {s \in Spans : IsOpen(s)}
    /\ \A j, k \in 1..Len(active) : j < k => active[j] # active[k]

(* Frames have spans of their own, which nest as they do; a session span   *)
(* is a session call's.                                                    *)
SpansDiffer ==
    \A j, k \in 1..Len(frames) :
        j # k /\ SpanOf(frames[j]) # 0 => SpanOf(frames[j]) # SpanOf(frames[k])

SpansNest ==
    \A j, k \in 1..Len(frames) :
        LET s == SpanOf(frames[j])
            t == SpanOf(frames[k])
        IN (j < k /\ s # 0 /\ t # 0 /\ IsOpen(s) /\ IsOpen(t)) => Before(s, t)

OwnersFit ==
    \A k \in 1..Len(frames) :
        LET s == SpanOf(frames[k])
        IN s # 0 /\ IsOpen(s) => (owner[s] = SESSION <=> Session(k))

(* A frame and its span are of the same level: both are younger than a     *)
(* block's subtransaction, or neither is.                                  *)
Fits(k, l) == \A j \in Blocks : j < k <=> frames[j].sub <= l

HasLevel(s, l) ==
    \/ owner[s] = l /\ l > 0
    \/ \E e \in Items(registry) : e.span = s /\ e.nest_level = l

LevelsFit ==
    /\ \A s \in Spans : owner[s] <= level
    /\ \A e \in Items(registry) : e.nest_level <= level
    /\ \A k \in 1..Len(frames) : \A l \in 1..MAX_LEVEL :
         LET s == SpanOf(frames[k])
         IN s # 0 /\ HasLevel(s, l) => Fits(k, l)

(* Every open span is that of a frame; in an abort it may be one that the  *)
(* callback has still to end.                                              *)
SpansHeld ==
    \A s \in Spans : IsOpen(s) =>
        \/ \E k \in 1..Len(frames) : SpanOf(frames[k]) = s
        \/ /\ pc \in {"subabort", "abort"}
           /\ \E e \in Items(registry) : e.span = s /\ Leaked(e)

(* What the callback will end is above what it must not.                   *)
AbortEndsTop ==
    /\ pc \in {"subabort", "abort", "rollback"} =>
         \A s \in Spans : \A e \in Items(registry) :
             owner[s] > 0 /\ Leaked(e) => Before(s, e.span)
    /\ pc = "subabort" => \A s \in Spans : owner[s] < level
    /\ pc \in {"abort", "rollback"} => \A s \in Spans : owner[s] <= SESSION

(* Where a call's or a statement's session span was rolled back, those     *)
(* around it were too: so an end callback that forgets an entry forgets    *)
(* its own, or the registry is empty.                                      *)
StaleOutside ==
    pc # "rollback" =>
        \A k \in 1..Len(frames) :
            LET s == SpanOf(frames[k])
            IN (Session(k) /\ s # 0 /\ ~IsOpen(s)) =>
                 \A j \in 1..(k - 1) :
                     SpanOf(frames[j]) # 0 => owner[SpanOf(frames[j])] # SESSION

(* Unless a ROLLBACK ended them, the spans of what runs are open.          *)
OpenUnlessRolledBack ==
    ~rolled_back =>
        \A k \in 1..Len(frames) :
            (frames[k].kind # "other" /\ SpanOf(frames[k]) # 0)
            => IsOpen(SpanOf(frames[k]))

SpanInv ==
    /\ ActiveIsOpen /\ SpansDiffer /\ SpansNest /\ OwnersFit /\ LevelsFit
    /\ SpansHeld /\ AbortEndsTop /\ StaleOutside /\ OpenUnlessRolledBack
    /\ RegistryExact /\ EndsInnermostFirst

PlInv == ShapeInv /\ SpanInv

(***************************************************************************)
(* Lemmas about otel_api's reduced state.                                  *)
(***************************************************************************)

(* Values of owner are integers that compare as levels.                    *)
LEMMA OwnerFacts ==
    ASSUME Types
    PROVE  /\ level \in Nat /\ level >= 1 /\ level <= MAX_LEVEL
           /\ MAX_LEVEL \in Nat
           /\ \A s \in Spans : /\ owner[s] \in Int /\ owner[s] >= -1
                               /\ IsOpen(s) <=> owner[s] >= 0
                               /\ owner[s] # SESSION /\ IsOpen(s)
                                    <=> owner[s] > 0
                               /\ s \in Ref /\ s # 0
           /\ \A s \in Ref : s # 0 => s \in Spans
<1> USE PlpgsqlAssumption
<1>1. /\ level \in Nat /\ level >= 1 /\ level <= MAX_LEVEL
      /\ MAX_LEVEL \in Nat
  BY DEF Types
<1>2. ASSUME NEW s \in Spans
      PROVE  /\ owner[s] \in Int /\ owner[s] >= -1
             /\ IsOpen(s) <=> owner[s] >= 0
             /\ owner[s] # SESSION /\ IsOpen(s) <=> owner[s] > 0
             /\ s \in Ref /\ s # 0
  <2>1. owner[s] \in {NoSpan, SESSION} \union 1..MAX_LEVEL
    BY DEF Types
  <2> QED
    BY <1>1, <2>1 DEF IsOpen, NoSpan, SESSION, Ref
<1> QED
  BY <1>1, <1>2 DEF Ref

(* What is on the active stack once is in a strict order.                  *)
LEMMA BeforeFacts ==
    ASSUME Types, ActiveIsOpen
    PROVE  /\ \A s, t : Before(s, t) => /\ s \in Spans /\ t \in Spans /\ s # t
                                        /\ IsOpen(s) /\ IsOpen(t)
                                        /\ ~Before(t, s)
           /\ \A s, t \in Spans : IsOpen(s) /\ IsOpen(t) /\ s # t =>
                Before(s, t) \/ Before(t, s)
<1>1. active \in Seq(Spans) /\ Len(active) \in Nat
  BY DEF Types
<1>2. \A a \in 1..Len(active) : active[a] \in Spans /\ IsOpen(active[a])
  BY <1>1 DEF ActiveIsOpen, Items
<1>3. \A a, b \in 1..Len(active) : active[a] = active[b] => a = b
  BY <1>1 DEF ActiveIsOpen
<1>4. ASSUME NEW s, NEW t, Before(s, t)
      PROVE  /\ s \in Spans /\ t \in Spans /\ s # t
             /\ IsOpen(s) /\ IsOpen(t) /\ ~Before(t, s)
  <2>1. PICK a, b \in 1..Len(active) : a < b /\ active[a] = s /\ active[b] = t
    BY <1>4 DEF Before
  <2>2. s # t
    BY <1>1, <1>3, <2>1
  <2>3. ~Before(t, s)
    <3> SUFFICES ASSUME Before(t, s) PROVE FALSE
      OBVIOUS
    <3>1. PICK c, d \in 1..Len(active) : c < d /\ active[c] = t /\ active[d] = s
      BY DEF Before
    <3>2. c = b /\ d = a
      BY <1>3, <2>1, <3>1
    <3> QED
      BY <1>1, <2>1, <3>1, <3>2
  <2> QED
    BY <1>2, <2>1, <2>2, <2>3
<1>5. ASSUME NEW s \in Spans, NEW t \in Spans, IsOpen(s), IsOpen(t), s # t
      PROVE  Before(s, t) \/ Before(t, s)
  <2>1. PICK a \in 1..Len(active) : active[a] = s
    BY <1>5 DEF ActiveIsOpen, Items
  <2>2. PICK b \in 1..Len(active) : active[b] = t
    BY <1>5 DEF ActiveIsOpen, Items
  <2>3. a < b \/ b < a
    BY <1>1, <1>5, <2>1, <2>2
  <2> QED
    BY <2>1, <2>2, <2>3 DEF Before
<1> QED
  BY <1>4, <1>5

LEMMA AboveIsBefore ==
    ASSUME NEW s
    PROVE  Above(s) = {t \in Items(active) : Before(s, t)}
  BY DEF Above, Before, Items

(* A start opens at most a span that nothing refers to, above all others.  *)
LEMMA StartEffect ==
    ASSUME Types, ActiveIsOpen, NEW s \in Ref,
           NEW own \in {SESSION} \union 1..MAX_LEVEL, otel_span_start(s, own)
    PROVE  /\ s # 0 => s \in Unused
           /\ owner' \in [Spans -> {NoSpan, SESSION} \union 1..MAX_LEVEL]
           /\ \A t \in Spans : owner'[t] = IF t = s THEN own ELSE owner[t]
           /\ active' \in Seq(Spans)
           /\ ActiveIsOpen'
           /\ \A x, y : Before(x, y)' <=>
                Before(x, y) \/ (s # 0 /\ y = s /\ x \in Spans /\ IsOpen(x))
<1> USE PlpgsqlAssumption
<1>0. /\ active \in Seq(Spans) /\ Len(active) \in Nat
      /\ owner \in [Spans -> {NoSpan, SESSION} \union 1..MAX_LEVEL]
  BY DEF Types
<1>1. CASE s = 0
  <2>1. owner' = owner /\ active' = active /\ s \notin Spans
    BY <1>1 DEF otel_span_start
  <2>2. ActiveIsOpen'
    BY <2>1 DEF ActiveIsOpen, IsOpen
  <2>3. \A x, y : Before(x, y)' <=> Before(x, y)
    BY <2>1 DEF Before
  <2> QED
    BY <1>0, <1>1, <2>1, <2>2, <2>3
<1>2. CASE s # 0
  <2>1. s \in Unused
    <3>1. s \in Fresh
      BY <1>2 DEF otel_span_start
    <3>2. PICK n \in Unused : TRUE
      BY <3>1 DEF Fresh
    <3>3. s = CHOOSE x \in Unused : \A t \in Unused : x <= t
      BY <3>1 DEF Fresh
    <3>4. Unused \in SUBSET Nat /\ Unused # {}
      BY <3>2 DEF Unused
    <3>5. \E x \in Unused : \A t \in Unused : x <= t
      BY <3>4, LeastNat
    <3> QED
      BY <3>3, <3>5
  <2>2. s \in Spans /\ ~IsOpen(s)
    BY <2>1 DEF Unused
  <2>3. owner' = [owner EXCEPT ![s] = own] /\ active' = Append(active, s)
    BY <1>2 DEF otel_span_start
  <2>4. /\ owner' \in [Spans -> {NoSpan, SESSION} \union 1..MAX_LEVEL]
        /\ \A t \in Spans : owner'[t] = IF t = s THEN own ELSE owner[t]
    BY <1>0, <2>2, <2>3
  <2>5. own # NoSpan
    BY DEF NoSpan, SESSION
  <2>6. \A t \in Spans : IsOpen(t)' <=> t = s \/ IsOpen(t)
    BY <2>4, <2>5 DEF IsOpen
  <2>7. /\ active' \in Seq(Spans) /\ Len(active') = Len(active) + 1
        /\ \A k \in 1..Len(active) : active'[k] = active[k]
        /\ active'[Len(active) + 1] = s
        /\ Items(active') = Items(active) \union {s}
    BY <1>0, <2>2, <2>3, PushFacts
  <2>8. \A k \in 1..Len(active) : active[k] # s /\ active[k] \in Spans
                                  /\ IsOpen(active[k])
    BY <1>0, <2>2 DEF ActiveIsOpen, Items
  <2>9. ActiveIsOpen'
    <3>1. Items(active') = {t \in Spans : IsOpen(t)'}
      BY <2>2, <2>6, <2>7 DEF ActiveIsOpen
    <3>2. \A j, k \in 1..Len(active') : j < k => active'[j] # active'[k]
      <4> SUFFICES ASSUME NEW j \in 1..Len(active'), NEW k \in 1..Len(active'),
                          j < k
                   PROVE  active'[j] # active'[k]
        OBVIOUS
      <4>1. j \in 1..Len(active) /\ (k \in 1..Len(active) \/ k = Len(active) + 1)
        BY <1>0, <2>7, SMTT(30)
      <4> QED
        BY <2>7, <2>8, <4>1 DEF ActiveIsOpen
    <3> QED
      BY <3>1, <3>2 DEF ActiveIsOpen
  <2>10. ASSUME NEW x, NEW y
         PROVE  Before(x, y)' <=> Before(x, y) \/ (y = s /\ x \in Spans /\ IsOpen(x))
    <3>1. ASSUME Before(x, y)'
          PROVE  Before(x, y) \/ (y = s /\ x \in Spans /\ IsOpen(x))
      <4>1. PICK a, b \in 1..Len(active') :
                   a < b /\ active'[a] = x /\ active'[b] = y
        BY <3>1 DEF Before
      <4>2. a \in 1..Len(active) /\ (b \in 1..Len(active) \/ b = Len(active) + 1)
        BY <1>0, <2>7, <4>1, SMTT(30)
      <4>3. active[a] = x /\ x \in Spans /\ IsOpen(x)
        BY <2>7, <2>8, <4>1, <4>2
      <4>4. CASE b \in 1..Len(active)
        <5>1. active[b] = y
          BY <2>7, <4>1, <4>4
        <5> QED
          BY <4>1, <4>2, <4>3, <4>4, <5>1 DEF Before
      <4>5. CASE b = Len(active) + 1
        BY <2>7, <4>1, <4>3, <4>5
      <4> QED
        BY <4>2, <4>4, <4>5
    <3>2. ASSUME Before(x, y)
          PROVE  Before(x, y)'
      <4>1. PICK a, b \in 1..Len(active) :
                   a < b /\ active[a] = x /\ active[b] = y
        BY <3>2 DEF Before
      <4>2. /\ a \in 1..Len(active') /\ b \in 1..Len(active')
            /\ active'[a] = x /\ active'[b] = y
        BY <1>0, <2>7, <4>1
      <4> QED
        BY <4>1, <4>2 DEF Before
    <3>3. ASSUME y = s, x \in Spans, IsOpen(x)
          PROVE  Before(x, y)'
      <4>1. PICK a \in 1..Len(active) : active[a] = x
        BY <3>3 DEF ActiveIsOpen, Items
      <4>2. /\ a \in 1..Len(active') /\ Len(active) + 1 \in 1..Len(active')
            /\ a < Len(active) + 1
            /\ active'[a] = x /\ active'[Len(active) + 1] = y
        BY <1>0, <2>7, <3>3, <4>1
      <4> QED
        BY <4>2 DEF Before
    <3> QED
      BY <3>1, <3>2, <3>3
  <2> QED
    BY <1>2, <2>1, <2>4, <2>7, <2>9, <2>10
<1> QED
  BY <1>1, <1>2

(* Taking spans off the active stack as they end keeps the others' order.  *)
LEMMA KeepEffect ==
    ASSUME Types, ActiveIsOpen, NEW S,
           owner' \in [Spans -> {NoSpan, SESSION} \union 1..MAX_LEVEL],
           active' = Keep(active, S),
           \A t \in Spans : IsOpen(t)' <=> IsOpen(t) /\ t \in S
    PROVE  /\ active' \in Seq(Spans)
           /\ ActiveIsOpen'
           /\ \A x, y : Before(x, y)' <=> Before(x, y) /\ x \in S /\ y \in S
<1>0. active \in Seq(Spans) /\ Len(active) \in Nat
  BY DEF Types
<1>1. active' \in Seq(Spans) /\ Items(active') = Items(active) \intersect S
  BY <1>0, KeepItems
<1>2. ASSUME NEW x, NEW y
      PROVE  Before(x, y)' <=> Before(x, y) /\ x \in S /\ y \in S
  <2>0. active \in Seq(Spans)
    BY <1>0
  <2>1. InOrder(Keep(active, S), x, y)
        <=> x \in S /\ y \in S /\ InOrder(active, x, y)
    BY <2>0, KeepOrder
  <2> QED
    BY <1>1, <2>1 DEF Before, InOrder
<1>3. Items(active') = {t \in Spans : IsOpen(t)'}
  BY <1>1 DEF ActiveIsOpen
<1>4. ASSUME NEW j \in 1..Len(active'), NEW k \in 1..Len(active'), j < k,
             active'[j] = active'[k]
      PROVE  FALSE
  <2>0. PICK x : x = active'[j]
    OBVIOUS
  <2>1. Before(x, x)'
    BY <1>4, <2>0 DEF Before
  <2>2. Before(x, x)
    BY <1>2, <2>1
  <2> QED
    BY <2>2, BeforeFacts
<1>5. ActiveIsOpen'
  BY <1>3, <1>4 DEF ActiveIsOpen
<1> QED
  BY <1>1, <1>2, <1>5

(* The end of a span with nothing above it ends no other.                  *)
LEMMA EndEffect ==
    ASSUME Types, ActiveIsOpen, NEW s \in Ref, EndSpan(s),
           \A t : ~Before(s, t)
    PROVE  /\ owner' \in [Spans -> {NoSpan, SESSION} \union 1..MAX_LEVEL]
           /\ \A t \in Spans : owner'[t] = IF t = s THEN NoSpan ELSE owner[t]
           /\ active' \in Seq(Spans)
           /\ ActiveIsOpen'
           /\ \A x, y : Before(x, y)' <=> Before(x, y) /\ x # s /\ y # s
<1> USE PlpgsqlAssumption
<1>0. /\ active \in Seq(Spans)
      /\ owner \in [Spans -> {NoSpan, SESSION} \union 1..MAX_LEVEL]
  BY DEF Types
<1>1. CASE s = 0 \/ ~IsOpen(s)
  <2>1. owner' = owner /\ active' = active
    BY <1>1 DEF EndSpan
  <2>2. s = 0 => s \notin Spans
    OBVIOUS
  <2>3. s # 0 => owner[s] = NoSpan
    BY <1>1 DEF IsOpen
  <2>4. ActiveIsOpen'
    BY <2>1 DEF ActiveIsOpen, IsOpen
  <2>5. \A x, y : Before(x, y)' <=> Before(x, y)
    BY <2>1 DEF Before
  <2>6. \A x, y : Before(x, y) => x # s /\ y # s
    BY <1>1, <2>2, BeforeFacts
  <2> QED
    BY <1>0, <2>1, <2>2, <2>3, <2>4, <2>5, <2>6
<1>2. CASE s # 0 /\ IsOpen(s)
  <2>1. Above(s) = {}
    BY AboveIsBefore
  <2>2. s \in Spans
    BY <1>2 DEF Ref
  <2>3. /\ owner' = [t \in Spans |-> IF t \in {s} THEN NoSpan ELSE owner[t]]
        /\ active' = Keep(active, Spans \ {s})
    <3>1. {s} \union Above(s) = {s}
      BY <2>1
    <3> QED
      BY <1>2, <3>1 DEF EndSpan
  <2>4. /\ owner' \in [Spans -> {NoSpan, SESSION} \union 1..MAX_LEVEL]
        /\ \A t \in Spans : owner'[t] = IF t = s THEN NoSpan ELSE owner[t]
    BY <1>0, <2>3
  <2>5. \A t \in Spans : IsOpen(t)' <=> IsOpen(t) /\ t \in Spans \ {s}
    BY <2>4 DEF IsOpen
  <2>6. /\ active' \in Seq(Spans)
        /\ ActiveIsOpen'
        /\ \A x, y : Before(x, y)' <=>
             Before(x, y) /\ x \in Spans \ {s} /\ y \in Spans \ {s}
    BY <2>3, <2>4, <2>5, KeepEffect
  <2>7. \A x, y : Before(x, y) => x \in Spans /\ y \in Spans
    BY BeforeFacts
  <2> QED
    BY <2>4, <2>6, <2>7
<1> QED
  BY <1>1, <1>2

LEMMA ReleaseEffect ==
    ASSUME Types, ActiveIsOpen, NEW l \in 1..MAX_LEVEL, ReleaseOwners(l)
    PROVE  /\ owner' \in [Spans -> {NoSpan, SESSION} \union 1..MAX_LEVEL]
           /\ \A t \in Spans :
                owner'[t] = IF owner[t] >= l THEN NoSpan ELSE owner[t]
           /\ active' \in Seq(Spans)
           /\ ActiveIsOpen'
           /\ \A x, y : Before(x, y)' <=>
                Before(x, y) /\ owner[x] < l /\ owner[y] < l
<1>0. owner \in [Spans -> {NoSpan, SESSION} \union 1..MAX_LEVEL]
  BY DEF Types
<1> DEFINE S == {t \in Spans : owner[t] < l}
<1>1. /\ owner' = [t \in Spans |-> IF owner[t] >= l THEN NoSpan ELSE owner[t]]
      /\ active' = Keep(active, S)
  BY DEF ReleaseOwners
<1>2. /\ owner' \in [Spans -> {NoSpan, SESSION} \union 1..MAX_LEVEL]
      /\ \A t \in Spans :
           owner'[t] = IF owner[t] >= l THEN NoSpan ELSE owner[t]
  BY <1>0, <1>1
<1>3. \A t \in Spans : IsOpen(t)' <=> IsOpen(t) /\ t \in S
  <2>1. l \in Nat /\ \A t \in Spans : owner[t] \in Int
    BY OwnerFacts
  <2>2. \A t \in Spans : owner[t] >= l <=> ~(owner[t] < l)
    BY <2>1
  <2> QED
    BY <1>2, <2>2 DEF IsOpen
<1> HIDE DEF S
<1>4. /\ active' \in Seq(Spans)
      /\ ActiveIsOpen'
      /\ \A x, y : Before(x, y)' <=> Before(x, y) /\ x \in S /\ y \in S
  BY <1>1, <1>2, <1>3, KeepEffect
<1>5. \A x, y : Before(x, y) => x \in Spans /\ y \in Spans
  BY BeforeFacts
<1> QED
  BY <1>2, <1>4, <1>5 DEF S

(***************************************************************************)
(* Lemmas about the registry and the frames.                               *)
(***************************************************************************)

LEMMA RegistryFacts ==
    ASSUME Types, ActiveIsOpen, RegistryExact
    PROVE  /\ \A j, k \in 1..Len(registry) : j < k =>
                /\ registry[j].nest_level <= registry[k].nest_level
                /\ Before(registry[j].span, registry[k].span)
                /\ registry[j].span # registry[k].span
           /\ \A e \in Items(registry) :
                /\ e \in RegEntry /\ e.span \in Spans /\ e.span # 0
                /\ e.nest_level \in 1..MAX_LEVEL
                /\ owner[e.span] = SESSION /\ IsOpen(e.span)
           /\ \A s \in Spans : owner[s] = SESSION =>
                \E e \in Items(registry) : e.span = s
<1>1. \A e \in Items(registry) : /\ e \in RegEntry
                                 /\ e.span \in Spans
                                 /\ e.nest_level \in 1..MAX_LEVEL
  <2>1. Items(registry) \subseteq RegEntry
    BY ItemFacts DEF Types
  <2> QED
    BY <2>1 DEF RegEntry
<1>2. \A e \in Items(registry) : owner[e.span] = SESSION /\ IsOpen(e.span)
                                 /\ e.span # 0
  <2>1. SESSION # NoSpan
    BY DEF SESSION, NoSpan
  <2> QED
    BY <1>1, <2>1, OwnerFacts DEF RegistryExact, IsOpen
<1>3. \A j, k \in 1..Len(registry) : j < k =>
         /\ registry[j].nest_level <= registry[k].nest_level
         /\ Before(registry[j].span, registry[k].span)
  <2> SUFFICES ASSUME NEW j \in 1..Len(registry), NEW k \in 1..Len(registry),
                      j < k
               PROVE  /\ registry[j].nest_level <= registry[k].nest_level
                      /\ Before(registry[j].span, registry[k].span)
    OBVIOUS
  <2>1. /\ registry[j].nest_level <= registry[k].nest_level
        /\ \E a, b \in 1..Len(active) : /\ a < b
                                        /\ active[a] = registry[j].span
                                        /\ active[b] = registry[k].span
    BY DEF RegistryExact
  <2> QED
    BY <2>1 DEF Before
<1>4. \A j, k \in 1..Len(registry) : j < k =>
         registry[j].span # registry[k].span
  BY <1>3, BeforeFacts
<1> QED
  BY <1>1, <1>2, <1>3, <1>4 DEF RegistryExact

(* The top of the registry is the last in every order.                     *)
LEMMA RegistryTop ==
    ASSUME Types, ActiveIsOpen, RegistryExact, registry # <<>>
    PROVE  LET top == Last(registry)
           IN /\ top \in Items(registry)
              /\ Front(registry) \in Seq(RegEntry)
              /\ Len(Front(registry)) = Len(registry) - 1
              /\ Len(registry) \in Nat \ {0}
              /\ \A k \in 1..(Len(registry) - 1) :
                   Front(registry)[k] = registry[k]
              /\ \A e \in Items(registry) : e # top =>
                   /\ e \in Items(Front(registry))
                   /\ Before(e.span, top.span) /\ e.span # top.span
                   /\ e.nest_level <= top.nest_level
              /\ \A e \in Items(Front(registry)) :
                   e \in Items(registry) /\ e # top
<1>1. /\ Front(registry) \in Seq(RegEntry)
      /\ Len(Front(registry)) = Len(registry) - 1
      /\ Len(registry) \in Nat \ {0}
      /\ \A k \in 1..(Len(registry) - 1) : Front(registry)[k] = registry[k]
      /\ Items(registry) = Items(Front(registry)) \union {Last(registry)}
  BY PopFacts DEF Types
<1>2. Last(registry) = registry[Len(registry)] /\ Len(registry) \in 1..Len(registry)
  BY <1>1 DEF Last
<1>3. ASSUME NEW e \in Items(Front(registry))
      PROVE  /\ e \in Items(registry)
             /\ Before(e.span, Last(registry).span)
             /\ e.span # Last(registry).span
             /\ e.nest_level <= Last(registry).nest_level
  <2>1. PICK k \in 1..(Len(registry) - 1) : e = Front(registry)[k]
    BY <1>1, <1>3 DEF Items
  <2>2. e = registry[k] /\ k < Len(registry) /\ k \in 1..Len(registry)
    BY <1>1, <2>1
  <2> QED
    BY <1>1, <1>2, <1>3, <2>2, RegistryFacts
<1> QED
  BY <1>1, <1>3

(* A frame is the same but for what a call keeps of its statements, and    *)
(* for a block's subtransaction.                                           *)
Alike(f, g) ==
    /\ f.kind = g.kind
    /\ SpanOf(f) = SpanOf(g)
    /\ f.kind = "fn" => /\ f.traced = g.traced
                        /\ f.nonatomic = g.nonatomic
                        /\ f.use_session_owner = g.use_session_owner
    /\ f.kind = "stmt" => f.stmtid = g.stmtid

(* The frames that two states have in common.                              *)
Common(m) ==
    /\ m \in 0..Len(frames) /\ m \in 0..Len(frames')
    /\ \A k \in 1..m : Alike(frames'[k], frames[k])

LEMMA CommonCalls ==
    ASSUME NEW m \in Nat, Common(m)
    PROVE  /\ \A c : \A k \in 1..m : CallOf(c, k)' <=> CallOf(c, k)
           /\ \A k \in 1..m : Session(k)' <=> Session(k)
           /\ \A k \in 1..m : k \in FnIndexes' <=> k \in FnIndexes
<1>0. /\ \A k \in 1..m : k \in 1..Len(frames) /\ k \in 1..Len(frames')
      /\ \A k \in 1..m : \A j \in 1..k : j \in 1..m
      /\ \A k \in 1..m : Alike(frames'[k], frames[k])
  BY DEF Common
<1>1. \A k \in 1..m : frames'[k].kind = frames[k].kind
  BY <1>0 DEF Alike
<1>2. ASSUME NEW c, NEW k \in 1..m
      PROVE  CallOf(c, k)' <=> CallOf(c, k)
  <2>1. c \in 1..k => /\ frames'[c].kind = frames[c].kind
                      /\ \A j \in (c + 1)..k : frames'[j].kind = frames[j].kind
    BY <1>0, <1>1
  <2> QED
    BY <2>1 DEF CallOf
<1>3. ASSUME NEW k \in 1..m
      PROVE  Session(k)' <=> Session(k)
  <2>1. \A c \in 1..k : CallOf(c, k) =>
           frames'[c].use_session_owner = frames[c].use_session_owner
    BY <1>0 DEF Alike, CallOf
  <2> QED
    BY <1>2, <2>1 DEF Session
<1>4. \A k \in 1..m : k \in FnIndexes' <=> k \in FnIndexes
  BY <1>0, <1>1 DEF FnIndexes
<1> QED
  BY <1>2, <1>3, <1>4

(* Frames, one by one.                                                     *)
LEMMA FrameFacts ==
    ASSUME Types
    PROVE  /\ Len(frames) \in Nat
           /\ \A k \in 1..Len(frames) :
                /\ frames[k] \in Frame
                /\ frames[k].kind \in {"fn", "stmt", "other"}
                /\ SpanOf(frames[k]) \in Ref
                /\ frames[k].kind = "fn" => frames[k] \in CallFrame
                /\ frames[k].kind = "stmt" => frames[k] \in StmtFrame
                /\ frames[k].kind = "other" => frames[k] \in OtherFrame
           /\ frames # <<>> => /\ Len(frames) \in 1..Len(frames)
                               /\ Last(frames) = frames[Len(frames)]
<1>1. frames \in Seq(Frame) /\ Len(frames) \in Nat
  BY DEF Types
<1>2. ASSUME NEW f \in Frame
      PROVE  /\ f.kind \in {"fn", "stmt", "other"}
             /\ SpanOf(f) \in Ref
             /\ f.kind = "fn" => f \in CallFrame
             /\ f.kind = "stmt" => f \in StmtFrame
             /\ f.kind = "other" => f \in OtherFrame
  <2>1. CASE f \in CallFrame
    BY <2>1 DEF CallFrame, SpanOf
  <2>2. CASE f \in StmtFrame
    BY <2>2 DEF StmtFrame, SpanOf
  <2>3. CASE f \in OtherFrame
    BY <2>3 DEF OtherFrame, SpanOf
  <2> QED
    BY <2>1, <2>2, <2>3 DEF Frame
<1> QED
  BY <1>1, <1>2 DEF Last

(* The call a statement is of is the innermost.                            *)
LEMMA InnermostCall ==
    ASSUME Types, CallsFit, Innermost("stmt") \/ Innermost("fn")
    PROVE  /\ frames # <<>> /\ Len(frames) \in Nat \ {0}
           /\ Fn \in FnIndexes /\ FnIndexes # {}
           /\ CallOf(Fn, Len(frames))
           /\ \A c : CallOf(c, Len(frames)) => c = Fn
           /\ \A j \in FnIndexes : j <= Fn
           /\ Innermost("fn") => Fn = Len(frames)
           /\ Innermost("stmt") => Fn < Len(frames)
<1>1. /\ frames # <<>> /\ Len(frames) \in 1..Len(frames)
      /\ Last(frames) = frames[Len(frames)] /\ Len(frames) \in Nat \ {0}
      /\ Last(frames).kind \in {"stmt", "fn"}
  BY FrameFacts DEF Innermost
<1>2. \E c : CallOf(c, Len(frames))
  <2>1. CASE Last(frames).kind = "stmt"
    BY <1>1, <2>1 DEF CallsFit, CallFits
  <2>2. CASE Last(frames).kind = "fn"
    <3>1. CallOf(Len(frames), Len(frames))
      BY <1>1, <2>2 DEF CallOf
    <3> QED
      BY <3>1
  <2> QED
    BY <1>1, <2>1, <2>2
<1>3. ASSUME NEW c, CallOf(c, Len(frames))
      PROVE  c = Fn /\ \A j \in FnIndexes : j <= c
  <2>1. c \in FnIndexes /\ c \in 1..Len(frames)
    BY <1>3 DEF CallOf, FnIndexes
  <2>2. ASSUME NEW j \in FnIndexes
        PROVE  j <= c
    <3>1. j \in 1..Len(frames) /\ frames[j].kind = "fn"
      BY DEF FnIndexes
    <3>2. j \notin (c + 1)..Len(frames)
      BY <1>3, <3>1 DEF CallOf
    <3> QED
      BY <1>1, <2>1, <3>1, <3>2
  <2>3. Fn \in FnIndexes /\ \A j \in FnIndexes : j <= Fn
    BY <2>1, <2>2 DEF Fn
  <2>4. c <= Fn /\ Fn <= c /\ Fn \in 1..Len(frames)
    BY <2>1, <2>2, <2>3 DEF FnIndexes
  <2> QED
    BY <1>1, <2>1, <2>2, <2>4
<1>4. CallOf(Fn, Len(frames))
  BY <1>2, <1>3
<1>5. Fn \in FnIndexes /\ Fn \in 1..Len(frames) /\ frames[Fn].kind = "fn"
  BY <1>4 DEF CallOf, FnIndexes
<1>6. Innermost("fn") => Fn = Len(frames)
  <2>1. Innermost("fn") => CallOf(Len(frames), Len(frames))
    BY <1>1 DEF CallOf, Innermost
  <2> QED
    BY <1>3, <2>1
<1>7. Innermost("stmt") => Fn < Len(frames)
  BY <1>1, <1>5 DEF Innermost
<1> QED
  BY <1>1, <1>3, <1>4, <1>5, <1>6, <1>7

(***************************************************************************)
(* What the actions do to the frames.                                      *)
(***************************************************************************)

(* Subtransactions of the blocks that two states have in common.           *)
SubsKept(m) ==
    \A k \in 1..m : /\ k \in Blocks' <=> k \in Blocks
                    /\ k \in Blocks => frames'[k].sub = frames[k].sub

StacksKept(m) ==
    \A k \in 1..m : frames[k].kind = "fn" => frames'[k].stack = frames[k].stack

LEMMA CommonStacks ==
    ASSUME NEW m \in Nat, Common(m),
           NEW c \in 1..m, NEW k \in (c + 1)..m, CallOf(c, k),
           frames'[c].stack = frames[c].stack, frames[k].kind = "stmt"
    PROVE  Remembered(c, k)' <=> Remembered(c, k)
<1>0. /\ \A x \in 1..m : Alike(frames'[x], frames[x])
      /\ k \in 1..m /\ \A j \in (c + 1)..(k - 1) : j \in 1..m
  BY DEF Common
<1>1. \A j \in (c + 1)..k : frames[j].kind = "stmt"
  BY DEF CallOf
<1>2. \A j \in (c + 1)..k : frames'[j].stmtid = frames[j].stmtid
  BY <1>0, <1>1 DEF Alike
<1>3. frames'[k].span = frames[k].span
  BY <1>0 DEF Alike, SpanOf
<1>4. frames'[c].traced = frames[c].traced
  BY <1>0 DEF Alike, CallOf
<1>5. k \in (c + 1)..k /\ \A j \in (c + 1)..(k - 1) : j \in (c + 1)..k
  BY <1>0
<1>6. \A j \in (c + 1)..k : \A p : At(c, j, p)' <=> At(c, j, p)
  BY <1>2 DEF At
<1> QED
  BY <1>3, <1>4, <1>5, <1>6 DEF Remembered

(* Frames that are left as they were keep their shape.                     *)
LEMMA CallsKept ==
    ASSUME CallsFit, NEW m \in Nat, Common(m),
           \A k \in 1..m : (frames[k].kind = "fn" /\ ~frames[k].traced) =>
                               frames'[k].stack = frames[k].stack
    PROVE  \A k \in 1..m : CallFits(k)'
<1>0. /\ \A k \in 1..m : k \in 1..Len(frames)
      /\ \A k \in 1..m : Alike(frames'[k], frames[k])
  BY DEF Common
<1>1. /\ \A c : \A k \in 1..m : CallOf(c, k)' <=> CallOf(c, k)
      /\ \A k \in 1..m : k \in FnIndexes' <=> k \in FnIndexes
  BY CommonCalls
<1>3. ASSUME NEW k \in 1..m
      PROVE  CallFits(k)'
  <2>1. k \in 1..Len(frames) /\ Alike(frames'[k], frames[k]) /\ CallFits(k)
    BY <1>0 DEF CallsFit
  <2>2. frames'[k].kind = "stmt" => \E c \in 1..k : CallOf(c, k)'
    BY <1>1, <2>1 DEF CallFits, Alike
  <2>3. CASE frames'[k].kind = "fn"
    <3>1. /\ frames[k].kind = "fn"
          /\ ~frames[k].traced => frames'[k].stack = frames[k].stack
          /\ frames'[k].func_span = frames[k].func_span
          /\ frames'[k].traced = frames[k].traced
          /\ frames'[k].nonatomic = frames[k].nonatomic
          /\ frames'[k].use_session_owner = frames[k].use_session_owner
      BY <2>1, <2>3 DEF Alike, SpanOf
    <3>2. ASSUME NEW j \in FnIndexes', j < k
          PROVE  /\ j \in FnIndexes
                 /\ frames'[j].nonatomic = frames[j].nonatomic
      <4>0. j \in 1..m
        BY <3>2 DEF FnIndexes
      <4>1. j \in FnIndexes /\ frames'[j].kind = "fn"
        BY <1>1, <4>0 DEF FnIndexes
      <4> QED
        BY <1>0, <4>0, <4>1 DEF Alike
    <3> QED
      BY <2>1, <2>3, <3>1, <3>2 DEF CallFits
  <2> QED
    BY <2>2, <2>3 DEF CallFits
<1> QED
  BY <1>3

LEMMA StackKept ==
    ASSUME StacksFit, NEW m \in Nat, Common(m), NEW c \in FnIndexes', c <= m,
           frames'[c].stack = frames[c].stack
    PROVE  /\ IdsDiffer(frames'[c].stack)
           /\ \A k \in (c + 1)..m : CallOf(c, k)' => Remembered(c, k)'
<1>0. \A k \in 1..m : k \in 1..Len(frames)
  BY DEF Common
<1>1. /\ \A k \in 1..m : CallOf(c, k)' <=> CallOf(c, k)
      /\ \A k \in 1..m : k \in FnIndexes' <=> k \in FnIndexes
  BY CommonCalls
<1>2. c \in 1..m /\ c \in FnIndexes /\ frames[c].kind = "fn"
  BY <1>1 DEF FnIndexes
<1>3. ASSUME NEW k \in (c + 1)..m, CallOf(c, k)'
      PROVE  Remembered(c, k)'
  <2>1. k \in 1..m /\ k \in (c + 1)..Len(frames) /\ CallOf(c, k)
    BY <1>0, <1>1, <1>2, <1>3
  <2>2. Remembered(c, k)
    BY <1>2, <2>1 DEF StacksFit
  <2>3. frames[k].kind = "stmt"
    BY <1>2, <2>1 DEF CallOf
  <2> QED
    BY <1>2, <1>3, <2>1, <2>2, <2>3, CommonStacks
<1> QED
  BY <1>2, <1>3 DEF StacksFit

LEMMA ShapeKept ==
    ASSUME CallsFit, StacksFit, NEW m \in Nat, Common(m), StacksKept(m)
    PROVE  /\ \A k \in 1..m : CallFits(k)'
           /\ \A c \in FnIndexes' : c <= m =>
                /\ IdsDiffer(frames'[c].stack)
                /\ \A k \in (c + 1)..m : CallOf(c, k)' => Remembered(c, k)'
           /\ Len(frames') = m => CallsFit' /\ StacksFit'
<1>3. \A k \in 1..m : CallFits(k)'
  BY CallsKept DEF StacksKept
<1>4. \A c \in FnIndexes' : c <= m =>
        /\ IdsDiffer(frames'[c].stack)
        /\ \A k \in (c + 1)..m : CallOf(c, k)' => Remembered(c, k)'
  <2> SUFFICES ASSUME NEW c \in FnIndexes', c <= m
               PROVE  /\ IdsDiffer(frames'[c].stack)
                      /\ \A k \in (c + 1)..m : CallOf(c, k)' => Remembered(c, k)'
    OBVIOUS
  <2>1. c \in 1..m /\ c \in FnIndexes
    BY CommonCalls DEF FnIndexes
  <2>2. frames'[c].stack = frames[c].stack
    BY <2>1 DEF StacksKept, FnIndexes
  <2> QED
    BY <2>2, StackKept
<1>5. ASSUME Len(frames') = m
      PROVE  CallsFit' /\ StacksFit'
  <2>1. \A c \in FnIndexes' : c <= m
    BY <1>5 DEF FnIndexes
  <2> QED
    BY <1>3, <1>4, <1>5, <2>1 DEF CallsFit, StacksFit
<1> QED
  BY <1>3, <1>4, <1>5

(* The innermost frame, if it is a block, has the innermost subtransaction.*)
LEMMA LastBlock ==
    ASSUME Types, BlocksFit, Len(frames) \in Blocks
    PROVE  frames[Len(frames)].sub = level /\ level >= 2
<1>1. /\ frames[Len(frames)].sub \in 2..level /\ level \in Nat
      /\ Len(frames) \in Nat
  BY OwnerFacts, FrameFacts DEF BlocksFit
<1>2. PICK b \in Blocks : frames[b].sub = level
  BY <1>1 DEF BlocksFit
<1>3. b \in 1..Len(frames)
  BY DEF Blocks
<1>4. b < Len(frames) => frames[b].sub < frames[Len(frames)].sub
  BY DEF BlocksFit
<1> QED
  BY <1>1, <1>2, <1>3, <1>4

(* The blocks that are left have the subtransactions that are left.        *)
LEMMA BlocksKept ==
    ASSUME Types, BlocksFit, NEW m \in Nat, Common(m), SubsKept(m),
           Len(frames') = m, level' \in 1..level,
           \A k \in Blocks : k <= m <=> frames[k].sub <= level'
    PROVE  BlocksFit'
<1>1. \A k \in Blocks' : /\ k \in 1..m /\ k \in Blocks
                         /\ frames'[k].sub = frames[k].sub
  BY DEF Blocks, SubsKept
<1>2. \A k \in Blocks : frames[k].sub \in 2..level /\ k \in 1..Len(frames)
  BY DEF BlocksFit, Blocks
<1>3. level \in Nat /\ level' \in Nat
  BY OwnerFacts
<1>4. \A k \in Blocks' : frames'[k].sub \in 2..level'
  BY <1>1, <1>2, <1>3
<1>5. \A j, k \in Blocks' : j < k => frames'[j].sub < frames'[k].sub
  BY <1>1 DEF BlocksFit
<1>6. ASSUME NEW l \in 2..level'
      PROVE  \E k \in Blocks' : frames'[k].sub = l
  <2>1. l \in 2..level
    BY <1>3
  <2>2. PICK k \in Blocks : frames[k].sub = l
    BY <2>1 DEF BlocksFit
  <2>3. k <= m /\ k \in 1..m
    BY <1>2, <1>3, <2>2
  <2> QED
    BY <2>2, <2>3 DEF SubsKept
<1> QED
  BY <1>4, <1>5, <1>6 DEF BlocksFit

(* A frame is pushed, a block with a subtransaction of its own.            *)
LEMMA BlocksGrow ==
    ASSUME Types, BlocksFit, Common(Len(frames)), SubsKept(Len(frames)),
           Len(frames') = Len(frames) + 1,
           \/ Len(frames') \notin Blocks' /\ level' = level
           \/ /\ Len(frames') \in Blocks' /\ level' = level + 1
              /\ frames'[Len(frames')].sub = level'
    PROVE  BlocksFit'
<1>0. Len(frames) \in Nat /\ level \in Nat /\ level >= 1 /\ level' \in Nat
      /\ level <= level'
  BY OwnerFacts, FrameFacts
<1>1. \A k \in Blocks' : \/ k = Len(frames')
                         \/ /\ k \in Blocks /\ k < Len(frames')
                            /\ frames'[k].sub = frames[k].sub
  <2>1. \A k \in Blocks' : k = Len(frames') \/ k \in 1..Len(frames)
    BY <1>0 DEF Blocks
  <2> QED
    BY <1>0, <2>1 DEF SubsKept
<1>2. \A k \in Blocks : /\ k \in Blocks' /\ frames'[k].sub = frames[k].sub
                        /\ frames[k].sub \in 2..level
  BY DEF Blocks, SubsKept, BlocksFit
<1>3. \A k \in Blocks' : frames'[k].sub \in 2..level'
  BY <1>0, <1>1, <1>2
<1>4. ASSUME NEW j \in Blocks', NEW k \in Blocks', j < k
      PROVE  frames'[j].sub < frames'[k].sub
  <2>1. j \in Blocks /\ frames'[j].sub = frames[j].sub /\ frames[j].sub <= level
    <3>1. k \in 1..Len(frames') /\ j \in 1..Len(frames')
      BY DEF Blocks
    <3> QED
      BY <1>0, <1>1, <1>2, <1>4, <3>1
  <2>2. CASE k = Len(frames')
    BY <1>0, <1>2, <2>1, <2>2
  <2>3. CASE k \in Blocks /\ frames'[k].sub = frames[k].sub
    BY <1>4, <2>1, <2>3 DEF BlocksFit
  <2> QED
    BY <1>1, <2>2, <2>3
<1>5. ASSUME NEW l \in 2..level'
      PROVE  \E k \in Blocks' : frames'[k].sub = l
  <2>1. CASE l \in 2..level
    <3>1. PICK k \in Blocks : frames[k].sub = l
      BY <2>1 DEF BlocksFit
    <3> QED
      BY <1>2, <3>1
  <2>2. CASE l \notin 2..level
    BY <1>0, <2>2
  <2> QED
    BY <2>1, <2>2
<1> QED
  BY <1>3, <1>4, <1>5 DEF BlocksFit

(* A frame is pushed.                                                      *)
LEMMA FramePushed ==
    ASSUME Types, NEW f \in Frame, frames' = Append(frames, f)
    PROVE  /\ frames' \in Seq(Frame) /\ Len(frames) \in Nat
           /\ Len(frames') = Len(frames) + 1
           /\ Common(Len(frames)) /\ SubsKept(Len(frames))
           /\ StacksKept(Len(frames))
           /\ frames'[Len(frames) + 1] = f
<1>1. frames \in Seq(Frame)
  BY DEF Types
<1>2. /\ frames' \in Seq(Frame) /\ Len(frames) \in Nat
      /\ Len(frames') = Len(frames) + 1
      /\ \A k \in 1..Len(frames) : frames'[k] = frames[k]
      /\ frames'[Len(frames) + 1] = f
  BY <1>1, PushFacts
<1>3. Common(Len(frames)) /\ StacksKept(Len(frames))
  BY <1>2 DEF Common, Alike, StacksKept
<1>4. SubsKept(Len(frames))
  BY <1>2 DEF SubsKept, Blocks
<1> QED
  BY <1>2, <1>3, <1>4

(* One that is not a statement of the call around it.                      *)
LEMMA CallPushed ==
    ASSUME Types, CallsFit, StacksFit, NEW f \in Frame,
           frames' = Append(frames, f), f.kind # "stmt",
           CallFits(Len(frames))', f.kind = "fn" => f.stack = <<>>
    PROVE  CallsFit' /\ StacksFit'
<1>0. PICK n : n = Len(frames')
  OBVIOUS
<1>1. /\ Len(frames) \in Nat /\ n = Len(frames) + 1 /\ Common(Len(frames))
      /\ StacksKept(Len(frames)) /\ frames'[n] = f /\ Len(frames') = n
  BY <1>0, FramePushed
<1>2. /\ \A k \in 1..Len(frames) : CallFits(k)'
      /\ \A c \in FnIndexes' : c <= Len(frames) =>
           /\ IdsDiffer(frames'[c].stack)
           /\ \A k \in (c + 1)..Len(frames) : CallOf(c, k)' => Remembered(c, k)'
  BY <1>1, ShapeKept
<1>3. CallsFit'
  <2>1. \A k \in 1..Len(frames') : k \in 1..Len(frames) \/ k = n
    BY <1>1
  <2>2. CallFits(n)'
    BY <1>0
  <2> QED
    BY <1>1, <1>2, <2>1, <2>2 DEF CallsFit
<1>4. ASSUME NEW c \in FnIndexes'
      PROVE  /\ IdsDiffer(frames'[c].stack)
             /\ \A k \in (c + 1)..Len(frames') : CallOf(c, k)' => Remembered(c, k)'
  <2>1. c \in 1..n /\ frames'[c].kind = "fn"
    BY <1>1 DEF FnIndexes
  <2>2. CASE c = n
    <3>1. frames'[c].stack = <<>>
      BY <1>1, <2>1, <2>2
    <3>2. IdsDiffer(<<>>)
      BY DEF IdsDiffer
    <3> QED
      BY <1>1, <2>2, <3>1, <3>2
  <2>3. CASE c <= Len(frames)
    <3>1. ASSUME NEW k \in (c + 1)..Len(frames'), CallOf(c, k)'
          PROVE  Remembered(c, k)'
      <4>1. k # n
        <5>1. frames'[k].kind = "stmt"
          BY <1>1, <2>1, <3>1 DEF CallOf
        <5> QED
          BY <1>1, <5>1
      <4>2. k \in (c + 1)..Len(frames)
        BY <1>1, <2>1, <4>1
      <4> QED
        BY <1>2, <2>3, <3>1, <4>2
    <3> QED
      BY <1>2, <2>3, <3>1
  <2> QED
    BY <1>1, <2>1, <2>2, <2>3
<1> QED
  BY <1>3, <1>4 DEF StacksFit

(* Frame n's session-ness, by its kind.                                    *)
LEMMA SessionByKind ==
    ASSUME NEW n \in Nat \ {0}
    PROVE  /\ frames[n].kind = "fn" =>
                (Session(n) <=> frames[n].use_session_owner)
           /\ frames[n].kind = "other" => ~Session(n)
           /\ \A c : (CallOf(c, n) /\ \A d : CallOf(d, n) => d = c) =>
                (Session(n) <=> frames[c].use_session_owner)
<1>1. ASSUME frames[n].kind # "stmt"
      PROVE  \A c : CallOf(c, n) <=> c = n /\ frames[n].kind = "fn"
  <2>1. \A c : CallOf(c, n) => c = n /\ frames[n].kind = "fn"
    <3> SUFFICES ASSUME NEW c, CallOf(c, n) PROVE c = n /\ frames[n].kind = "fn"
      OBVIOUS
    <3>1. c \in 1..n /\ n \notin (c + 1)..n /\ frames[c].kind = "fn"
      BY <1>1 DEF CallOf
    <3> QED
      BY <3>1
  <2>2. frames[n].kind = "fn" => CallOf(n, n)
    BY DEF CallOf
  <2> QED
    BY <2>1, <2>2
<1>2. n \in 1..n
  OBVIOUS
<1>3. ASSUME NEW c, CallOf(c, n), \A d : CallOf(d, n) => d = c
      PROVE  Session(n) <=> frames[c].use_session_owner
  BY <1>3 DEF Session, CallOf
<1> QED
  BY <1>1, <1>2, <1>3 DEF Session

(* The same of the next state.                                             *)
LEMMA NextSessionByKind ==
    ASSUME NEW n \in Nat \ {0}
    PROVE  /\ frames'[n].kind = "fn" =>
                (Session(n)' <=> frames'[n].use_session_owner)
           /\ frames'[n].kind = "other" => ~Session(n)'
           /\ \A c : (CallOf(c, n)' /\ \A d : CallOf(d, n)' => d = c) =>
                (Session(n)' <=> frames'[c].use_session_owner)
<1>1. ASSUME frames'[n].kind # "stmt"
      PROVE  \A c : CallOf(c, n)' <=> c = n /\ frames'[n].kind = "fn"
  <2>1. \A c : CallOf(c, n)' => c = n /\ frames'[n].kind = "fn"
    <3> SUFFICES ASSUME NEW c, CallOf(c, n)' PROVE c = n /\ frames'[n].kind = "fn"
      OBVIOUS
    <3>1. c \in 1..n /\ n \notin (c + 1)..n /\ frames'[c].kind = "fn"
      BY <1>1 DEF CallOf
    <3> QED
      BY <3>1
  <2>2. frames'[n].kind = "fn" => CallOf(n, n)'
    BY DEF CallOf
  <2> QED
    BY <2>1, <2>2
<1>2. n \in 1..n
  OBVIOUS
<1>3. ASSUME NEW c, CallOf(c, n)', \A d : CallOf(d, n)' => d = c
      PROVE  Session(n)' <=> frames'[c].use_session_owner
  BY <1>3 DEF Session, CallOf
<1> QED
  BY <1>1, <1>2, <1>3 DEF Session

(* A call or a statement begins, with a span or without one.               *)
Grows(s, session) ==
    LET n == Len(frames) + 1
    IN /\ pc = "run" /\ pc' = "run"
       /\ Common(Len(frames)) /\ SubsKept(Len(frames)) /\ Len(frames') = n
       /\ SpanOf(frames'[n]) = s
       /\ session \in BOOLEAN /\ (Session(Len(frames))' <=> session)
       /\ otel_span_start(s, otel_plpgsql_owner(session))
       /\ session_push(session, s)
       /\ \/ n \notin Blocks' /\ level' = level
          \/ n \in Blocks' /\ level' = level + 1 /\ frames'[n].sub = level'
       /\ level' \in 1..MAX_LEVEL
       /\ UNCHANGED <<misuse, rolled_back>>

(* What session_push does.                                                 *)
LEMMA PushEffect ==
    ASSUME Types, NEW s \in Ref, NEW session \in BOOLEAN,
           session_push(session, s)
    PROVE  /\ registry' \in Seq(RegEntry)
           /\ ~session \/ s = 0 => registry' = registry
           /\ session /\ s # 0 =>
                LET e == [span |-> s, nest_level |-> level]
                IN /\ e \in RegEntry
                   /\ registry' = Append(registry, e)
                   /\ Items(registry') = Items(registry) \union {e}
                   /\ Len(registry') = Len(registry) + 1
                   /\ Len(registry) \in Nat
                   /\ registry'[Len(registry) + 1] = e
                   /\ \A k \in 1..Len(registry) : registry'[k] = registry[k]
<1>1. registry \in Seq(RegEntry) /\ level \in 1..MAX_LEVEL
  BY DEF Types
<1>2. CASE ~session \/ s = 0
  BY <1>1, <1>2 DEF session_push
<1>3. CASE session /\ s # 0
  <2>1. PICK e : e = [span |-> s, nest_level |-> level]
    OBVIOUS
  <2>2. e \in RegEntry
    BY <1>1, <1>3, <2>1 DEF RegEntry, Ref
  <2>3. registry' = Append(registry, e)
    BY <1>3, <2>1 DEF session_push
  <2> QED
    BY <1>1, <1>3, <2>1, <2>2, <2>3, PushFacts
<1> QED
  BY <1>2, <1>3

LEMMA GrowsShape ==
    ASSUME ShapeInv, ActiveIsOpen, NEW s \in Ref, NEW session,
           Grows(s, session), frames' \in Seq(Frame)
    PROVE  Types' /\ BlocksFit' /\ StagesFit'
<1>0. Types /\ BlocksFit /\ StagesFit /\ session \in BOOLEAN
  BY DEF ShapeInv, Grows
<1>1. otel_plpgsql_owner(session) \in {SESSION} \union 1..MAX_LEVEL
  BY <1>0 DEF otel_plpgsql_owner, Types
<1>2. /\ owner' \in [Spans -> {NoSpan, SESSION} \union 1..MAX_LEVEL]
      /\ active' \in Seq(Spans)
  <2>1. otel_span_start(s, otel_plpgsql_owner(session))
    BY DEF Grows
  <2> QED
    BY <1>0, <1>1, <2>1, StartEffect
<1>3. registry' \in Seq(RegEntry)
  BY <1>0, PushEffect DEF Grows
<1>4. level' \in 1..MAX_LEVEL /\ pc' \in Stages
  BY <1>0 DEF Grows, Types
<1>5. misuse' \subseteq {"lifo", "stale"} /\ rolled_back' \in BOOLEAN
  BY <1>0 DEF Grows, Types
<1>6. Types'
  BY <1>2, <1>3, <1>4, <1>5 DEF Types
<1>7. /\ Common(Len(frames)) /\ SubsKept(Len(frames))
      /\ Len(frames') = Len(frames) + 1
      /\ \/ Len(frames') \notin Blocks' /\ level' = level
         \/ /\ Len(frames') \in Blocks' /\ level' = level + 1
            /\ frames'[Len(frames')].sub = level'
  BY DEF Grows
<1>8. BlocksFit'
  BY <1>0, <1>7, BlocksGrow
<1>9. StagesFit'
  BY DEF Grows, StagesFit
<1> QED
  BY <1>6, <1>8, <1>9

LEMMA FuncBegins ==
    ASSUME ShapeInv, ActiveIsOpen, NEW traced \in BOOLEAN,
           NEW nonatomic \in BOOLEAN, NEW s \in Ref,
           func_beg(traced, nonatomic, s)
    PROVE  ShapeInv' /\ Grows(s, traced /\ nonatomic)
<1>0. Types /\ CallsFit /\ StacksFit
  BY DEF ShapeInv
<1>1. PICK session : session = (traced /\ nonatomic)
  OBVIOUS
<1>2. session \in BOOLEAN
  BY <1>1
<1>3. PICK f : f = NewCall(traced, nonatomic, session, s)
  OBVIOUS
<1>4. f \in CallFrame /\ f \in Frame
  BY <1>2, <1>3 DEF NewCall, CallFrame, Frame
<1>5. /\ f.kind = "fn" /\ f.traced = traced /\ f.nonatomic = nonatomic
      /\ f.use_session_owner = session /\ f.func_span = s /\ f.stack = <<>>
      /\ f.kind # "stmt"
  BY <1>3 DEF NewCall
<1>6. /\ frames' = Append(frames, f)
      /\ otel_span_start(s, otel_plpgsql_owner(session))
      /\ session_push(session, s)
      /\ nonatomic => MayBeNonatomic
      /\ ~traced => s = 0
      /\ pc = "run"
      /\ UNCHANGED <<level, pc, misuse, rolled_back>>
  BY <1>1, <1>3 DEF func_beg, UseSessionOwner
<1>7. PICK n : n = Len(frames')
  OBVIOUS
<1>8. /\ frames' \in Seq(Frame) /\ Len(frames) \in Nat
      /\ Len(frames') = Len(frames) + 1 /\ n = Len(frames) + 1
      /\ Common(Len(frames)) /\ SubsKept(Len(frames))
      /\ frames'[n] = f
  BY <1>0, <1>4, <1>6, <1>7, FramePushed
<1>9. CallFits(n)'
  <2>1. ASSUME nonatomic, NEW j \in FnIndexes', j < n
        PROVE  frames'[j].nonatomic
    <3>1. j \in 1..Len(frames) /\ frames'[j].kind = "fn"
      BY <1>8, <2>1 DEF FnIndexes
    <3>2. Alike(frames'[j], frames[j])
      BY <1>8, <3>1 DEF Common
    <3>3. j \in FnIndexes /\ frames'[j].nonatomic = frames[j].nonatomic
      BY <3>1, <3>2 DEF Alike, FnIndexes
    <3>4. \A k \in FnIndexes : frames[k].nonatomic
      BY <1>6, <2>1 DEF MayBeNonatomic
    <3> QED
      BY <3>3, <3>4
  <2> QED
    BY <1>1, <1>5, <1>6, <1>8, <2>1 DEF CallFits
<1>10. CallsFit' /\ StacksFit'
  BY <1>0, <1>4, <1>5, <1>6, <1>7, <1>9, CallPushed
<1>11. Session(n)' <=> session
  <2>1. n \in Nat \ {0} /\ frames'[n].kind = "fn"
    BY <1>5, <1>8
  <2>2. Session(n)' <=> frames'[n].use_session_owner
    BY <2>1, NextSessionByKind
  <2> QED
    BY <1>5, <1>8, <2>2
<1>12. SpanOf(frames'[n]) = s /\ n \notin Blocks'
  BY <1>5, <1>8 DEF SpanOf, Blocks
<1>13. Grows(s, session)
  BY <1>0, <1>2, <1>6, <1>7, <1>8, <1>11, <1>12 DEF Grows, Types
<1>14. Types' /\ BlocksFit' /\ StagesFit'
  BY <1>8, <1>13, GrowsShape
<1> QED
  BY <1>1, <1>10, <1>13, <1>14 DEF ShapeInv

(* A call's stack changes, and with a statement whether it has begun.      *)
StackPut(F, c, st, G) ==
    \/ \E x \in BOOLEAN : G = [F EXCEPT ![c].begun = x, ![c].stack = st]
    \/ G = [F EXCEPT ![c].stack = st]

LEMMA StackChanged ==
    ASSUME Types, NEW F \in Seq(Frame), NEW c \in 1..Len(F),
           F[c].kind = "fn", NEW st \in Seq(Entry), NEW G,
           StackPut(F, c, st, G)
    PROVE  /\ G \in Seq(Frame) /\ Len(G) = Len(F)
           /\ \A k \in 1..Len(F) : k # c => G[k] = F[k]
           /\ G[c].stack = st
           /\ \A k \in 1..Len(F) : Alike(G[k], F[k])
           /\ \A k \in 1..Len(F) : F[k].kind = "stmt" => G[k] = F[k]
<1>1. F[c] \in CallFrame
  BY DEF Frame, StmtFrame, OtherFrame
<1>2. PICK b \in BOOLEAN : G[c] = [F[c] EXCEPT !.begun = b, !.stack = st]
  <2>1. ASSUME NEW x \in BOOLEAN, G = [F EXCEPT ![c].begun = x, ![c].stack = st]
        PROVE  \E b \in BOOLEAN : G[c] = [F[c] EXCEPT !.begun = b, !.stack = st]
    <3>1. PICK H : H = [F EXCEPT ![c].begun = x]
      OBVIOUS
    <3>2. G = [H EXCEPT ![c].stack = st]
      BY <2>1, <3>1, Zenon
    <3>5. H[c] = [F[c] EXCEPT !.begun = x] /\ c \in DOMAIN H
      BY <3>1
    <3>3. G[c] = [H[c] EXCEPT !.stack = st] /\ H[c] = [F[c] EXCEPT !.begun = x]
      BY <3>2, <3>5
    <3>4. G[c] = [F[c] EXCEPT !.begun = x, !.stack = st]
      BY <1>1, <3>3 DEF CallFrame
    <3> QED
      BY <3>4
  <2>2. CASE G = [F EXCEPT ![c].stack = st]
    <3>1. G[c] = [F[c] EXCEPT !.stack = st]
      BY <2>2
    <3>2. PICK b \in BOOLEAN : F[c].begun = b
      BY <1>1 DEF CallFrame
    <3>3. [F[c] EXCEPT !.stack = st] = [F[c] EXCEPT !.begun = b, !.stack = st]
      BY <1>1, <3>2 DEF CallFrame
    <3> QED
      BY <3>1, <3>3
  <2> QED
    BY <2>1, <2>2 DEF StackPut
<1>3. /\ G[c] \in CallFrame /\ G[c].stack = st /\ G[c].kind = "fn"
      /\ G[c].func_span = F[c].func_span /\ G[c].traced = F[c].traced
      /\ G[c].nonatomic = F[c].nonatomic
      /\ G[c].use_session_owner = F[c].use_session_owner
  BY <1>1, <1>2 DEF CallFrame
<1>4. /\ \A k \in 1..Len(F) : k # c => G[k] = F[k]
      /\ DOMAIN G = 1..Len(F) /\ G = [k \in 1..Len(F) |-> G[k]]
  <2> DEFINE Same == /\ \A k \in 1..Len(F) : k # c => G[k] = F[k]
                     /\ DOMAIN G = 1..Len(F) /\ G = [k \in 1..Len(F) |-> G[k]]
  <2>1. ASSUME NEW x \in BOOLEAN, G = [F EXCEPT ![c].begun = x, ![c].stack = st]
        PROVE  Same
    <3>1. \A k \in 1..Len(F) : k # c => G[k] = F[k]
      BY <2>1
    <3>2. DOMAIN G = 1..Len(F)
      BY <2>1
    <3>3. G = [k \in 1..Len(F) |-> G[k]]
      <4>1. G = [k \in DOMAIN G |-> G[k]]
        BY <2>1, Zenon
      <4> QED
        BY <3>2, <4>1
    <3> QED
      BY <3>1, <3>2, <3>3
  <2>2. CASE G = [F EXCEPT ![c].stack = st]
    <3>1. \A k \in 1..Len(F) : k # c => G[k] = F[k]
      BY <2>2
    <3>2. DOMAIN G = 1..Len(F)
      BY <2>2
    <3>3. G = [k \in 1..Len(F) |-> G[k]]
      <4>1. G = [k \in DOMAIN G |-> G[k]]
        BY <2>2, Zenon
      <4> QED
        BY <3>2, <4>1
    <3> QED
      BY <3>1, <3>2, <3>3
  <2> QED
    BY <2>1, <2>2 DEF StackPut
<1>5. Len(F) \in Nat
  OBVIOUS
<1>6. \A k \in 1..Len(F) : G[k] \in Frame
  <2>1. G[c] \in Frame
    BY <1>3 DEF Frame
  <2>2. \A k \in 1..Len(F) : F[k] \in Frame
    OBVIOUS
  <2> QED
    BY <1>4, <2>1, <2>2
<1>8. G \in Seq(Frame) /\ Len(G) = Len(F)
  BY <1>4, <1>5, <1>6
<1>9. \A k \in 1..Len(F) : Alike(G[k], F[k])
  BY <1>3, <1>4 DEF Alike, SpanOf
<1>10. \A k \in 1..Len(F) : F[k].kind = "stmt" => G[k] = F[k]
  BY <1>4
<1> QED
  BY <1>3, <1>4, <1>8, <1>9, <1>10

(* The stack after an entry is pushed for a statement.                     *)
LEMMA EntryPushed ==
    ASSUME NEW st \in Seq(Entry), IdsDiffer(st), NEW e \in Entry,
           \A d \in Items(st) : d.stmtid # e.stmtid
    PROVE  /\ Append(st, e) \in Seq(Entry) /\ IdsDiffer(Append(st, e))
           /\ Len(Append(st, e)) = Len(st) + 1 /\ Len(st) \in Nat
           /\ Append(st, e)[Len(st) + 1] = e
           /\ \A p \in 1..Len(st) : /\ Append(st, e)[p] = st[p]
                                    /\ st[p].stmtid # e.stmtid
<1>1. /\ Append(st, e) \in Seq(Entry)
      /\ Len(Append(st, e)) = Len(st) + 1 /\ Len(st) \in Nat
      /\ Append(st, e)[Len(st) + 1] = e
      /\ \A p \in 1..Len(st) : Append(st, e)[p] = st[p]
  BY PushFacts
<1>2. \A p \in 1..Len(st) : st[p].stmtid # e.stmtid
  BY ItemFacts
<1>3. IdsDiffer(Append(st, e))
  <2> SUFFICES ASSUME NEW p \in 1..(Len(st) + 1), NEW q \in 1..(Len(st) + 1),
                      p < q
               PROVE  Append(st, e)[p].stmtid # Append(st, e)[q].stmtid
    BY <1>1 DEF IdsDiffer
  <2>1. p \in 1..Len(st) /\ (q \in 1..Len(st) \/ q = Len(st) + 1)
    BY <1>1
  <2> QED
    BY <1>1, <1>2, <2>1 DEF IdsDiffer
<1> QED
  BY <1>1, <1>2, <1>3

(* A statement is pushed: its call remembers it.                           *)
LEMMA StmtPushed ==
    ASSUME Types, CallsFit, StacksFit, Innermost("stmt") \/ Innermost("fn"),
           Common(Len(frames)), Len(frames') = Len(frames) + 1,
           frames'[Len(frames')].kind = "stmt",
           NEW id, NEW s, frames'[Len(frames')].stmtid = id,
           frames'[Len(frames')].span = s,
           \A d \in Items(frames[Fn].stack) : d.stmtid # id,
           \A k \in (Fn + 1)..Len(frames) : frames[k].stmtid # id,
           \A k \in 1..Len(frames) : (k # Fn /\ frames[k].kind = "fn") =>
               frames'[k].stack = frames[k].stack,
           NEW e \in Entry, e.stmtid = id, e.span = s,
           IF frames[Fn].traced
           THEN frames'[Fn].stack = Append(frames[Fn].stack, e)
           ELSE frames'[Fn].stack = frames[Fn].stack /\ s = 0
    PROVE  CallsFit' /\ StacksFit'
<1>0. PICK n : n = Len(frames')
  OBVIOUS
<1>m. PICK m : m = Len(frames)
  OBVIOUS
<1>1. /\ m \in Nat \ {0} /\ n = m + 1 /\ Len(frames') = n /\ m = Len(frames)
      /\ m \in 1..m /\ Common(m)
  BY <1>0, <1>m, InnermostCall
<1>2. PICK c : c = Fn
  OBVIOUS
<1>3. /\ c \in FnIndexes /\ c \in 1..m /\ frames[c].kind = "fn"
      /\ CallOf(c, m)
      /\ \A d : CallOf(d, m) => d = c
  BY <1>1, <1>2, InnermostCall DEF FnIndexes
<1>4. /\ \A d : \A k \in 1..m : CallOf(d, k)' <=> CallOf(d, k)
      /\ \A k \in 1..m : k \in FnIndexes' <=> k \in FnIndexes
      /\ \A k \in 1..m : Alike(frames'[k], frames[k])
  BY <1>1, CommonCalls DEF Common
<1>5. CallOf(c, n)' /\ \A d : CallOf(d, n)' => d = c
  <2>1. CallOf(c, n)'
    <3>1. \A j \in (c + 1)..n : j = n \/ j \in (c + 1)..m
      BY <1>1, <1>3
    <3>2. \A j \in (c + 1)..m : frames'[j].kind = "stmt"
      BY <1>1, <1>3, <1>4, SMTT(30) DEF CallOf
    <3>3. c \in 1..n /\ frames'[c].kind = "fn"
      BY <1>1, <1>3, <1>4 DEF Alike
    <3> QED
      BY <1>0, <3>1, <3>2, <3>3 DEF CallOf
  <2>2. ASSUME NEW d, CallOf(d, n)'
        PROVE  d = c
    <3>1. d \in 1..n /\ frames'[d].kind = "fn"
          /\ \A j \in (d + 1)..n : frames'[j].kind = "stmt"
      BY <2>2 DEF CallOf
    <3>2. d # n
      BY <1>0, <3>1
    <3>3. d \in 1..m /\ \A j \in (d + 1)..m : j \in (d + 1)..n
      BY <1>1, <3>1, <3>2
    <3>4. CallOf(d, m)'
      BY <3>1, <3>3 DEF CallOf
    <3> QED
      BY <1>1, <1>3, <1>4, <3>4
  <2> QED
    BY <2>1, <2>2
<1>6. CallsFit'
  <2>1. \A k \in 1..m : CallFits(k)'
    <3>1. \A k \in 1..m : (frames[k].kind = "fn" /\ ~frames[k].traced) =>
             frames'[k].stack = frames[k].stack
      BY <1>1, <1>2
    <3> QED
      BY <1>1, <3>1, CallsKept
  <2>2. CallFits(n)'
    <3>1. c \in 1..n
      BY <1>1, <1>3
    <3> QED
      BY <1>0, <1>5, <3>1 DEF CallFits
  <2>3. \A k \in 1..Len(frames') : k \in 1..m \/ k = n
    BY <1>1
  <2> QED
    BY <2>1, <2>2, <2>3 DEF CallsFit
<1>7. ASSUME NEW d \in FnIndexes', d # c
      PROVE  /\ IdsDiffer(frames'[d].stack)
             /\ \A k \in (d + 1)..n : CallOf(d, k)' => Remembered(d, k)'
  <2>1. d \in 1..m /\ frames[d].kind = "fn" /\ frames'[d].kind = "fn"
    <3>1. d \in 1..n /\ frames'[d].kind = "fn"
      BY <1>1 DEF FnIndexes
    <3>2. d \in 1..m
      BY <1>0, <1>1, <3>1
    <3> QED
      BY <1>1, <1>4, <3>1, <3>2 DEF Alike
  <2>2. frames'[d].stack = frames[d].stack
    BY <1>1, <1>2, <1>7, <2>1
  <2>3. /\ IdsDiffer(frames'[d].stack)
        /\ \A k \in (d + 1)..m : CallOf(d, k)' => Remembered(d, k)'
    BY <1>1, <2>1, <2>2, StackKept
  <2>4. \A k \in (d + 1)..n : k \in (d + 1)..m \/ k = n
    BY <1>1, <2>1
  <2> QED
    BY <1>5, <1>7, <2>3, <2>4
<1>8. PICK st : st = frames[c].stack
  OBVIOUS
<1>9. st \in Seq(Entry) /\ IdsDiffer(st) /\ frames'[c].traced = frames[c].traced
  <2>1. frames[c] \in CallFrame
    BY <1>1, <1>3, FrameFacts
  <2>2. frames[c].stack \in Seq(Entry) /\ IdsDiffer(frames[c].stack)
    BY <1>3, <2>1 DEF CallFrame, StacksFit
  <2> QED
    BY <1>1, <1>3, <1>4, <1>8, <2>2 DEF Alike
<1>10. \A k \in (c + 1)..n : CallOf(c, k)' =>
          /\ \A j \in (c + 1)..k : frames'[j].kind = "stmt"
          /\ k \in 1..m => /\ Remembered(c, k) /\ frames[k].kind = "stmt"
                           /\ CallOf(c, k)
  <2> SUFFICES ASSUME NEW k \in (c + 1)..n, CallOf(c, k)'
               PROVE  /\ \A j \in (c + 1)..k : frames'[j].kind = "stmt"
                      /\ k \in 1..m => /\ Remembered(c, k)
                                       /\ frames[k].kind = "stmt"
                                       /\ CallOf(c, k)
    OBVIOUS
  <2>1. \A j \in (c + 1)..k : frames'[j].kind = "stmt"
    BY DEF CallOf
  <2>2. CASE k \in 1..m
    <3>1. CallOf(c, k) /\ k \in (c + 1)..Len(frames) /\ k \in (c + 1)..k
      BY <1>1, <1>3, <1>4, <2>2
    <3>2. Remembered(c, k)
      BY <1>3, <3>1 DEF StacksFit
    <3> QED
      BY <2>1, <3>1, <3>2 DEF CallOf
  <2> QED
    BY <2>1, <2>2
<1>11. ASSUME ~frames[c].traced
       PROVE  /\ IdsDiffer(frames'[c].stack)
              /\ \A k \in (c + 1)..n : CallOf(c, k)' => Remembered(c, k)'
  <2>1. frames'[c].stack = st /\ st = <<>> /\ s = 0
    BY <1>1, <1>2, <1>3, <1>8, <1>11 DEF CallsFit, CallFits
  <2>2. \A k \in (c + 1)..m : CallOf(c, k)' => Remembered(c, k)'
    <3>1. c \in FnIndexes' /\ c <= m /\ frames'[c].stack = frames[c].stack
      BY <1>1, <1>3, <1>4, <1>8, <2>1
    <3> QED
      BY <1>1, <3>1, StackKept
  <2>3. Remembered(c, n)'
    BY <1>0, <1>9, <1>11, <2>1 DEF Remembered
  <2>4. \A k \in (c + 1)..n : k \in (c + 1)..m \/ k = n
    BY <1>1, <1>3
  <2> QED
    BY <1>9, <2>1, <2>2, <2>3, <2>4
<1>12. ASSUME frames[c].traced
       PROVE  /\ IdsDiffer(frames'[c].stack)
              /\ \A k \in (c + 1)..n : CallOf(c, k)' => Remembered(c, k)'
  <2>0. PICK P : P = Len(st) + 1
    OBVIOUS
  <2>1. /\ frames'[c].stack = Append(st, e) /\ frames'[c].traced
        /\ \A d \in Items(st) : d.stmtid # e.stmtid
    BY <1>2, <1>8, <1>9, <1>12
  <2>2. PICK st2 : st2 = frames'[c].stack
    OBVIOUS
  <2>3. /\ IdsDiffer(st2) /\ Len(st2) = P /\ P = Len(st) + 1 /\ Len(st) \in Nat
        /\ st2[P] = e
        /\ \A p \in 1..Len(st) : st2[p] = st[p] /\ st[p].stmtid # id
    BY <1>9, <2>0, <2>1, <2>2, EntryPushed
  <2>4. \A j \in (c + 1)..m : CallOf(c, j) /\ frames[j].kind = "stmt" =>
           /\ frames'[j].stmtid = frames[j].stmtid /\ frames[j].stmtid # id
           /\ frames'[j].span = frames[j].span
    BY <1>1, <1>2, <1>3, <1>4 DEF Alike, SpanOf
  <2>5. ASSUME NEW k \in (c + 1)..n, CallOf(c, k)'
        PROVE  Remembered(c, k)'
    <3>1. \A j \in (c + 1)..(k - 1) :
             /\ CallOf(c, j)' /\ CallOf(c, j) /\ frames[j].kind = "stmt"
             /\ j \in (c + 1)..m
      <4> SUFFICES ASSUME NEW j \in (c + 1)..(k - 1)
                   PROVE  /\ CallOf(c, j)' /\ CallOf(c, j)
                          /\ frames[j].kind = "stmt" /\ j \in (c + 1)..m
        OBVIOUS
      <4>1. j \in (c + 1)..m /\ j \in (c + 1)..k /\ j \in 1..m /\ j \in (c + 1)..n
            /\ \A i \in (c + 1)..j : i \in (c + 1)..k
        BY <1>1, <1>3
      <4>2. CallOf(c, j)'
        BY <1>1, <1>3, <2>5, <4>1 DEF CallOf
      <4> QED
        BY <1>4, <1>10, <4>1, <4>2
    <3>2. \A j \in (c + 1)..(k - 1) : \A p \in 1..P :
             At(c, j, p)' => p \in 1..Len(st) /\ At(c, j, p)
      <4> SUFFICES ASSUME NEW j \in (c + 1)..(k - 1), NEW p \in 1..P,
                          At(c, j, p)'
                   PROVE  p \in 1..Len(st) /\ At(c, j, p)
        OBVIOUS
      <4>1. st2[p].stmtid = frames'[j].stmtid
        BY <2>2 DEF At
      <4>2. frames'[j].stmtid = frames[j].stmtid /\ frames[j].stmtid # id
        BY <2>4, <3>1
      <4>3. p # P
        BY <2>3, <4>1, <4>2
      <4>4. p \in 1..Len(st)
        BY <2>3, <4>3
      <4> QED
        BY <1>8, <2>3, <4>1, <4>2, <4>4 DEF At
    <3>3. CASE k = n
      <4>1. \A q \in 1..P : At(c, n, q)' => q = P
        <5> SUFFICES ASSUME NEW q \in 1..P, At(c, n, q)' PROVE q = P
          OBVIOUS
        <5>1. st2[q].stmtid = id
          BY <1>0, <2>2 DEF At
        <5>2. q \notin 1..Len(st)
          BY <2>3, <5>1
        <5> QED
          BY <2>3, <5>2
      <4>2. At(c, n, P)' /\ st2[P].span = frames'[n].span /\ P \in 1..P
        BY <1>0, <2>2, <2>3 DEF At
      <4>3. \A j \in (c + 1)..(k - 1) : \A p, q \in 1..P :
               At(c, j, p)' /\ At(c, k, q)' => p < q
        BY <2>3, <3>2, <3>3, <4>1
      <4> QED
        BY <2>1, <2>2, <2>3, <3>3, <4>2, <4>3 DEF Remembered
    <3>4. CASE k \in 1..m
      <4>1. Remembered(c, k) /\ CallOf(c, k) /\ frames[k].kind = "stmt"
            /\ k \in (c + 1)..m
        BY <1>1, <1>3, <1>10, <2>5, <3>4
      <4>2. /\ frames'[k].stmtid = frames[k].stmtid /\ frames[k].stmtid # id
            /\ frames'[k].span = frames[k].span
        BY <2>4, <4>1
      <4>3. \A q \in 1..P : At(c, k, q)' => q \in 1..Len(st) /\ At(c, k, q)
        <5> SUFFICES ASSUME NEW q \in 1..P, At(c, k, q)'
                     PROVE  q \in 1..Len(st) /\ At(c, k, q)
          OBVIOUS
        <5>1. st2[q].stmtid = frames[k].stmtid
          BY <2>2, <4>2 DEF At
        <5>2. q # P
          BY <2>3, <4>2, <5>1
        <5>3. q \in 1..Len(st)
          BY <2>3, <5>2
        <5> QED
          BY <1>8, <2>3, <5>1, <5>3 DEF At
      <4>4. PICK p \in 1..Len(st) : At(c, k, p) /\ st[p].span = frames[k].span
        BY <1>8, <1>12, <4>1 DEF Remembered
      <4>5. p \in 1..P /\ At(c, k, p)' /\ st2[p].span = frames'[k].span
        <5>1. p \in 1..P /\ st2[p] = st[p]
          BY <2>3, <4>4
        <5>2. At(c, k, p)'
          BY <1>8, <2>2, <4>2, <4>4, <5>1 DEF At
        <5> QED
          BY <4>2, <4>4, <5>1, <5>2
      <4>6. \A j \in (c + 1)..(k - 1) : \A x, y \in 1..P :
               At(c, j, x)' /\ At(c, k, y)' => x < y
        <5>1. \A j \in (c + 1)..(k - 1) : \A x, y \in 1..Len(st) :
                 At(c, j, x) /\ At(c, k, y) => x < y
          BY <1>8, <4>1 DEF Remembered
        <5> QED
          BY <3>2, <4>3, <5>1
      <4> QED
        BY <2>1, <2>2, <2>3, <4>5, <4>6 DEF Remembered
    <3>5. k = n \/ k \in 1..m
      BY <1>1, <1>3
    <3> QED
      BY <3>3, <3>4, <3>5
  <2> QED
    BY <2>2, <2>3, <2>5
<1>13. StacksFit'
  <2>1. ASSUME NEW d \in FnIndexes'
        PROVE  /\ IdsDiffer(frames'[d].stack)
               /\ \A k \in (d + 1)..Len(frames') :
                    CallOf(d, k)' => Remembered(d, k)'
    BY <1>1, <1>7, <1>11, <1>12
  <2> QED
    BY <2>1 DEF StacksFit
<1> QED
  BY <1>6, <1>13

LEMMA StmtBegins ==
    ASSUME ShapeInv, ActiveIsOpen, NEW id \in StmtIds, NEW block \in BOOLEAN,
           NEW s \in Ref, stmt_beg(id, block, s)
    PROVE  ShapeInv' /\ Grows(s, frames[Fn].use_session_owner)
<1>0. Types /\ CallsFit /\ StacksFit
  BY DEF ShapeInv
<1>1. PICK c : c = Fn
  OBVIOUS
<1>2. Innermost("stmt") \/ Innermost("fn")
  BY DEF stmt_beg
<1>3. /\ Len(frames) \in Nat \ {0} /\ c \in FnIndexes /\ c \in 1..Len(frames)
      /\ frames[c].kind = "fn" /\ CallOf(c, Len(frames))
      /\ \A d : CallOf(d, Len(frames)) => d = c
  BY <1>0, <1>1, <1>2, InnermostCall DEF FnIndexes
<1>4. /\ frames[c] \in CallFrame /\ frames[c].stack \in Seq(Entry)
      /\ frames[c].use_session_owner \in BOOLEAN
      /\ frames \in Seq(Frame)
  <2>1. frames[c] \in CallFrame
    BY <1>0, <1>3, FrameFacts
  <2> QED
    BY <1>0, <2>1 DEF CallFrame, Types
<1>5. PICK session : session = frames[c].use_session_owner
  OBVIOUS
<1>6. PICK e : e = [stmtid |-> id, span |-> s]
  OBVIOUS
<1>7. e \in Entry /\ e.stmtid = id /\ e.span = s
  BY <1>6 DEF Entry
<1>8. PICK st : st = IF frames[c].traced THEN Append(frames[c].stack, e)
                     ELSE frames[c].stack
  OBVIOUS
<1>9. st \in Seq(Entry)
  BY <1>4, <1>7, <1>8
<1>10. PICK x \in BOOLEAN : x = TRUE
  OBVIOUS
<1>11. PICK G : G = [frames EXCEPT ![c].begun = x, ![c].stack = st]
  OBVIOUS
<1>12. PICK f : f = [kind |-> "stmt", stmtid |-> id, span |-> s,
                     sub |-> IF block THEN level + 1 ELSE 0]
  OBVIOUS
<1>13. /\ level \in Nat /\ level \in 1..MAX_LEVEL /\ MAX_LEVEL \in Nat
       /\ block => level + 1 \in 1..MAX_LEVEL
       /\ 0 \in 0..MAX_LEVEL
  <2>1. block => level < MAX_LEVEL
    BY DEF stmt_beg
  <2> QED
    BY <1>0, <2>1, OwnerFacts
<1>14. /\ f \in StmtFrame /\ f \in Frame /\ f.kind = "stmt" /\ f.stmtid = id
       /\ f.span = s /\ SpanOf(f) = s
       /\ f.sub = IF block THEN level + 1 ELSE 0
  <2>1. f.sub \in 0..MAX_LEVEL
    BY <1>12, <1>13
  <2> QED
    BY <1>12, <2>1 DEF StmtFrame, Frame, SpanOf
<1>15. frames' = Append(G, f)
  <2>1. G = [frames EXCEPT
               ![Fn].begun = TRUE,
               ![Fn].stack = IF frames[Fn].traced
                             THEN Append(@, [stmtid |-> id, span |-> s])
                             ELSE @]
    <3>1. G = [frames EXCEPT
               ![c].begun = TRUE,
               ![c].stack = IF frames[c].traced
                            THEN Append(@, [stmtid |-> id, span |-> s])
                            ELSE @]
      BY <1>1, <1>6, <1>8, <1>10, <1>11
    <3> QED
      BY <1>1, <3>1, Zenon
  <2> QED
    BY <1>12, <2>1, Zenon DEF stmt_beg
<1>16. /\ G \in Seq(Frame) /\ Len(G) = Len(frames)
       /\ \A k \in 1..Len(frames) : k # c => G[k] = frames[k]
       /\ G[c].stack = st
       /\ \A k \in 1..Len(frames) : Alike(G[k], frames[k])
       /\ \A k \in 1..Len(frames) : frames[k].kind = "stmt" => G[k] = frames[k]
  <2>1. StackPut(frames, c, st, G)
    BY <1>11, Zenon DEF StackPut
  <2>2. Types /\ frames \in Seq(Frame)
    BY <1>0, <1>4
  <2>3. c \in 1..Len(frames) /\ frames[c].kind = "fn"
    BY <1>3
  <2> QED
    BY <1>9, <2>1, <2>2, <2>3, StackChanged, SMTT(30)
<1>17. PICK n : n = Len(frames')
  OBVIOUS
<1>18. /\ frames' \in Seq(Frame) /\ n = Len(frames) + 1
       /\ frames'[n] = f
       /\ \A k \in 1..Len(frames) : frames'[k] = G[k]
  BY <1>14, <1>15, <1>16, <1>17, PushFacts
<1>19. Common(Len(frames))
  BY <1>3, <1>16, <1>17, <1>18 DEF Common
<1>20. SubsKept(Len(frames))
  <2> SUFFICES ASSUME NEW k \in 1..Len(frames)
               PROVE  /\ k \in Blocks' <=> k \in Blocks
                      /\ k \in Blocks => frames'[k].sub = frames[k].sub
    BY DEF SubsKept
  <2>1. /\ frames'[k].kind = frames[k].kind /\ k \in 1..Len(frames')
        /\ frames[k].kind = "stmt" => frames'[k] = frames[k]
    BY <1>3, <1>16, <1>17, <1>18 DEF Alike
  <2> QED
    BY <2>1 DEF Blocks
<1>21. CallsFit' /\ StacksFit'
  <2>1. /\ \A d \in Items(frames[Fn].stack) : d.stmtid # id
        /\ \A k \in (Fn + 1)..Len(frames) : frames[k].stmtid # id
        /\ ~frames[Fn].traced => s = 0
    BY DEF stmt_beg
  <2>2. /\ \A k \in 1..Len(frames) : (k # Fn /\ frames[k].kind = "fn") =>
              frames'[k].stack = frames[k].stack
        /\ IF frames[Fn].traced
           THEN frames'[Fn].stack = Append(frames[Fn].stack, e)
           ELSE frames'[Fn].stack = frames[Fn].stack /\ s = 0
    BY <1>1, <1>3, <1>8, <1>16, <1>18, <2>1
  <2>3. /\ Len(frames') = Len(frames) + 1 /\ frames'[Len(frames')].kind = "stmt"
        /\ frames'[Len(frames')].stmtid = id /\ frames'[Len(frames')].span = s
    BY <1>14, <1>17, <1>18
  <2> QED
    BY <1>0, <1>2, <1>7, <1>19, <2>1, <2>2, <2>3, StmtPushed
<1>22. Session(n)' <=> session
  <2>0. PICK m : m = Len(frames)
    OBVIOUS
  <2>1. m \in 1..m /\ n = m + 1 /\ m \in Nat \ {0} /\ Common(m)
    BY <1>3, <1>18, <1>19, <2>0
  <2>2. Session(m)' <=> Session(m)
    BY <2>1, CommonCalls
  <2>3. Session(m) <=> session
    BY <1>3, <1>5, <2>0, <2>1, SessionByKind
  <2>4. \A d \in 1..m : frames'[d].kind = "fn" => (CallOf(d, n)' <=> CallOf(d, m)')
    <3> SUFFICES ASSUME NEW d \in 1..m PROVE CallOf(d, n)' <=> CallOf(d, m)'
      OBVIOUS
    <3>1. /\ d \in 1..n /\ frames'[n].kind = "stmt"
          /\ \A j : j \in (d + 1)..n <=> j = n \/ j \in (d + 1)..m
      BY <1>14, <1>18, <2>1
    <3> QED
      BY <3>1 DEF CallOf
  <2>5. \A d \in 1..n : CallOf(d, n)' => d \in 1..m /\ frames'[d].kind = "fn"
    BY <1>14, <1>18, <2>1 DEF CallOf
  <2>6. \A d : CallOf(d, m)' => d \in 1..m /\ d \in 1..n /\ frames'[d].kind = "fn"
    BY <2>1 DEF CallOf
  <2>7. Session(n)' <=> Session(m)'
    BY <2>4, <2>5, <2>6 DEF Session
  <2> QED
    BY <2>2, <2>3, <2>7
<1>23. Grows(s, session)
  <2>1. /\ pc = "run" /\ pc' = "run" /\ UNCHANGED <<misuse, rolled_back>>
        /\ level' = IF block THEN level + 1 ELSE level
        /\ otel_span_start(s, otel_plpgsql_owner(session))
        /\ session_push(session, s)
    BY <1>1, <1>5 DEF stmt_beg
  <2>2. /\ n \in Blocks' <=> block
        /\ block => frames'[n].sub = level'
    BY <1>3, <1>13, <1>14, <1>17, <1>18, <2>1 DEF Blocks
  <2>3. level' \in 1..MAX_LEVEL
    BY <1>13, <2>1
  <2> QED
    BY <1>4, <1>5, <1>14, <1>17, <1>18, <1>19, <1>20, <1>22, <2>1, <2>2, <2>3
       DEF Grows
<1>24. Types' /\ BlocksFit' /\ StagesFit'
  BY <1>18, <1>23, GrowsShape
<1> QED
  BY <1>1, <1>5, <1>21, <1>23, <1>24 DEF ShapeInv

LEMMA OtherShape ==
    ASSUME ShapeInv, ActiveIsOpen, NEW s \in Ref, OtherBegins(s)
    PROVE  ShapeInv' /\ Grows(s, FALSE)
<1>0. Types /\ CallsFit /\ StacksFit
  BY DEF ShapeInv
<1>1. PICK f : f = [kind |-> "other", span |-> s]
  OBVIOUS
<1>2. f \in OtherFrame /\ f \in Frame /\ f.kind = "other" /\ SpanOf(f) = s
      /\ f.kind # "stmt" /\ f.kind # "fn"
  BY <1>1 DEF OtherFrame, Frame, SpanOf
<1>3. /\ frames' = Append(frames, f) /\ otel_span_start(s, level)
      /\ pc = "run" /\ UNCHANGED <<level, registry, pc, misuse, rolled_back>>
  BY <1>1 DEF OtherBegins
<1>4. PICK n : n = Len(frames')
  OBVIOUS
<1>5. /\ frames' \in Seq(Frame) /\ Len(frames) \in Nat /\ n = Len(frames) + 1
      /\ Common(Len(frames)) /\ SubsKept(Len(frames)) /\ frames'[n] = f
  BY <1>0, <1>2, <1>3, <1>4, FramePushed
<1>6. CallFits(n)' /\ n \notin Blocks'
  BY <1>2, <1>5 DEF CallFits, Blocks
<1>7. CallsFit' /\ StacksFit'
  BY <1>0, <1>2, <1>3, <1>4, <1>6, CallPushed
<1>8. ~Session(n)'
  BY <1>2, <1>5, NextSessionByKind
<1>9. Grows(s, FALSE)
  <2>1. otel_span_start(s, otel_plpgsql_owner(FALSE)) /\ session_push(FALSE, s)
    BY <1>3 DEF otel_plpgsql_owner, session_push
  <2> QED
    BY <1>0, <1>2, <1>3, <1>4, <1>5, <1>6, <1>8, <2>1 DEF Grows, Types
<1>10. Types' /\ BlocksFit' /\ StagesFit'
  BY <1>5, <1>9, GrowsShape
<1> QED
  BY <1>7, <1>9, <1>10 DEF ShapeInv

(* A call or a statement ends, and with it its span.                       *)
Shrinks(s, session) ==
    LET n == Len(frames)
    IN /\ pc = "run" /\ pc' = "run" /\ n # 0
       /\ Len(frames') = n - 1 /\ Common(n - 1) /\ SubsKept(n - 1)
       /\ s = SpanOf(frames[n])
       /\ session \in BOOLEAN /\ (Session(n) <=> session)
       /\ EndSpan(s)
       /\ session_forget(session, s)
       /\ level' = IF n \in Blocks THEN level - 1 ELSE level
       /\ misuse' \subseteq misuse \union {"stale"}
            \union (IF s # 0 /\ IsOpen(s) /\ Above(s) # {} THEN {"lifo"} ELSE {})
       /\ rolled_back' = (rolled_back /\ n > 1)

(* Outside an abort nothing is above the span of the innermost frame.      *)
LEMMA NothingAbove ==
    ASSUME PlInv, pc = "run", frames # <<>>
    PROVE  \A t : ~Before(SpanOf(Last(frames)), t)
<1>0. /\ Types /\ ActiveIsOpen /\ SpansHeld /\ SpansNest
      /\ Len(frames) \in 1..Len(frames) /\ Last(frames) = frames[Len(frames)]
  BY FrameFacts DEF PlInv, ShapeInv, SpanInv
<1> SUFFICES ASSUME NEW t, Before(SpanOf(Last(frames)), t)
             PROVE  FALSE
  OBVIOUS
<1>1. PICK s : s = SpanOf(Last(frames))
  OBVIOUS
<1>2. /\ s \in Spans /\ t \in Spans /\ s # t /\ IsOpen(s) /\ IsOpen(t)
      /\ ~Before(t, s) /\ s # 0 /\ t # 0
  BY <1>0, <1>1, BeforeFacts, OwnerFacts
<1>3. PICK k \in 1..Len(frames) : SpanOf(frames[k]) = t
  BY <1>0, <1>2 DEF SpansHeld
<1>4. k < Len(frames)
  BY <1>0, <1>1, <1>2, <1>3
<1>5. Before(t, s)
  BY <1>0, <1>1, <1>2, <1>3, <1>4 DEF SpansNest
<1> QED
  BY <1>2, <1>5

(* What session_forget does.                                               *)
LEMMA ForgetEffect ==
    ASSUME Types, NEW s, NEW session \in BOOLEAN, session_forget(session, s)
    PROVE  /\ registry' \in Seq(RegEntry)
           /\ registry' = IF session /\ s # 0 /\ registry # <<>>
                          THEN Front(registry) ELSE registry
  BY PopFacts DEF session_forget, Types

LEMMA ShrinksShape ==
    ASSUME PlInv, NEW s, NEW session, Shrinks(s, session),
           frames' \in Seq(Frame)
    PROVE  /\ s \in Ref
           /\ owner' \in [Spans -> {NoSpan, SESSION} \union 1..MAX_LEVEL]
           /\ \A t \in Spans : owner'[t] = IF t = s THEN NoSpan ELSE owner[t]
           /\ active' \in Seq(Spans)
           /\ ActiveIsOpen'
           /\ \A x, y : Before(x, y)' <=> Before(x, y) /\ x # s /\ y # s
           /\ EndsInnermostFirst'
           /\ \A k \in Blocks : k < Len(frames) <=> frames[k].sub <= level'
           /\ level' <= level
           /\ Types' /\ BlocksFit' /\ StagesFit'
<1>0. /\ Types /\ BlocksFit /\ StagesFit /\ session \in BOOLEAN /\ ActiveIsOpen
      /\ EndsInnermostFirst
  BY DEF PlInv, ShapeInv, SpanInv, Shrinks
<1>1. /\ Len(frames) \in Nat \ {0} /\ Len(frames) \in 1..Len(frames)
      /\ s = SpanOf(Last(frames)) /\ s \in Ref /\ frames # <<>>
  BY <1>0, FrameFacts DEF Shrinks
<1>2. \A t : ~Before(s, t)
  BY <1>1, NothingAbove DEF Shrinks
<1>3. /\ owner' \in [Spans -> {NoSpan, SESSION} \union 1..MAX_LEVEL]
      /\ \A t \in Spans : owner'[t] = IF t = s THEN NoSpan ELSE owner[t]
      /\ active' \in Seq(Spans)
      /\ ActiveIsOpen'
      /\ \A x, y : Before(x, y)' <=> Before(x, y) /\ x # s /\ y # s
  <2>1. EndSpan(s)
    BY DEF Shrinks
  <2> QED
    BY <1>0, <1>1, <1>2, <2>1, EndEffect
<1>4. misuse' \subseteq misuse \union {"stale"}
  <2>1. Above(s) = {}
    BY <1>2, AboveIsBefore
  <2> QED
    BY <2>1 DEF Shrinks
<1>5. EndsInnermostFirst'
  BY <1>0, <1>4 DEF EndsInnermostFirst
<1>6. registry' \in Seq(RegEntry)
  <2>1. session_forget(session, s)
    BY DEF Shrinks
  <2> QED
    BY <1>0, <2>1, ForgetEffect
<1>7. /\ level' = IF Len(frames) \in Blocks THEN level - 1 ELSE level
      /\ Len(frames') = Len(frames) - 1 /\ Common(Len(frames) - 1)
      /\ SubsKept(Len(frames) - 1)
  BY DEF Shrinks
<1>8. \A k \in Blocks : /\ frames[k].sub \in 2..level /\ k \in 1..Len(frames)
                        /\ k < Len(frames) /\ Len(frames) \in Blocks =>
                             frames[k].sub < frames[Len(frames)].sub
  BY <1>0 DEF BlocksFit, Blocks
<1>9. level \in Nat /\ level >= 1 /\ level <= MAX_LEVEL /\ MAX_LEVEL \in Nat
  BY <1>0, OwnerFacts
<1>10. /\ \A k \in Blocks : k < Len(frames) <=> frames[k].sub <= level'
       /\ level' \in 1..level
  <2>1. CASE Len(frames) \in Blocks
    <3>1. frames[Len(frames)].sub = level /\ level >= 2
      BY <1>0, <2>1, LastBlock
    <3> QED
      BY <1>1, <1>7, <1>8, <1>9, <2>1, <3>1
  <2>2. CASE Len(frames) \notin Blocks
    BY <1>1, <1>7, <1>8, <1>9, <2>2
  <2> QED
    BY <2>1, <2>2
<1>11. level' \in 1..MAX_LEVEL /\ level' <= level
  BY <1>9, <1>10
<1>12. BlocksFit'
  <2>1. PICK m : m = Len(frames) - 1
    OBVIOUS
  <2>2. /\ m \in Nat /\ Common(m) /\ SubsKept(m) /\ Len(frames') = m
        /\ \A k \in Blocks : k <= m <=> frames[k].sub <= level'
    BY <1>1, <1>7, <1>8, <1>10, <2>1
  <2> QED
    BY <1>0, <1>10, <2>2, BlocksKept
<1>13. Types'
  <2>1. /\ pc' \in Stages /\ misuse' \subseteq {"lifo", "stale"}
        /\ rolled_back' \in BOOLEAN
    BY <1>0, <1>4 DEF Shrinks, Types, Stages
  <2> QED
    BY <1>3, <1>6, <1>11, <2>1 DEF Types
<1>14. StagesFit'
  BY DEF Shrinks, StagesFit
<1> QED
  BY <1>1, <1>3, <1>5, <1>10, <1>11, <1>12, <1>13, <1>14

(* The innermost frame is popped.                                          *)
LEMMA FramePopped ==
    ASSUME Types, CallsFit, StacksFit, frames # <<>>, frames' = Front(frames)
    PROVE  /\ frames' \in Seq(Frame) /\ Len(frames') = Len(frames) - 1
           /\ Common(Len(frames) - 1) /\ SubsKept(Len(frames) - 1)
           /\ CallsFit' /\ StacksFit'
<1>0. frames \in Seq(Frame)
  BY DEF Types
<1>1. PICK m : m = Len(frames) - 1
  OBVIOUS
<1>2. /\ frames' \in Seq(Frame) /\ Len(frames') = m /\ m \in Nat
      /\ Len(frames) \in Nat /\ m = Len(frames) - 1
      /\ \A k \in 1..m : frames'[k] = frames[k]
  BY <1>0, <1>1, PopFacts
<1>3. Common(m) /\ StacksKept(m)
  BY <1>2 DEF Common, Alike, StacksKept
<1>4. SubsKept(m)
  BY <1>2 DEF SubsKept, Blocks
<1>5. CallsFit' /\ StacksFit'
  BY <1>2, <1>3, ShapeKept
<1> QED
  BY <1>2, <1>3, <1>4, <1>5

LEMMA FuncEnds ==
    ASSUME PlInv, func_end
    PROVE  ShapeInv' /\ Shrinks(Last(frames).func_span,
                                Last(frames).use_session_owner)
<1>0. Types /\ CallsFit /\ StacksFit
  BY DEF PlInv, ShapeInv
<1>1. /\ pc = "run" /\ Innermost("fn") /\ pc' = "run" /\ level' = level
      /\ frames' = Front(frames) /\ frames # <<>>
      /\ session_forget(Last(frames).use_session_owner, Last(frames).func_span)
      /\ otel_span_end(Last(frames).func_span)
      /\ rolled_back' = (rolled_back /\ Len(frames) > 1)
  BY DEF func_end, Innermost
<1>2. /\ frames' \in Seq(Frame) /\ Len(frames') = Len(frames) - 1
      /\ Common(Len(frames) - 1) /\ SubsKept(Len(frames) - 1)
      /\ CallsFit' /\ StacksFit'
  BY <1>0, <1>1, FramePopped
<1>3. PICK n : n = Len(frames)
  OBVIOUS
<1>4. /\ n \in Nat \ {0} /\ Last(frames) = frames[n] /\ frames[n].kind = "fn"
      /\ frames[n] \in CallFrame /\ n \in 1..Len(frames)
  BY <1>0, <1>1, <1>3, FrameFacts DEF Innermost
<1>5. PICK s : s = Last(frames).func_span
  OBVIOUS
<1>6. PICK session : session = Last(frames).use_session_owner
  OBVIOUS
<1>7. s = SpanOf(frames[n]) /\ session \in BOOLEAN
  BY <1>4, <1>5, <1>6 DEF SpanOf, CallFrame
<1>8. Session(n) <=> session
  BY <1>4, <1>6, SessionByKind
<1>9. n \notin Blocks
  BY <1>4 DEF Blocks
<1>10. misuse' \subseteq misuse \union {"stale"}
         \union (IF s # 0 /\ IsOpen(s) /\ Above(s) # {} THEN {"lifo"} ELSE {})
  BY <1>1, <1>5 DEF otel_span_end
<1>11. EndSpan(s) /\ session_forget(session, s)
  BY <1>1, <1>5, <1>6 DEF otel_span_end
<1>12. Shrinks(s, session)
  BY <1>1, <1>2, <1>3, <1>4, <1>7, <1>8, <1>9, <1>10, <1>11 DEF Shrinks
<1>13. Types' /\ BlocksFit' /\ StagesFit'
  BY <1>2, <1>12, ShrinksShape
<1> QED
  BY <1>2, <1>5, <1>6, <1>12, <1>13 DEF ShapeInv

LEMMA OtherEndsShape ==
    ASSUME PlInv, OtherEnds
    PROVE  ShapeInv' /\ Shrinks(Last(frames).span, FALSE)
<1>0. Types /\ CallsFit /\ StacksFit
  BY DEF PlInv, ShapeInv
<1>1. /\ pc = "run" /\ Innermost("other") /\ pc' = "run" /\ level' = level
      /\ frames' = Front(frames) /\ frames # <<>>
      /\ EndSpan(Last(frames).span) /\ registry' = registry /\ misuse' = misuse
      /\ rolled_back' = (rolled_back /\ Len(frames) > 1)
  BY DEF OtherEnds, Innermost
<1>2. /\ frames' \in Seq(Frame) /\ Len(frames') = Len(frames) - 1
      /\ Common(Len(frames) - 1) /\ SubsKept(Len(frames) - 1)
      /\ CallsFit' /\ StacksFit'
  BY <1>0, <1>1, FramePopped
<1>3. PICK n : n = Len(frames)
  OBVIOUS
<1>4. /\ n \in Nat \ {0} /\ Last(frames) = frames[n] /\ frames[n].kind = "other"
      /\ n \in 1..Len(frames)
  BY <1>0, <1>1, <1>3, FrameFacts DEF Innermost
<1>5. Last(frames).span = SpanOf(frames[n]) /\ n \notin Blocks
  BY <1>4 DEF SpanOf, Blocks
<1>6. ~Session(n) /\ session_forget(FALSE, Last(frames).span)
  BY <1>1, <1>4, SessionByKind DEF session_forget
<1>7. Shrinks(Last(frames).span, FALSE)
  BY <1>1, <1>2, <1>3, <1>4, <1>5, <1>6 DEF Shrinks
<1>8. Types' /\ BlocksFit' /\ StagesFit'
  BY <1>2, <1>7, ShrinksShape
<1> QED
  BY <1>2, <1>7, <1>8 DEF ShapeInv

(* stmt_end finds the statement's entry, and with it its span; what it     *)
(* keeps of the stack has the entries of the statements around it.         *)
LEMMA StmtFound ==
    ASSUME Types, CallsFit, StacksFit, Innermost("stmt"),
           NEW st, st = frames[Fn].stack,
           NEW n, n = Len(frames),
           NEW at, at = MatchAt(st, Last(frames).stmtid)
    PROVE  /\ ~frames[Fn].traced => at = 0 /\ st = <<>> /\ frames[n].span = 0
           /\ frames[Fn].traced =>
                /\ at \in 1..Len(st) /\ st[at].span = frames[n].span
                /\ At(Fn, n, at)
<1>1. /\ n \in Nat \ {0} /\ n \in 1..Len(frames) /\ Last(frames) = frames[n]
      /\ Fn \in FnIndexes /\ CallOf(Fn, n) /\ Fn < n /\ Fn \in 1..n
      /\ frames[Fn].kind = "fn"
  <2>1. Fn \in FnIndexes /\ CallOf(Fn, n) /\ Fn < n /\ frames # <<>>
    BY InnermostCall
  <2> QED
    BY <2>1, FrameFacts DEF FnIndexes
<1>2. Fn \in Nat /\ n \in (Fn + 1)..Len(frames)
  BY <1>1
<1>3. Remembered(Fn, n) /\ IdsDiffer(st) /\ CallFits(Fn)
  BY <1>1, <1>2 DEF StacksFit, CallsFit
<1>4. ASSUME ~frames[Fn].traced
      PROVE  at = 0 /\ st = <<>> /\ frames[n].span = 0
  <2>1. st = <<>> /\ frames[n].span = 0
    BY <1>1, <1>3, <1>4 DEF CallFits, Remembered
  <2>2. Matching(st, Last(frames).stmtid) = {}
    BY <2>1 DEF Matching
  <2> QED
    BY <2>1, <2>2 DEF MatchAt
<1>5. ASSUME frames[Fn].traced
      PROVE  at \in 1..Len(st) /\ st[at].span = frames[n].span /\ At(Fn, n, at)
  <2>1. PICK p \in 1..Len(st) : At(Fn, n, p) /\ st[p].span = frames[n].span
    BY <1>3, <1>5 DEF Remembered
  <2>2. Matching(st, Last(frames).stmtid) = {p}
    <3>1. p \in Matching(st, Last(frames).stmtid)
      BY <1>1, <2>1 DEF Matching, At
    <3>2. ASSUME NEW q \in Matching(st, Last(frames).stmtid)
          PROVE  q = p
      <4>1. q \in 1..Len(st) /\ st[q].stmtid = st[p].stmtid
        BY <1>1, <2>1 DEF Matching, At
      <4>2. ~(q < p) /\ ~(p < q)
        BY <1>3, <2>1, <4>1 DEF IdsDiffer
      <4> QED
        BY <2>1, <4>1, <4>2
    <3> QED
      BY <3>1, <3>2
  <2>3. at = p
    BY <2>2 DEF MatchAt
  <2> QED
    BY <2>1, <2>3
<1> QED
  BY <1>4, <1>5

(* The innermost statement is popped, and with it its entry and those left *)
(* above it.                                                               *)
LEMMA StmtPopped ==
    ASSUME Types, CallsFit, StacksFit, Innermost("stmt"),
           NEW m, m = Len(frames) - 1,
           Common(m), Len(frames') = m,
           \A k \in 1..m : (k # Fn /\ frames[k].kind = "fn") =>
               frames'[k].stack = frames[k].stack,
           NEW st, st = frames[Fn].stack,
           IF frames[Fn].traced
           THEN \E at \in 1..Len(st) : /\ At(Fn, Len(frames), at)
                                       /\ frames'[Fn].stack = SubSeq(st, 1, at - 1)
           ELSE frames'[Fn].stack = st
    PROVE  CallsFit' /\ StacksFit'
<1>1. PICK c : c = Fn
  OBVIOUS
<1>2. PICK n : n = Len(frames)
  OBVIOUS
<1>3. /\ m \in Nat \ {0} /\ n = m + 1 /\ n = Len(frames)
      /\ c \in FnIndexes /\ CallOf(c, n) /\ c \in 1..m /\ frames[c].kind = "fn"
      /\ \A d : CallOf(d, n) => d = c
  <2>1. /\ c \in FnIndexes /\ CallOf(c, n) /\ c < n /\ n \in Nat \ {0}
        /\ \A d : CallOf(d, n) => d = c
    BY <1>1, <1>2, InnermostCall
  <2> QED
    BY <1>2, <2>1 DEF FnIndexes
<1>4. /\ \A d : \A k \in 1..m : CallOf(d, k)' <=> CallOf(d, k)
      /\ \A k \in 1..m : k \in FnIndexes' <=> k \in FnIndexes
      /\ \A k \in 1..m : Alike(frames'[k], frames[k])
      /\ \A d \in FnIndexes' : d \in 1..m
  BY <1>3, CommonCalls DEF Common, FnIndexes
<1>5. CallsFit'
  <2>1. \A k \in 1..m : (frames[k].kind = "fn" /\ ~frames[k].traced) =>
           frames'[k].stack = frames[k].stack
    BY <1>1, <1>3
  <2>2. \A k \in 1..m : CallFits(k)'
    BY <1>3, <2>1, CallsKept
  <2> QED
    BY <2>2 DEF CallsFit
<1>6. ASSUME NEW d \in FnIndexes', frames'[d].stack = frames[d].stack
      PROVE  /\ IdsDiffer(frames'[d].stack)
             /\ \A k \in (d + 1)..m : CallOf(d, k)' => Remembered(d, k)'
  BY <1>3, <1>4, <1>6, StackKept
<1>7. \A d \in FnIndexes' : d # c => frames'[d].stack = frames[d].stack
  BY <1>1, <1>3, <1>4 DEF FnIndexes
<1>8. ASSUME ~frames[c].traced
      PROVE  frames'[c].stack = frames[c].stack
  BY <1>1, <1>8
<1>9. st \in Seq(Entry) /\ IdsDiffer(st) /\ frames'[c].traced = frames[c].traced
      /\ st = frames[c].stack
  <2>1. frames[c] \in CallFrame
    BY <1>3, FrameFacts
  <2>2. frames[c].stack \in Seq(Entry) /\ IdsDiffer(frames[c].stack)
    BY <1>3, <2>1 DEF CallFrame, StacksFit
  <2> QED
    BY <1>1, <1>3, <1>4, <2>2 DEF Alike
<1>10. ASSUME frames[c].traced
       PROVE  /\ IdsDiffer(frames'[c].stack)
              /\ \A k \in (c + 1)..m : CallOf(c, k)' => Remembered(c, k)'
  <2>1. PICK P \in 1..Len(st) : /\ At(c, n, P)
                                /\ frames'[c].stack = SubSeq(st, 1, P - 1)
    BY <1>1, <1>2, <1>10
  <2>2. PICK st2 : st2 = frames'[c].stack
    OBVIOUS
  <2>3. /\ Len(st2) = P - 1 /\ P \in Nat \ {0} /\ Len(st) \in Nat
        /\ \A p \in 1..(P - 1) : st2[p] = st[p] /\ p \in 1..Len(st)
    BY <1>9, <2>1, <2>2
  <2>4. IdsDiffer(st2)
    BY <1>9, <2>3 DEF IdsDiffer
  <2>5. ASSUME NEW k \in (c + 1)..m, CallOf(c, k)'
        PROVE  Remembered(c, k)'
    <3>1. k \in 1..m /\ CallOf(c, k) /\ k \in (c + 1)..Len(frames)
          /\ k \in (c + 1)..(n - 1)
      BY <1>3, <1>4, <2>5
    <3>2. Remembered(c, k) /\ Remembered(c, n)
      BY <1>3, <3>1 DEF StacksFit
    <3>3. \A j \in (c + 1)..k : frames[j].kind = "stmt" /\ j \in 1..m
      BY <1>3, <3>1 DEF CallOf
    <3>4. \A j \in (c + 1)..k : /\ frames'[j].stmtid = frames[j].stmtid
                                /\ frames'[j].span = frames[j].span
      BY <1>4, <3>3 DEF Alike, SpanOf
    <3>5. PICK p \in 1..Len(st) : At(c, k, p) /\ st[p].span = frames[k].span
      BY <1>9, <1>10, <3>2 DEF Remembered
    <3>6. p < P
      BY <1>9, <2>1, <3>1, <3>2, <3>5 DEF Remembered
    <3>7. p \in 1..(P - 1) /\ k \in (c + 1)..k
      BY <1>3, <2>3, <3>1, <3>6
    <3>8. \A j \in (c + 1)..k : \A q \in 1..(P - 1) : At(c, j, q)' => At(c, j, q)
      BY <1>9, <2>2, <2>3, <3>4 DEF At
    <3>9. At(c, k, p)' /\ st2[p].span = frames'[k].span
      <4>1. st2[p] = st[p]
        BY <2>3, <3>7
      <4>2. st2[p].stmtid = frames'[k].stmtid
        BY <1>9, <3>4, <3>5, <3>7, <4>1 DEF At
      <4> QED
        BY <2>2, <3>4, <3>5, <3>7, <4>1, <4>2 DEF At
    <3>10. \A j \in (c + 1)..(k - 1) : \A x, y \in 1..(P - 1) :
              At(c, j, x)' /\ At(c, k, y)' => x < y
      <4>1. \A j \in (c + 1)..(k - 1) : \A x, y \in 1..Len(st) :
               At(c, j, x) /\ At(c, k, y) => x < y
        BY <1>9, <3>2 DEF Remembered
      <4>2. \A j \in (c + 1)..(k - 1) : j \in (c + 1)..k
        BY <1>3, <3>1
      <4> QED
        BY <2>3, <3>7, <3>8, <4>1, <4>2
    <3> QED
      BY <1>9, <1>10, <2>2, <2>3, <3>7, <3>9, <3>10 DEF Remembered
  <2> QED
    BY <2>2, <2>4, <2>5
<1>11. ASSUME NEW d \in FnIndexes'
       PROVE  /\ IdsDiffer(frames'[d].stack)
              /\ \A k \in (d + 1)..Len(frames') :
                   CallOf(d, k)' => Remembered(d, k)'
  <2>1. CASE d = c /\ frames[c].traced
    BY <1>10, <2>1
  <2>2. CASE ~(d = c /\ frames[c].traced)
    BY <1>6, <1>7, <1>8, <2>2
  <2> QED
    BY <2>1, <2>2
<1>12. StacksFit'
  BY <1>11 DEF StacksFit
<1> QED
  BY <1>5, <1>12

LEMMA StmtEnds ==
    ASSUME PlInv, stmt_end
    PROVE  ShapeInv' /\ Shrinks(Last(frames).span, frames[Fn].use_session_owner)
<1>0. Types /\ CallsFit /\ StacksFit
  BY DEF PlInv, ShapeInv
<1>1. PICK c : c = Fn
  OBVIOUS
<1>2. PICK n : n = Len(frames)
  OBVIOUS
<1>3. PICK st : st = frames[c].stack
  OBVIOUS
<1>4. PICK at : at = MatchAt(st, Last(frames).stmtid)
  OBVIOUS
<1>5. PICK m : m = n - 1
  OBVIOUS
<1>6. /\ pc = "run" /\ pc' = "run" /\ Innermost("stmt")
      /\ level' = IF Last(frames).sub > 0 THEN level - 1 ELSE level
      /\ IF at = 0 THEN UNCHANGED <<registry, owner, active, misuse>>
         ELSE /\ session_forget(frames[c].use_session_owner, st[at].span)
              /\ otel_span_end(st[at].span)
      /\ frames' = [Front(frames) EXCEPT
                      ![c].stack = IF at = 0 THEN <<>> ELSE SubSeq(@, 1, at - 1)]
      /\ rolled_back' = rolled_back
  BY <1>1, <1>3, <1>4 DEF stmt_end
<1>7. /\ m \in Nat \ {0} /\ n = m + 1 /\ n \in Nat \ {0} /\ n \in 1..Len(frames)
      /\ c \in FnIndexes /\ CallOf(c, n) /\ c \in 1..m /\ frames[c].kind = "fn"
      /\ \A d : CallOf(d, n) => d = c
      /\ frames # <<>> /\ Last(frames) = frames[n] /\ frames[n].kind = "stmt"
      /\ frames[n] \in StmtFrame /\ frames[c] \in CallFrame
      /\ st \in Seq(Entry) /\ frames \in Seq(Frame)
  <2>1. /\ c \in FnIndexes /\ CallOf(c, n) /\ c < n /\ n \in Nat \ {0}
        /\ \A d : CallOf(d, n) => d = c
        /\ frames # <<>>
    BY <1>0, <1>1, <1>2, <1>6, InnermostCall
  <2>2. /\ Last(frames) = frames[n] /\ n \in 1..Len(frames)
        /\ c \in 1..m /\ frames[c].kind = "fn" /\ frames[n].kind = "stmt"
    BY <1>0, <1>2, <1>5, <1>6, <2>1, FrameFacts DEF FnIndexes, Innermost
  <2>3. frames[n] \in StmtFrame /\ frames[c] \in CallFrame
    BY <1>0, <1>2, <1>5, <2>1, <2>2, FrameFacts
  <2> QED
    BY <1>0, <1>3, <1>5, <2>1, <2>2, <2>3 DEF CallFrame, Types
<1>8. /\ ~frames[c].traced => at = 0 /\ st = <<>> /\ frames[n].span = 0
      /\ frames[c].traced =>
           at \in 1..Len(st) /\ st[at].span = frames[n].span /\ At(c, n, at)
  BY <1>0, <1>1, <1>2, <1>3, <1>4, <1>6, StmtFound
<1>9. PICK st2 : st2 = IF at = 0 THEN <<>> ELSE SubSeq(st, 1, at - 1)
  OBVIOUS
<1>10. st2 \in Seq(Entry)
  BY <1>7, <1>8, <1>9
<1>11. PICK F : F = Front(frames)
  OBVIOUS
<1>12. /\ F \in Seq(Frame) /\ Len(F) = m
       /\ \A k \in 1..m : F[k] = frames[k]
  BY <1>2, <1>5, <1>7, <1>11, PopFacts
<1>13. frames' = [F EXCEPT ![c].stack = st2]
  <2>1. F[c].stack = st
    BY <1>3, <1>7, <1>12
  <2>2. frames' = [F EXCEPT ![c].stack = IF at = 0 THEN <<>>
                                         ELSE SubSeq(@, 1, at - 1)]
    BY <1>6, <1>11
  <2> QED
    BY <1>9, <2>1, <2>2
<1>14. /\ frames' \in Seq(Frame) /\ Len(frames') = m
       /\ \A k \in 1..m : k # c => frames'[k] = frames[k]
       /\ frames'[c].stack = st2
       /\ \A k \in 1..m : Alike(frames'[k], frames[k])
       /\ \A k \in 1..m : frames[k].kind = "stmt" => frames'[k] = frames[k]
  <2>1. StackPut(F, c, st2, frames')
    BY <1>13, Zenon DEF StackPut
  <2>2. c \in 1..Len(F) /\ F[c].kind = "fn"
    BY <1>7, <1>12
  <2>3. /\ frames' \in Seq(Frame) /\ Len(frames') = Len(F)
        /\ \A k \in 1..Len(F) : k # c => frames'[k] = F[k]
        /\ frames'[c].stack = st2
        /\ \A k \in 1..Len(F) : Alike(frames'[k], F[k])
        /\ \A k \in 1..Len(F) : F[k].kind = "stmt" => frames'[k] = F[k]
    BY <1>0, <1>10, <1>12, <2>1, <2>2, StackChanged
  <2> QED
    BY <1>12, <2>3
<1>15. Common(m)
  BY <1>2, <1>7, <1>14 DEF Common
<1>16. SubsKept(m)
  <2> SUFFICES ASSUME NEW k \in 1..m
               PROVE  /\ k \in Blocks' <=> k \in Blocks
                      /\ k \in Blocks => frames'[k].sub = frames[k].sub
    BY DEF SubsKept
  <2>1. /\ frames'[k].kind = frames[k].kind /\ k \in 1..Len(frames')
        /\ k \in 1..Len(frames)
        /\ frames[k].kind = "stmt" => frames'[k] = frames[k]
    BY <1>2, <1>7, <1>14 DEF Alike
  <2> QED
    BY <2>1 DEF Blocks
<1>17. CallsFit' /\ StacksFit'
  <2>1. \A k \in 1..m : (k # Fn /\ frames[k].kind = "fn") =>
               frames'[k].stack = frames[k].stack
    BY <1>1, <1>14
  <2>2. IF frames[Fn].traced
        THEN \E p \in 1..Len(st) : /\ At(Fn, Len(frames), p)
                                   /\ frames'[Fn].stack = SubSeq(st, 1, p - 1)
        ELSE frames'[Fn].stack = st
    <3>1. CASE frames[c].traced
      <4>1. at # 0 /\ frames'[c].stack = SubSeq(st, 1, at - 1)
        BY <1>7, <1>8, <1>9, <1>14, <3>1
      <4> QED
        BY <1>1, <1>2, <1>8, <3>1, <4>1
    <3>2. CASE ~frames[c].traced
      BY <1>1, <1>8, <1>9, <1>14, <3>2
    <3> QED
      BY <3>1, <3>2
  <2>3. st = frames[Fn].stack /\ m = Len(frames) - 1
    BY <1>1, <1>2, <1>3, <1>5
  <2> QED
    BY <1>0, <1>6, <1>14, <1>15, <2>1, <2>2, <2>3, StmtPopped
<1>18. PICK s : s = frames[n].span
  OBVIOUS
<1>19. PICK session : session = frames[c].use_session_owner
  OBVIOUS
<1>20. s = SpanOf(frames[n]) /\ s = Last(frames).span /\ session \in BOOLEAN
  BY <1>7, <1>18, <1>19 DEF SpanOf, CallFrame
<1>21. Session(n) <=> session
  BY <1>7, <1>19, SessionByKind
<1>22. level' = IF n \in Blocks THEN level - 1 ELSE level
  <2>1. n \in Blocks <=> frames[n].sub > 0
    BY <1>7 DEF Blocks
  <2> QED
    BY <1>6, <1>7, <2>1
<1>23. /\ EndSpan(s) /\ session_forget(session, s)
       /\ misuse' \subseteq misuse \union {"stale"}
            \union (IF s # 0 /\ IsOpen(s) /\ Above(s) # {} THEN {"lifo"} ELSE {})
  <2>1. CASE frames[c].traced
    <3>1. at # 0 /\ st[at].span = s
      BY <1>7, <1>8, <1>18, <2>1
    <3>2. session_forget(session, s) /\ otel_span_end(s)
      BY <1>6, <1>19, <3>1
    <3> QED
      BY <3>2 DEF otel_span_end
  <2>2. CASE ~frames[c].traced
    <3>1. at = 0 /\ s = 0
      BY <1>8, <1>18, <2>2
    <3>2. UNCHANGED <<registry, owner, active, misuse>>
      BY <1>6, <3>1
    <3> QED
      BY <3>1, <3>2 DEF EndSpan, session_forget
  <2> QED
    BY <2>1, <2>2
<1>24. rolled_back' = (rolled_back /\ n > 1)
  <2>1. n > 1 /\ rolled_back \in BOOLEAN
    BY <1>0, <1>7 DEF Types
  <2> QED
    BY <1>6, <2>1
<1>25. Shrinks(s, session)
  BY <1>2, <1>5, <1>6, <1>7, <1>14, <1>15, <1>16, <1>20, <1>21, <1>22, <1>23, <1>24
     DEF Shrinks
<1>26. Types' /\ BlocksFit' /\ StagesFit'
  BY <1>14, <1>25, ShrinksShape
<1> QED
  BY <1>1, <1>17, <1>19, <1>20, <1>25, <1>26 DEF ShapeInv

(* The frames stay.                                                        *)
LEMMA FramesSame ==
    ASSUME Types, CallsFit, StacksFit, frames' = frames
    PROVE  /\ CallsFit' /\ StacksFit' /\ Common(Len(frames))
           /\ SubsKept(Len(frames)) /\ Blocks' = Blocks
           /\ BlocksFit /\ level' = level => BlocksFit'
<1>0. PICK m : m = Len(frames)
  OBVIOUS
<1>1. m \in Nat /\ m = Len(frames) /\ Len(frames') = m /\ m \in 0..m
  BY <1>0, FrameFacts
<1>2. Common(m) /\ StacksKept(m)
  BY <1>1 DEF Common, Alike, StacksKept
<1>3. Blocks' = Blocks
  BY DEF Blocks
<1>4. SubsKept(m)
  BY <1>3 DEF SubsKept
<1>5. CallsFit' /\ StacksFit'
  BY <1>1, <1>2, ShapeKept
<1>6. BlocksFit /\ level' = level => BlocksFit'
  BY <1>3 DEF BlocksFit
<1> QED
  BY <1>1, <1>2, <1>3, <1>4, <1>5, <1>6

(* The frames that an error leaves.                                        *)
LEMMA UnwindShape ==
    ASSUME PlInv, Unwind
    PROVE  /\ frames' \in Seq(Frame) /\ CallsFit' /\ StacksFit' /\ BlocksFit'
           /\ StagesFit'
           /\ Common(Len(frames')) /\ SubsKept(Len(frames'))
           /\ pc = "error" /\ level' = level /\ registry' = registry
           /\ misuse' = misuse /\ rolled_back' = rolled_back
           /\ ReleaseOwners(level)
           /\ pc' = IF level = 1 THEN "abort" ELSE "subabort"
           /\ pc' = "abort" => Len(frames') = 0
           /\ pc' = "subabort" =>
                \E b \in Blocks : /\ Len(frames') = b /\ frames[b].sub = level
                                  /\ \A j \in Blocks : j <= b
<1>0. /\ Types /\ CallsFit /\ StacksFit /\ BlocksFit
      /\ pc = "error" /\ level' = level /\ registry' = registry
      /\ misuse' = misuse /\ rolled_back' = rolled_back
      /\ frames \in Seq(Frame) /\ level \in Nat /\ level >= 1
  BY OwnerFacts DEF PlInv, ShapeInv, Unwind, Types
<1>1. CASE Blocks = {}
  <2>1. frames' = <<>> /\ pc' = "abort" /\ ReleaseOwners(1)
    BY <1>1 DEF Unwind
  <2>2. level = 1
    <3>1. level \notin 2..level
      BY <1>0, <1>1 DEF BlocksFit
    <3> QED
      BY <1>0, <3>1
  <2>3. PICK z : z = Len(frames')
    OBVIOUS
  <2>4. z = 0 /\ z \in Nat /\ frames' \in Seq(Frame) /\ z \in 0..Len(frames)
        /\ z \in 0..Len(frames') /\ 1..z = {}
    BY <1>0, <2>1, <2>3
  <2>5. Common(z) /\ StacksKept(z) /\ SubsKept(z)
    BY <2>4 DEF Common, StacksKept, SubsKept
  <2>6. CallsFit' /\ StacksFit'
    BY <1>0, <2>3, <2>4, <2>5, ShapeKept
  <2>7. BlocksFit'
    <3>1. Blocks' = {}
      BY <2>3, <2>4 DEF Blocks
    <3>2. 2..level' = {}
      BY <1>0, <2>2
    <3> QED
      BY <3>1, <3>2 DEF BlocksFit
  <2>8. StagesFit'
    BY <2>1 DEF StagesFit
  <2> QED
    BY <1>0, <2>1, <2>2, <2>3, <2>4, <2>5, <2>6, <2>7, <2>8
<1>2. CASE Blocks # {}
  <2>1. PICK b : b = InnerBlock
    OBVIOUS
  <2>2. frames' = SubSeq(frames, 1, b) /\ pc' = "subabort" /\ ReleaseOwners(level)
    BY <1>2, <2>1 DEF Unwind
  <2>3. \A k \in Blocks : frames[k].sub \in 2..level /\ k \in 1..Len(frames)
    BY <1>0 DEF BlocksFit, Blocks
  <2>4. level >= 2
    BY <1>0, <1>2, <2>3
  <2>5. PICK t \in Blocks : frames[t].sub = level
    BY <1>0, <2>4 DEF BlocksFit
  <2>6. ASSUME NEW j \in Blocks
        PROVE  j <= t
    <3>1. t < j => frames[t].sub < frames[j].sub
      BY <1>0 DEF BlocksFit
    <3> QED
      BY <1>0, <2>3, <2>5, <3>1
  <2>7. b \in Blocks /\ \A j \in Blocks : j <= b
    BY <2>1, <2>6 DEF InnerBlock
  <2>8. b = t
    BY <2>3, <2>6, <2>7
  <2>9. /\ b \in 1..Len(frames) /\ frames' \in Seq(Frame) /\ Len(frames') = b
        /\ \A k \in 1..b : frames'[k] = frames[k]
        /\ b \in Nat
    BY <1>0, <2>2, <2>3, <2>7
  <2>10. Common(b) /\ StacksKept(b) /\ SubsKept(b)
    <3>1. Common(b) /\ StacksKept(b)
      BY <2>9 DEF Common, Alike, StacksKept
    <3>2. SubsKept(b)
      BY <2>9 DEF SubsKept, Blocks
    <3> QED
      BY <3>1, <3>2
  <2>11. CallsFit' /\ StacksFit'
    BY <1>0, <2>9, <2>10, ShapeKept
  <2>12. BlocksFit'
    <3>1. level' \in 1..level /\ \A k \in Blocks : k <= b <=> frames[k].sub <= level'
      BY <1>0, <2>3, <2>7
    <3> QED
      BY <1>0, <2>9, <2>10, <3>1, BlocksKept
  <2>13. StagesFit'
    <3>1. frames'[b] = frames[b] /\ frames[b].kind = "stmt" /\ frames[b].sub = level
          /\ frames' # <<>>
      BY <2>5, <2>7, <2>8, <2>9 DEF Blocks
    <3> QED
      BY <1>0, <2>2, <2>4, <2>9, <3>1 DEF StagesFit, Last
  <2> QED
    BY <1>0, <2>2, <2>4, <2>5, <2>7, <2>8, <2>9, <2>10, <2>11, <2>12, <2>13
<1> QED
  BY <1>1, <1>2

LEMMA SubAbortedShape ==
    ASSUME PlInv, NEW caught \in BOOLEAN, SubAborted(caught)
    PROVE  /\ ShapeInv' /\ Common(Len(frames)) /\ Len(frames') = Len(frames)
           /\ pc = "subabort" /\ pc' \in {"run", "error"}
           /\ level' = level - 1 /\ level > 1
           /\ UNCHANGED <<registry, owner, active, misuse, rolled_back>>
           /\ ~MoreToEnd
           /\ \A k \in Blocks' : /\ k \in Blocks /\ k # Len(frames)
                                 /\ frames'[k].sub = frames[k].sub
           /\ \A k \in Blocks : k # Len(frames) => k \in Blocks'
           /\ Len(frames) \in Blocks /\ frames[Len(frames)].sub = level
<1>0. /\ Types /\ CallsFit /\ StacksFit /\ BlocksFit /\ StagesFit
      /\ frames \in Seq(Frame) /\ level \in Nat /\ level >= 1 /\ level <= MAX_LEVEL
      /\ MAX_LEVEL \in Nat
  BY OwnerFacts DEF PlInv, ShapeInv, Types
<1>1. /\ pc = "subabort" /\ ~MoreToEnd /\ level' = level - 1
      /\ frames' = [frames EXCEPT ![Len(frames)].sub = 0]
      /\ pc' = IF caught THEN "run" ELSE "error"
      /\ UNCHANGED <<registry, owner, active, misuse, rolled_back>>
  BY DEF SubAborted
<1>2. PICK n : n = Len(frames)
  OBVIOUS
<1>3. /\ n \in Nat \ {0} /\ n \in 1..n /\ n = Len(frames)
      /\ frames[n].kind = "stmt" /\ frames[n] \in StmtFrame
      /\ frames[n].sub = level /\ level > 1
  BY <1>0, <1>1, <1>2, FrameFacts DEF StagesFit
<1>4. PICK f : f = [frames[n] EXCEPT !.sub = 0]
  OBVIOUS
<1>5. f \in StmtFrame /\ f.kind = "stmt" /\ f.stmtid = frames[n].stmtid
      /\ f.span = frames[n].span /\ f.sub = 0
  BY <1>0, <1>3, <1>4 DEF StmtFrame
<1>6. /\ frames' \in Seq(Frame) /\ Len(frames') = n
      /\ \A k \in 1..n : k # n => frames'[k] = frames[k]
      /\ frames'[n] = f
  <2>1. f \in Frame
    BY <1>5 DEF Frame
  <2>2. frames' = [frames EXCEPT ![n] = f]
    BY <1>1, <1>2, <1>4
  <2> QED
    BY <1>0, <1>3, <2>1, <2>2
<1>7. Common(n) /\ StacksKept(n)
  <2>1. \A k \in 1..n : Alike(frames'[k], frames[k])
    BY <1>3, <1>5, <1>6 DEF Alike, SpanOf
  <2>2. \A k \in 1..n : frames[k].kind = "fn" => frames'[k].stack = frames[k].stack
    BY <1>3, <1>6
  <2> QED
    BY <1>3, <1>6, <2>1, <2>2 DEF Common, StacksKept
<1>8. CallsFit' /\ StacksFit'
  BY <1>0, <1>3, <1>6, <1>7, ShapeKept
<1>9. /\ \A k \in Blocks' : /\ k \in Blocks /\ k # n
                            /\ frames'[k].sub = frames[k].sub
      /\ \A k \in Blocks : k # n => k \in Blocks' /\ frames'[k].sub = frames[k].sub
      /\ n \in Blocks
  <2>1. n \in Blocks
    BY <1>0, <1>3 DEF Blocks
  <2>2. n \notin Blocks'
    BY <1>0, <1>5, <1>6 DEF Blocks
  <2>3. \A k \in 1..n : k # n =>
           /\ k \in Blocks' <=> k \in Blocks
           /\ frames'[k].sub = frames[k].sub
    BY <1>3, <1>6 DEF Blocks
  <2>4. \A k \in Blocks : k \in 1..n
    BY <1>3 DEF Blocks
  <2>5. \A k \in Blocks' : k \in 1..n
    BY <1>6 DEF Blocks
  <2> QED
    BY <2>1, <2>2, <2>3, <2>4, <2>5
<1>10. \A k \in Blocks : /\ frames[k].sub \in 2..level /\ k \in 1..n
                         /\ k # n => frames[k].sub < level
  <2>1. \A k \in Blocks : frames[k].sub \in 2..level /\ k \in 1..n
    BY <1>0, <1>3 DEF BlocksFit, Blocks
  <2>2. \A k \in Blocks : k < n => frames[k].sub < frames[n].sub
    BY <1>0, <1>9 DEF BlocksFit
  <2> QED
    BY <1>3, <2>1, <2>2
<1>11. BlocksFit'
  <2>1. \A k \in Blocks' : frames'[k].sub \in 2..level'
    BY <1>0, <1>1, <1>9, <1>10
  <2>2. \A j, k \in Blocks' : j < k => frames'[j].sub < frames'[k].sub
    BY <1>0, <1>9 DEF BlocksFit
  <2>3. ASSUME NEW l \in 2..level'
        PROVE  \E k \in Blocks' : frames'[k].sub = l
    <3>1. l \in 2..level /\ l # level
      BY <1>0, <1>1
    <3>2. PICK k \in Blocks : frames[k].sub = l
      BY <1>0, <3>1 DEF BlocksFit
    <3>3. k # n
      BY <1>3, <3>1, <3>2
    <3> QED
      BY <1>9, <3>2, <3>3
  <2> QED
    BY <2>1, <2>2, <2>3 DEF BlocksFit
<1>12. StagesFit' /\ pc' \in {"run", "error"}
  BY <1>1 DEF StagesFit
<1>13. Types'
  <2>1. level' \in 1..MAX_LEVEL /\ pc' \in Stages
    BY <1>0, <1>1, <1>3 DEF Stages
  <2> QED
    BY <1>0, <1>1, <1>6, <2>1 DEF Types
<1> QED
  BY <1>1, <1>2, <1>3, <1>6, <1>7, <1>8, <1>9, <1>11, <1>12, <1>13 DEF ShapeInv

(***************************************************************************)
(* What the actions do to the spans.                                       *)
(***************************************************************************)

(* RegistryExact in two parts.                                             *)
RegSpans ==
    \A s \in Spans : (owner[s] = SESSION)
                     <=> \E e \in Items(registry) : e.span = s

RegOrder ==
    \A j, k \in 1..Len(registry) : j < k =>
        /\ registry[j].nest_level <= registry[k].nest_level
        /\ Before(registry[j].span, registry[k].span)

LEMMA RegistryParts ==
    /\ RegistryExact <=> RegSpans /\ RegOrder
    /\ RegistryExact' <=> RegSpans' /\ RegOrder'
<1>1. RegistryExact <=> RegSpans /\ RegOrder
  <2>1. RegistryExact => RegSpans /\ RegOrder
    BY DEF RegistryExact, RegSpans, RegOrder, Before
  <2>2. RegSpans /\ RegOrder => RegistryExact
    BY DEF RegistryExact, RegSpans, RegOrder, Before
  <2> QED
    BY <2>1, <2>2
<1>2. RegistryExact' <=> RegSpans' /\ RegOrder'
  <2>1. RegistryExact' => RegSpans' /\ RegOrder'
    BY DEF RegistryExact, RegSpans, RegOrder, Before
  <2>2. RegSpans' /\ RegOrder' => RegistryExact'
    BY DEF RegistryExact, RegSpans, RegOrder, Before
  <2> QED
    BY <2>1, <2>2
<1> QED
  BY <1>1, <1>2

(* Nothing that runs, and no entry, has a span that can be started.        *)
LEMMA UnusedFacts ==
    ASSUME Types, NEW s \in Unused
    PROVE  /\ s \in Spans /\ ~IsOpen(s) /\ s # 0
           /\ \A k \in 1..Len(frames) : SpanOf(frames[k]) # s
           /\ \A e \in Items(registry) : e.span # s
<1>1. s \in Spans /\ ~IsOpen(s) /\ s # 0
  BY OwnerFacts DEF Unused
<1>2. ASSUME NEW k \in 1..Len(frames)
      PROVE  SpanOf(frames[k]) # s
  <2>1. frames[k] \in Items(frames) /\ s \notin RefsOf(frames[k])
    BY DEF Unused, Items
  <2>2. frames[k].kind \in {"fn", "stmt", "other"}
    BY FrameFacts
  <2> QED
    BY <2>1, <2>2 DEF RefsOf, SpanOf
<1> QED
  BY <1>1, <1>2 DEF Unused

LEMMA GrowsSpans ==
    ASSUME PlInv, NEW s \in Ref, NEW session, Grows(s, session)
    PROVE  SpanInv'
<1>0. /\ Types /\ BlocksFit /\ ActiveIsOpen /\ SpansDiffer /\ SpansNest
      /\ OwnersFit /\ LevelsFit /\ SpansHeld /\ StaleOutside
      /\ OpenUnlessRolledBack /\ RegistryExact /\ EndsInnermostFirst
      /\ session \in BOOLEAN
  BY DEF PlInv, ShapeInv, SpanInv, Grows
<1>1. PICK m : m = Len(frames)
  OBVIOUS
<1>2. PICK n : n = m + 1
  OBVIOUS
<1>sp. PICK sp : sp = [k \in 1..m |-> SpanOf(frames[k])]
  OBVIOUS
<1>3. PICK own : own = otel_plpgsql_owner(session)
  OBVIOUS
<1>4. /\ m \in Nat /\ n \in Nat /\ n = m + 1 /\ m = Len(frames)
      /\ Len(frames') = n /\ Common(m) /\ SubsKept(m)
      /\ SpanOf(frames'[n]) = s /\ (Session(n)' <=> session)
      /\ \/ n \notin Blocks' /\ level' = level
         \/ n \in Blocks' /\ level' = level + 1 /\ frames'[n].sub = level'
      /\ pc = "run" /\ pc' = "run"
      /\ UNCHANGED <<misuse, rolled_back>>
      /\ otel_span_start(s, own) /\ session_push(session, s)
  <2>1. m \in Nat
    BY <1>0, <1>1, FrameFacts
  <2> QED
    BY <1>1, <1>2, <1>3, <2>1 DEF Grows
<1>5. /\ level \in Nat /\ level >= 1 /\ level' \in Nat /\ level <= level'
      /\ own = (IF session THEN SESSION ELSE level)
      /\ own \in {SESSION} \union 1..MAX_LEVEL
      /\ own \in Int /\ own <= level /\ (own = SESSION <=> session)
      /\ own # NoSpan
  <2>1. level \in Nat /\ level >= 1 /\ level \in 1..MAX_LEVEL
    BY <1>0, OwnerFacts DEF Types
  <2> QED
    BY <1>0, <1>3, <1>4, <2>1 DEF otel_plpgsql_owner, SESSION, NoSpan
<1>6. /\ s # 0 => s \in Unused
      /\ \A t \in Spans : owner'[t] = IF t = s THEN own ELSE owner[t]
      /\ ActiveIsOpen'
      /\ \A x, y : Before(x, y)' <=>
           Before(x, y) \/ (s # 0 /\ y = s /\ x \in Spans /\ IsOpen(x))
  BY <1>0, <1>4, <1>5, StartEffect
<1>7. s # 0 => /\ s \in Spans /\ ~IsOpen(s)
               /\ \A k \in 1..m : sp[k] # s
               /\ \A e \in Items(registry) : e.span # s
  BY <1>0, <1>4, <1>6, <1>sp, UnusedFacts
<1>8. /\ \A k \in 1..m : /\ SpanOf(frames'[k]) = sp[k] /\ sp[k] \in Ref
                         /\ SpanOf(frames[k]) = sp[k]
      /\ \A k \in 1..m : frames'[k].kind = frames[k].kind
      /\ \A k \in 1..m : Session(k)' <=> Session(k)
      /\ \A k \in 1..n : k \in 1..m \/ k = n
      /\ \A t \in Ref : t # 0 => t \in Spans
  <2>1. \A k \in 1..m : /\ SpanOf(frames'[k]) = sp[k]
                         /\ frames'[k].kind = frames[k].kind
    BY <1>4, <1>sp DEF Common, Alike
  <2>2. \A k \in 1..m : sp[k] \in Ref /\ SpanOf(frames[k]) = sp[k]
    BY <1>0, <1>4, <1>sp, FrameFacts
  <2> QED
    BY <1>0, <1>4, <2>1, <2>2, CommonCalls, OwnerFacts
<1>9. /\ \A t \in Spans : t # s => /\ owner'[t] = owner[t]
                                   /\ IsOpen(t)' <=> IsOpen(t)
      /\ s # 0 => owner'[s] = own /\ IsOpen(s)'
  BY <1>5, <1>6, <1>7 DEF IsOpen
<1>10. \A k \in 1..m : sp[k] # 0 => /\ sp[k] \in Spans /\ sp[k] # s
                                    /\ owner'[sp[k]] = owner[sp[k]]
                                    /\ IsOpen(sp[k])' <=> IsOpen(sp[k])
  BY <1>7, <1>8, <1>9
<1>11. \A t \in Spans : IsOpen(t) => \E k \in 1..m : sp[k] = t
  BY <1>0, <1>4, <1>8 DEF SpansHeld
<1>12. SpansDiffer'
  <2> SUFFICES ASSUME NEW j \in 1..n, NEW k \in 1..n, j # k,
                      SpanOf(frames'[j]) # 0,
                      SpanOf(frames'[j]) = SpanOf(frames'[k])
               PROVE  FALSE
    BY <1>4 DEF SpansDiffer
  <2>1. CASE j \in 1..m /\ k \in 1..m
    BY <1>0, <1>4, <1>8, <2>1 DEF SpansDiffer
  <2>2. CASE j \in 1..m /\ k = n
    BY <1>4, <1>7, <1>8, <2>2
  <2>3. CASE j = n /\ k \in 1..m
    BY <1>4, <1>7, <1>8, <2>3
  <2> QED
    BY <1>8, <2>1, <2>2, <2>3
<1>13. SpansNest'
  <2> SUFFICES ASSUME NEW j \in 1..n, NEW k \in 1..n, j < k,
                      NEW x, x = SpanOf(frames'[j]),
                      NEW t, t = SpanOf(frames'[k]), x # 0, t # 0,
                      IsOpen(x)', IsOpen(t)'
               PROVE  Before(x, t)'
    BY <1>4 DEF SpansNest
  <2>1. j \in 1..m /\ x = sp[j] /\ IsOpen(x) /\ x \in Spans
    BY <1>4, <1>8, <1>10
  <2>2. CASE k \in 1..m
    <3>1. Before(x, t)
      BY <1>0, <1>4, <1>8, <1>10, <2>1, <2>2 DEF SpansNest
    <3> QED
      BY <1>6, <3>1
  <2>3. CASE k = n
    BY <1>4, <1>6, <2>1, <2>3
  <2> QED
    BY <1>8, <2>2, <2>3
<1>14. OwnersFit'
  <2> SUFFICES ASSUME NEW k \in 1..n, NEW t, t = SpanOf(frames'[k]), t # 0,
                      IsOpen(t)'
               PROVE  owner'[t] = SESSION <=> Session(k)'
    BY <1>4 DEF OwnersFit
  <2>1. CASE k \in 1..m
    BY <1>0, <1>4, <1>8, <1>10, <2>1 DEF OwnersFit
  <2>2. CASE k = n
    BY <1>4, <1>5, <1>9, <2>2
  <2> QED
    BY <1>8, <2>1, <2>2
<1>15. /\ ~session \/ s = 0 => registry' = registry
       /\ session /\ s # 0 =>
            LET e == [span |-> s, nest_level |-> level]
            IN /\ e \in RegEntry
               /\ registry' = Append(registry, e)
               /\ Items(registry') = Items(registry) \union {e}
               /\ Len(registry') = Len(registry) + 1
               /\ Len(registry) \in Nat
               /\ registry'[Len(registry) + 1] = e
               /\ \A k \in 1..Len(registry) : registry'[k] = registry[k]
  BY <1>0, <1>4, PushEffect
<1>16. PICK new : new = [span |-> s, nest_level |-> level]
  OBVIOUS
<1>17. /\ new.span = s /\ new.nest_level = level
       /\ \A e \in Items(registry') : \/ e \in Items(registry)
                                      \/ session /\ s # 0 /\ e = new
       /\ \A e \in Items(registry) : e \in Items(registry')
       /\ session /\ s # 0 => new \in Items(registry')
  <2>1. CASE ~session \/ s = 0
    BY <1>15, <1>16, <2>1
  <2>2. CASE session /\ s # 0
    BY <1>15, <1>16, <2>2
  <2> QED
    BY <1>0, <2>1, <2>2
<1>18. \A e \in Items(registry) : /\ e.nest_level \in Nat /\ e.nest_level <= level
                                  /\ e.span \in Spans /\ e.span # s
                                  /\ owner[e.span] = SESSION /\ IsOpen(e.span)
  <2>1. \A e \in Items(registry) : /\ e.span \in Spans /\ e.span # 0
                                   /\ e.nest_level \in 1..MAX_LEVEL
                                   /\ owner[e.span] = SESSION /\ IsOpen(e.span)
    BY <1>0, RegistryFacts
  <2>2. MAX_LEVEL \in Nat
    BY <1>0, OwnerFacts
  <2> QED
    BY <1>0, <1>7, <2>1, <2>2 DEF LevelsFit
<1>lv. PICK lv : lv = level
  OBVIOUS
<1>19. /\ \A l \in Int : \A k \in 1..m : l <= lv /\ Fits(k, l) => Fits(k, l)'
       /\ Fits(n, lv)'
  <2>1. \A j \in Blocks' : \/ j = n /\ frames'[j].sub = lv + 1
                           \/ /\ j \in Blocks /\ j \in 1..m
                              /\ frames'[j].sub = frames[j].sub
                              /\ frames[j].sub \in 2..lv
    <3>1. \A j \in Blocks' : j = n \/ j \in 1..m
      BY <1>4, <1>8 DEF Blocks
    <3> QED
      BY <1>0, <1>4, <1>lv, <3>1 DEF SubsKept, BlocksFit
  <2>2. ASSUME NEW l \in Int, NEW k \in 1..m, l <= lv, Fits(k, l)
        PROVE  Fits(k, l)'
    <3> SUFFICES ASSUME NEW j \in Blocks' PROVE j < k <=> frames'[j].sub <= l
      BY DEF Fits
    <3> QED
      BY <1>4, <1>5, <1>lv, <2>1, <2>2 DEF Fits
  <2>3. Fits(n, lv)'
    <3> SUFFICES ASSUME NEW j \in Blocks' PROVE j < n <=> frames'[j].sub <= lv
      BY DEF Fits
    <3> QED
      BY <1>4, <1>5, <1>lv, <2>1
  <2> QED
    BY <2>2, <2>3
<1>20. LevelsFit'
  <2>1. \A t \in Spans : owner'[t] <= level'
    <3>1. \A t \in Spans : owner[t] <= level /\ owner[t] \in Int
      BY <1>0, OwnerFacts DEF LevelsFit
    <3> QED
      BY <1>5, <1>6, <3>1
  <2>2. \A e \in Items(registry') : e.nest_level <= level'
    BY <1>5, <1>17, <1>18
  <2>3. ASSUME NEW k \in 1..n, NEW l \in 1..MAX_LEVEL,
               NEW t, t = SpanOf(frames'[k]), t # 0, HasLevel(t, l)'
        PROVE  Fits(k, l)'
    <3>0. l \in Int /\ (owner'[t] = l \/ \E e \in Items(registry') :
                                           e.span = t /\ e.nest_level = l)
          /\ l > 0
      <4>1. MAX_LEVEL \in Nat
        BY <1>0, OwnerFacts
      <4> QED
        BY <2>3, <4>1 DEF HasLevel
    <3>1. CASE k \in 1..m
      <4>1. t = sp[k] /\ t = SpanOf(frames[k]) /\ k \in 1..Len(frames)
            /\ t \in Spans /\ owner'[t] = owner[t] /\ t # s
        BY <1>4, <1>8, <1>10, <2>3, <3>1
      <4>2. HasLevel(t, l) /\ l <= lv
        <5>1. CASE owner'[t] = l
          BY <1>0, <1>lv, <3>0, <4>1, <5>1 DEF HasLevel, LevelsFit
        <5>2. ASSUME NEW e \in Items(registry'), e.span = t, e.nest_level = l
              PROVE  HasLevel(t, l) /\ l <= lv
          <6>1. e \in Items(registry)
            BY <1>17, <4>1, <5>2
          <6> QED
            BY <1>18, <1>lv, <5>2, <6>1 DEF HasLevel
        <5> QED
          BY <3>0, <5>1, <5>2
      <4>3. Fits(k, l)
        BY <1>0, <2>3, <4>1, <4>2 DEF LevelsFit
      <4> QED
        BY <1>19, <3>0, <3>1, <4>2, <4>3
    <3>2. CASE k = n
      <4>1. t = s /\ s \in Spans /\ owner'[t] = own
        BY <1>4, <1>7, <1>9, <2>3, <3>2
      <4>2. l = lv
        BY <1>5, <1>17, <1>18, <1>lv, <3>0, <4>1 DEF SESSION
      <4> QED
        BY <1>19, <3>2, <4>2
    <3> QED
      BY <1>8, <3>1, <3>2
  <2> QED
    BY <1>4, <2>1, <2>2, <2>3 DEF LevelsFit
<1>21. SpansHeld'
  <2> SUFFICES ASSUME NEW t \in Spans, IsOpen(t)'
               PROVE  \E k \in 1..n : SpanOf(frames'[k]) = t
    BY <1>4 DEF SpansHeld
  <2>1. CASE t = s
    BY <1>4, <2>1
  <2>2. CASE t # s
    <3>1. PICK k \in 1..m : sp[k] = t
      BY <1>9, <1>11, <2>2
    <3> QED
      BY <1>4, <1>8, <3>1
  <2> QED
    BY <2>1, <2>2
<1>22. AbortEndsTop'
  BY <1>4 DEF AbortEndsTop
<1>23. StaleOutside'
  <2> SUFFICES ASSUME NEW k \in 1..n, NEW t, t = SpanOf(frames'[k]),
                      Session(k)', t # 0, ~IsOpen(t)',
                      NEW j \in 1..(k - 1), NEW x, x = SpanOf(frames'[j]), x # 0
               PROVE  owner'[x] # SESSION
    BY <1>4 DEF StaleOutside
  <2>1. k \in 1..m /\ t = sp[k]
    BY <1>4, <1>8, <1>9
  <2>2. j \in 1..m /\ x = sp[j] /\ x \in Spans /\ owner'[x] = owner[x]
    BY <1>4, <1>8, <1>10, <2>1
  <2>3. Session(k) /\ ~IsOpen(t) /\ t = SpanOf(frames[k]) /\ k \in 1..Len(frames)
        /\ x = SpanOf(frames[j])
    BY <1>4, <1>8, <1>10, <2>1, <2>2
  <2>4. pc # "rollback"
    BY <1>4
  <2> QED
    BY <1>0, <2>2, <2>3, <2>4 DEF StaleOutside
<1>24. OpenUnlessRolledBack'
  <2> SUFFICES ASSUME NEW k \in 1..n, ~rolled_back', frames'[k].kind # "other",
                      NEW t, t = SpanOf(frames'[k]), t # 0
               PROVE  IsOpen(t)'
    BY <1>4 DEF OpenUnlessRolledBack
  <2>1. CASE k \in 1..m
    <3>1. frames[k].kind # "other" /\ SpanOf(frames[k]) = t /\ t = sp[k] /\ ~rolled_back
      BY <1>4, <1>8, <2>1
    <3>2. IsOpen(t)
      BY <1>0, <1>4, <2>1, <3>1 DEF OpenUnlessRolledBack
    <3> QED
      BY <1>10, <2>1, <3>1, <3>2
  <2>2. CASE k = n
    BY <1>4, <1>9, <2>2
  <2> QED
    BY <1>8, <2>1, <2>2
<1>25. RegSpans'
  <2> SUFFICES ASSUME NEW t \in Spans
               PROVE  owner'[t] = SESSION <=> \E e \in Items(registry') : e.span = t
    BY DEF RegSpans
  <2>1. RegSpans
    BY <1>0, RegistryParts
  <2>2. CASE t = s
    <3>1. owner'[t] = SESSION <=> session
      BY <1>5, <1>6, <2>2
    <3>2. s # 0
      BY <1>0, <2>2, OwnerFacts
    <3> QED
      BY <1>17, <1>18, <2>2, <3>1, <3>2
  <2>3. CASE t # s
    <3>1. owner'[t] = owner[t]
      BY <1>6, <2>3
    <3>2. \A e : e.span = t => (e \in Items(registry') <=> e \in Items(registry))
      BY <1>17, <2>3
    <3> QED
      BY <2>1, <3>1, <3>2 DEF RegSpans
  <2> QED
    BY <2>2, <2>3
<1>26. RegOrder'
  <2>0. RegOrder
    BY <1>0, RegistryParts
  <2>1. CASE ~session \/ s = 0
    <3>1. registry' = registry
      BY <1>15, <2>1
    <3> QED
      BY <1>6, <2>0, <3>1 DEF RegOrder
  <2>2. CASE session /\ s # 0
    <3>1. PICK r : r = Len(registry)
      OBVIOUS
    <3>2. /\ r \in Nat /\ Len(registry') = r + 1 /\ registry'[r + 1] = new
          /\ \A k \in 1..r : registry'[k] = registry[k]
      BY <1>15, <1>16, <2>2, <3>1
    <3> SUFFICES ASSUME NEW j \in 1..(r + 1), NEW k \in 1..(r + 1), j < k,
                        NEW x, x = registry'[j].span,
                        NEW y, y = registry'[k].span
                 PROVE  /\ registry'[j].nest_level <= registry'[k].nest_level
                        /\ Before(x, y)'
      BY <3>2 DEF RegOrder
    <3>3. j \in 1..r /\ registry'[j] = registry[j] /\ registry[j] \in Items(registry)
      BY <3>1, <3>2 DEF Items
    <3>4. CASE k \in 1..r
      <4>1. /\ registry[j].nest_level <= registry[k].nest_level
            /\ Before(registry[j].span, registry[k].span)
        BY <2>0, <3>1, <3>3, <3>4 DEF RegOrder
      <4> QED
        BY <1>6, <3>2, <3>3, <3>4, <4>1
    <3>5. CASE k = r + 1
      <4>1. y = s /\ registry'[k].nest_level = level
        BY <1>17, <3>2, <3>5
      <4>2. /\ x \in Spans /\ IsOpen(x) /\ registry'[j].nest_level <= level
        BY <1>18, <3>3
      <4> QED
        BY <1>6, <2>2, <4>1, <4>2
    <3> QED
      BY <3>2, <3>4, <3>5
  <2> QED
    BY <2>1, <2>2
<1>27. EndsInnermostFirst'
  BY <1>0, <1>4 DEF EndsInnermostFirst
<1>28. RegistryExact'
  BY <1>25, <1>26, RegistryParts
<1> QED
  BY <1>6, <1>12, <1>13, <1>14, <1>20, <1>21, <1>22, <1>23, <1>24, <1>27, <1>28
     DEF SpanInv

(* No span is started and no frame pushed; spans may end, from the top of  *)
(* the registry in particular, and frames be popped.                       *)
Narrows(m) ==
    /\ m \in Nat /\ m <= Len(frames) /\ Len(frames') = m /\ Common(m)
    /\ \A t \in Spans : owner'[t] \in {owner[t], NoSpan}
    /\ ActiveIsOpen'
    /\ \A x, y : Before(x, y)' <=> Before(x, y) /\ IsOpen(x)' /\ IsOpen(y)'
    /\ registry' = registry \/ (registry # <<>> /\ registry' = Front(registry))
    /\ \A k \in Blocks' : k \in Blocks /\ frames'[k].sub = frames[k].sub

LEMMA NarrowsFacts ==
    ASSUME PlInv, NEW m, Narrows(m)
    PROVE  /\ \A k \in 1..m : /\ k \in 1..Len(frames)
                              /\ SpanOf(frames'[k]) = SpanOf(frames[k])
                              /\ frames'[k].kind = frames[k].kind
                              /\ Session(k)' <=> Session(k)
           /\ \A t \in Spans : /\ IsOpen(t)' => IsOpen(t) /\ owner'[t] = owner[t]
                               /\ owner'[t] # NoSpan <=> IsOpen(t)'
                               /\ owner'[t] <= owner[t]
                               /\ owner'[t] > 0 => owner'[t] = owner[t]
                               /\ owner'[t] = SESSION => owner[t] = SESSION
           /\ \A e \in Items(registry') : e \in Items(registry)
<1>0. Types /\ ActiveIsOpen /\ RegistryExact
  BY DEF PlInv, ShapeInv, SpanInv
<1>1. ASSUME NEW k \in 1..m
      PROVE  /\ k \in 1..Len(frames)
             /\ SpanOf(frames'[k]) = SpanOf(frames[k])
             /\ frames'[k].kind = frames[k].kind
             /\ Session(k)' <=> Session(k)
  <2>1. k \in 1..Len(frames) /\ Alike(frames'[k], frames[k])
    BY DEF Narrows, Common
  <2>2. m \in Nat /\ Common(m)
    BY DEF Narrows
  <2>3. Session(k)' <=> Session(k)
    BY <2>2, CommonCalls
  <2> QED
    BY <2>1, <2>3 DEF Alike
<1>2. ASSUME NEW t \in Spans
      PROVE  /\ IsOpen(t)' => IsOpen(t) /\ owner'[t] = owner[t]
             /\ owner'[t] # NoSpan <=> IsOpen(t)'
             /\ owner'[t] <= owner[t]
             /\ owner'[t] > 0 => owner'[t] = owner[t]
             /\ owner'[t] = SESSION => owner[t] = SESSION
  <2>1. owner'[t] \in {owner[t], NoSpan}
    BY DEF Narrows
  <2>2. owner[t] \in Int /\ owner[t] >= -1
    BY <1>0, OwnerFacts
  <2> QED
    BY <2>1, <2>2 DEF IsOpen, NoSpan, SESSION
<1>3. \A e \in Items(registry') : e \in Items(registry)
  BY <1>0, RegistryTop DEF Narrows
<1> QED
  BY <1>1, <1>2, <1>3

LEMMA NarrowsKeeps ==
    ASSUME PlInv, NEW m, Narrows(m)
    PROVE  /\ SpansDiffer' /\ SpansNest' /\ OwnersFit'
           /\ RegSpans' => RegistryExact'
           /\ \A k \in 1..Len(frames') : \A l \in 1..MAX_LEVEL :
                 \A t : (t = SpanOf(frames'[k]) /\ t # 0 /\ HasLevel(t, l)')
                          => Fits(k, l)'
<1>0. /\ Types /\ ActiveIsOpen /\ RegistryExact /\ SpansDiffer /\ SpansNest
      /\ OwnersFit /\ LevelsFit
  BY DEF PlInv, ShapeInv, SpanInv
<1>1. /\ \A k \in 1..m : /\ k \in 1..Len(frames)
                         /\ SpanOf(frames'[k]) = SpanOf(frames[k])
                         /\ Session(k)' <=> Session(k)
      /\ \A t \in Spans : /\ IsOpen(t)' => IsOpen(t) /\ owner'[t] = owner[t]
                          /\ owner'[t] > 0 => owner'[t] = owner[t]
      /\ \A e \in Items(registry') : e \in Items(registry)
  BY NarrowsFacts
<1>2. /\ Len(frames') = m
      /\ \A x, y : Before(x, y)' <=> Before(x, y) /\ IsOpen(x)' /\ IsOpen(y)'
      /\ registry' = registry \/ (registry # <<>> /\ registry' = Front(registry))
      /\ \A k \in Blocks' : k \in Blocks /\ frames'[k].sub = frames[k].sub
      /\ ActiveIsOpen'
  BY DEF Narrows
<1>3. \A k \in 1..m : SpanOf(frames[k]) # 0 => SpanOf(frames[k]) \in Spans
  BY <1>0, <1>1, FrameFacts, OwnerFacts
<1>4. SpansDiffer'
  BY <1>0, <1>1, <1>2 DEF SpansDiffer
<1>5. SpansNest'
  <2> SUFFICES ASSUME NEW j \in 1..m, NEW k \in 1..m, j < k,
                      NEW x, x = SpanOf(frames'[j]),
                      NEW t, t = SpanOf(frames'[k]), x # 0, t # 0,
                      IsOpen(x)', IsOpen(t)'
               PROVE  Before(x, t)'
    BY <1>2 DEF SpansNest
  <2>1. /\ x = SpanOf(frames[j]) /\ t = SpanOf(frames[k])
        /\ j \in 1..Len(frames) /\ k \in 1..Len(frames)
        /\ x \in Spans /\ t \in Spans
    BY <1>1, <1>3
  <2>2. IsOpen(x) /\ IsOpen(t)
    BY <1>1, <2>1
  <2>3. Before(x, t)
    BY <1>0, <2>1, <2>2 DEF SpansNest
  <2> QED
    BY <1>2, <2>3
<1>6. OwnersFit'
  <2> SUFFICES ASSUME NEW k \in 1..m, NEW t, t = SpanOf(frames'[k]), t # 0,
                      IsOpen(t)'
               PROVE  owner'[t] = SESSION <=> Session(k)'
    BY <1>2 DEF OwnersFit
  <2>1. t = SpanOf(frames[k]) /\ k \in 1..Len(frames) /\ t \in Spans
    BY <1>1, <1>3
  <2>2. IsOpen(t) /\ owner'[t] = owner[t]
    BY <1>1, <2>1
  <2> QED
    BY <1>0, <1>1, <2>1, <2>2 DEF OwnersFit
<1>7. ASSUME RegSpans'
      PROVE  RegOrder'
  <2>0. RegOrder
    BY <1>0, RegistryParts
  <2>1. PICK r : r = Len(registry')
    OBVIOUS
  <2>2. /\ r \in Nat /\ r <= Len(registry) /\ Len(registry) \in Nat
        /\ \A k \in 1..r : registry'[k] = registry[k]
    <3>1. CASE registry' = registry
      <4>1. Len(registry) \in Nat
        BY <1>0 DEF Types
      <4> QED
        BY <2>1, <3>1, <4>1
    <3>2. CASE registry # <<>> /\ registry' = Front(registry)
      BY <1>0, <2>1, <3>2, RegistryTop
    <3> QED
      BY <1>2, <3>1, <3>2
  <2> SUFFICES ASSUME NEW j \in 1..r, NEW k \in 1..r, j < k,
                      NEW x, x = registry'[j].span,
                      NEW y, y = registry'[k].span
               PROVE  /\ registry'[j].nest_level <= registry'[k].nest_level
                      /\ Before(x, y)'
    BY <2>1 DEF RegOrder
  <2>3. /\ j \in 1..Len(registry) /\ k \in 1..Len(registry)
        /\ x = registry[j].span /\ y = registry[k].span
    BY <2>2
  <2>4. registry'[j].nest_level <= registry'[k].nest_level /\ Before(x, y)
    BY <2>0, <2>2, <2>3 DEF RegOrder
  <2>5. /\ x \in Spans /\ y \in Spans
        /\ owner'[x] = SESSION /\ owner'[y] = SESSION
    <3>1. registry[j] \in Items(registry) /\ registry[k] \in Items(registry)
      BY <2>3 DEF Items
    <3>2. x \in Spans /\ y \in Spans
      BY <1>0, <2>3, <3>1, RegistryFacts
    <3>3. registry'[j] \in Items(registry') /\ registry'[k] \in Items(registry')
      BY <2>1 DEF Items
    <3> QED
      BY <1>7, <3>2, <3>3 DEF RegSpans
  <2>6. IsOpen(x)' /\ IsOpen(y)'
    BY <2>5 DEF IsOpen, SESSION, NoSpan
  <2> QED
    BY <1>2, <2>4, <2>6
<1>8. ASSUME NEW k \in 1..Len(frames'), NEW l \in 1..MAX_LEVEL, NEW t,
             t = SpanOf(frames'[k]), t # 0, HasLevel(t, l)'
      PROVE  Fits(k, l)'
  <2>1. t = SpanOf(frames[k]) /\ k \in 1..Len(frames) /\ t \in Spans
    BY <1>1, <1>2, <1>3, <1>8
  <2>2. HasLevel(t, l)
    BY <1>1, <1>8, <2>1 DEF HasLevel
  <2>3. Fits(k, l)
    BY <1>0, <1>8, <2>1, <2>2 DEF LevelsFit
  <2> QED
    BY <1>2, <2>3 DEF Fits
<1> QED
  BY <1>4, <1>5, <1>6, <1>7, <1>8, RegistryParts

(* Where every open span is a frame's, the levels of the spans and entries *)
(* of a state are those of its frames.                                     *)
LEMMA EntryHeld ==
    ASSUME PlInv, pc \in {"run", "error"}
    PROVE  /\ \A t \in Spans : IsOpen(t) =>
                \E k \in 1..Len(frames) : SpanOf(frames[k]) = t
           /\ \A t \in Spans : owner[t] > 0 =>
                \E k \in 1..Len(frames) : /\ SpanOf(frames[k]) = t
                                          /\ Fits(k, owner[t])
           /\ \A e \in Items(registry) :
                \E k \in 1..Len(frames) : /\ SpanOf(frames[k]) = e.span
                                          /\ Fits(k, e.nest_level)
<1>0. /\ Types /\ ActiveIsOpen /\ SpansHeld /\ LevelsFit /\ RegistryExact
  BY DEF PlInv, ShapeInv, SpanInv
<1>1. ASSUME NEW t \in Spans, IsOpen(t)
      PROVE  \E k \in 1..Len(frames) : SpanOf(frames[k]) = t
  BY <1>0, <1>1 DEF SpansHeld
<1>2. ASSUME NEW t \in Spans, owner[t] > 0
      PROVE  \E k \in 1..Len(frames) : SpanOf(frames[k]) = t /\ Fits(k, owner[t])
  <2>1. IsOpen(t) /\ t # 0 /\ owner[t] \in 1..MAX_LEVEL
    BY <1>0, <1>2, OwnerFacts DEF LevelsFit
  <2>2. PICK k \in 1..Len(frames) : SpanOf(frames[k]) = t
    BY <1>1, <2>1
  <2>3. HasLevel(t, owner[t])
    BY <1>2 DEF HasLevel
  <2> QED
    BY <1>0, <2>1, <2>2, <2>3 DEF LevelsFit
<1>3. ASSUME NEW e \in Items(registry)
      PROVE  \E k \in 1..Len(frames) : /\ SpanOf(frames[k]) = e.span
                                       /\ Fits(k, e.nest_level)
  <2>1. IsOpen(e.span) /\ e.span \in Spans /\ e.span # 0
        /\ e.nest_level \in 1..MAX_LEVEL
    BY <1>0, RegistryFacts
  <2>2. PICK k \in 1..Len(frames) : SpanOf(frames[k]) = e.span
    BY <1>1, <2>1
  <2>3. HasLevel(e.span, e.nest_level)
    BY DEF HasLevel
  <2> QED
    BY <1>0, <2>1, <2>2, <2>3 DEF LevelsFit
<1> QED
  BY <1>1, <1>2, <1>3

(* An end callback forgets the entry of the span it ends: the registry's   *)
(* top, unless the registry is empty.                                      *)
LEMMA ForgetsItsOwn ==
    ASSUME PlInv, NEW s, NEW session, Shrinks(s, session)
    PROVE  /\ session /\ s # 0 /\ registry # <<>> =>
                IsOpen(s) /\ Last(registry).span = s
           /\ session /\ s # 0 /\ registry = <<>> => ~IsOpen(s)
           /\ ~session /\ s # 0 /\ IsOpen(s) => owner[s] # SESSION
<1>0. /\ Types /\ ActiveIsOpen /\ RegistryExact /\ OwnersFit /\ StaleOutside
      /\ SpansDiffer
  BY DEF PlInv, ShapeInv, SpanInv
<1>1. PICK n : n = Len(frames)
  OBVIOUS
<1>2. /\ n = Len(frames) /\ n \in 1..Len(frames) /\ s = SpanOf(frames[n])
      /\ s = SpanOf(Last(frames)) /\ s \in Ref /\ (Session(n) <=> session)
      /\ pc = "run" /\ n \in Nat /\ frames # <<>>
  BY <1>0, <1>1, FrameFacts DEF Shrinks
<1>3. s # 0 /\ IsOpen(s) => (owner[s] = SESSION <=> session)
  BY <1>0, <1>2 DEF OwnersFit
<1>4. \A t : ~Before(s, t)
  BY <1>2, NothingAbove
<1>5. ASSUME session, s # 0, registry # <<>>
      PROVE  IsOpen(s) /\ Last(registry).span = s
  <2>1. /\ Last(registry) \in Items(registry)
        /\ \A e \in Items(registry) : e # Last(registry) =>
             Before(e.span, Last(registry).span)
    BY <1>0, <1>5, RegistryTop
  <2>2. IsOpen(s)
    <3> SUFFICES ASSUME ~IsOpen(s) PROVE FALSE
      OBVIOUS
    <3>1. PICK x : x = Last(registry).span
      OBVIOUS
    <3>2. x \in Spans /\ x # 0 /\ owner[x] = SESSION /\ IsOpen(x)
      BY <1>0, <2>1, <3>1, RegistryFacts
    <3>3. PICK k \in 1..Len(frames) : SpanOf(frames[k]) = x
      BY <1>2, <3>2, EntryHeld
    <3>4. k \in 1..(n - 1)
      <4>1. x # s
        BY <2>2, <3>2
      <4>2. k # n
        BY <1>2, <3>3, <4>1
      <4> QED
        BY <1>2, <3>3, <4>2
    <3> QED
      BY <1>0, <1>2, <1>5, <3>2, <3>3, <3>4 DEF StaleOutside
  <2>3. owner[s] = SESSION /\ s \in Spans
    BY <1>0, <1>2, <1>3, <1>5, <2>2, OwnerFacts
  <2>4. PICK e \in Items(registry) : e.span = s
    BY <1>0, <2>3, RegistryFacts
  <2> QED
    BY <1>4, <2>1, <2>2, <2>4
<1>6. ASSUME session, s # 0, registry = <<>>
      PROVE  ~IsOpen(s)
  <2>1. Items(registry) = {} /\ s \in Spans
    BY <1>0, <1>2, <1>6, ItemFacts, OwnerFacts DEF Types
  <2>2. owner[s] # SESSION
    BY <1>0, <2>1, RegistryFacts
  <2> QED
    BY <1>3, <1>6, <2>2
<1> QED
  BY <1>3, <1>5, <1>6

LEMMA ShrinksSpans ==
    ASSUME PlInv, NEW s, NEW session, Shrinks(s, session),
           frames' \in Seq(Frame)
    PROVE  SpanInv'
<1>0. /\ Types /\ BlocksFit /\ ActiveIsOpen /\ SpansDiffer /\ LevelsFit
      /\ StaleOutside /\ OpenUnlessRolledBack /\ RegistryExact
  BY DEF PlInv, ShapeInv, SpanInv
<1>1. PICK n : n = Len(frames)
  OBVIOUS
<1>2. PICK m : m = n - 1
  OBVIOUS
<1>3. /\ n = Len(frames) /\ n \in 1..Len(frames) /\ s = SpanOf(frames[n])
      /\ m \in Nat /\ m = n - 1 /\ n \in Nat /\ s \in Ref
      /\ Len(frames') = m /\ Common(m) /\ SubsKept(m)
      /\ session \in BOOLEAN /\ pc = "run" /\ pc' = "run"
      /\ session_forget(session, s)
      /\ level' = IF n \in Blocks THEN level - 1 ELSE level
      /\ rolled_back' = (rolled_back /\ n > 1)
  <2>1. n \in Nat \ {0} /\ n \in 1..n /\ SpanOf(frames[n]) \in Ref
    <3>1. frames # <<>>
      BY DEF Shrinks
    <3> QED
      BY <1>0, <1>1, <3>1, FrameFacts
  <2> QED
    BY <1>1, <1>2, <2>1 DEF Shrinks
<1>4. /\ \A t \in Spans : owner'[t] = IF t = s THEN NoSpan ELSE owner[t]
      /\ ActiveIsOpen'
      /\ \A x, y : Before(x, y)' <=> Before(x, y) /\ x # s /\ y # s
      /\ EndsInnermostFirst'
      /\ \A k \in Blocks : k < n <=> frames[k].sub <= level'
      /\ level' <= level
  BY <1>1, ShrinksShape
<1>5. \A t \in Spans : IsOpen(t)' <=> IsOpen(t) /\ t # s
  BY <1>4 DEF IsOpen
<1>6. Narrows(m)
  <2>1. \A x, y : Before(x, y)' <=> Before(x, y) /\ IsOpen(x)' /\ IsOpen(y)'
    <3>1. \A x, y : Before(x, y) => /\ x \in Spans /\ y \in Spans
                                    /\ IsOpen(x) /\ IsOpen(y)
      BY <1>0, BeforeFacts
    <3> QED
      BY <1>4, <1>5, <3>1
  <2>2. registry' = registry \/ (registry # <<>> /\ registry' = Front(registry))
    BY <1>0, <1>3, ForgetEffect
  <2>3. \A k \in Blocks' : k \in Blocks /\ frames'[k].sub = frames[k].sub
    BY <1>3 DEF SubsKept, Blocks
  <2>4. m <= Len(frames)
    BY <1>3
  <2> QED
    BY <1>3, <1>4, <2>1, <2>2, <2>3, <2>4 DEF Narrows
<1>7. /\ \A k \in 1..m : /\ k \in 1..Len(frames)
                         /\ SpanOf(frames'[k]) = SpanOf(frames[k])
                         /\ frames'[k].kind = frames[k].kind
                         /\ Session(k)' <=> Session(k)
      /\ \A t \in Spans : owner'[t] = SESSION => owner[t] = SESSION
      /\ \A e \in Items(registry') : e \in Items(registry)
  BY <1>6, NarrowsFacts
<1>8. RegSpans'
  <2>0. RegSpans
    BY <1>0, RegistryParts
  <2>1. registry' = IF session /\ s # 0 /\ registry # <<>>
                    THEN Front(registry) ELSE registry
    BY <1>0, <1>3, ForgetEffect
  <2>2. CASE session /\ s # 0 /\ registry # <<>>
    <3>1. /\ Last(registry).span = s
          /\ \A e \in Items(registry) : e # Last(registry) =>
                e \in Items(Front(registry)) /\ e.span # s
          /\ \A e \in Items(Front(registry)) : e \in Items(registry) /\ e.span # s
      BY <1>0, <2>2, RegistryTop, ForgetsItsOwn
    <3>2. \A t \in Spans : (\E e \in Items(registry') : e.span = t)
             <=> t # s /\ \E e \in Items(registry) : e.span = t
      BY <2>1, <2>2, <3>1
    <3> QED
      BY <1>4, <2>0, <3>2 DEF RegSpans, NoSpan, SESSION
  <2>3. CASE ~(session /\ s # 0 /\ registry # <<>>)
    <3>1. registry' = registry
      BY <2>1, <2>3
    <3>2. s \in Spans => owner[s] # SESSION
      <4>1. s \in Spans => s # 0 /\ (IsOpen(s) \/ owner[s] = NoSpan)
        BY <1>0, OwnerFacts DEF IsOpen
      <4>2. s # 0 => ~IsOpen(s) \/ owner[s] # SESSION
        BY <1>3, <2>3, ForgetsItsOwn
      <4> QED
        BY <4>1, <4>2 DEF IsOpen, NoSpan, SESSION
    <3> QED
      BY <1>4, <2>0, <3>1, <3>2 DEF RegSpans, NoSpan, SESSION
  <2> QED
    BY <2>2, <2>3
<1>9. /\ SpansDiffer' /\ SpansNest' /\ OwnersFit' /\ RegistryExact'
      /\ \A k \in 1..m : \A l \in 1..MAX_LEVEL :
           \A t : (t = SpanOf(frames'[k]) /\ t # 0 /\ HasLevel(t, l)')
                  => Fits(k, l)'
  BY <1>3, <1>6, <1>8, NarrowsKeeps
<1>10. LevelsFit'
  <2>0. /\ level \in Nat /\ level >= 1 /\ level' \in Int
        /\ \A t \in Spans : owner[t] \in Int /\ owner[t] <= level
        /\ \A e \in Items(registry) : e.nest_level <= level /\ e.nest_level \in Int
    <3>1. \A e \in Items(registry) : e.nest_level \in 1..MAX_LEVEL
      BY <1>0, RegistryFacts
    <3>2. level \in Nat /\ level >= 1
      BY <1>0, OwnerFacts
    <3> QED
      BY <1>0, <1>3, <3>1, <3>2, OwnerFacts DEF LevelsFit
  <2>1. ASSUME NEW l \in Int, l <= level, NEW k \in 1..Len(frames), Fits(k, l)
        PROVE  l <= level'
    <3>1. CASE n \in Blocks
      <4>1. frames[n].sub = level /\ level >= 2
        BY <1>0, <1>1, <3>1, LastBlock
      <4>2. ~(n < k)
        BY <1>3
      <4>3. ~(level <= l)
        BY <2>1, <3>1, <4>1, <4>2 DEF Fits
      <4> QED
        BY <1>3, <2>0, <2>1, <3>1, <4>3
    <3>2. CASE n \notin Blocks
      BY <1>3, <2>1, <3>2
    <3> QED
      BY <3>1, <3>2
  <2>2. ASSUME NEW t \in Spans
        PROVE  owner'[t] <= level'
    <3>1. CASE owner[t] > 0
      <4>1. PICK k \in 1..Len(frames) : Fits(k, owner[t])
        BY <1>3, <3>1, EntryHeld
      <4>2. owner[t] <= level' /\ -1 <= level'
        BY <2>0, <2>1, <3>1, <4>1
      <4> QED
        BY <1>4, <4>2 DEF NoSpan
    <3>2. CASE ~(owner[t] > 0)
      <4>1. level' >= 1
        BY <1>0, <1>3, <2>0, LastBlock
      <4> QED
        BY <1>4, <2>0, <3>2, <4>1 DEF NoSpan
    <3> QED
      BY <3>1, <3>2
  <2>3. ASSUME NEW e \in Items(registry')
        PROVE  e.nest_level <= level'
    <3>1. e \in Items(registry)
      BY <1>7
    <3>2. PICK k \in 1..Len(frames) : Fits(k, e.nest_level)
      BY <1>3, <3>1, EntryHeld
    <3> QED
      BY <2>0, <2>1, <3>1, <3>2
  <2> QED
    BY <1>3, <1>9, <2>2, <2>3 DEF LevelsFit
<1>11. SpansHeld'
  <2> SUFFICES ASSUME NEW t \in Spans, IsOpen(t)'
               PROVE  \E k \in 1..m : SpanOf(frames'[k]) = t
    BY <1>3 DEF SpansHeld
  <2>1. IsOpen(t) /\ t # s
    BY <1>5
  <2>2. PICK k \in 1..Len(frames) : SpanOf(frames[k]) = t
    BY <1>3, <2>1, EntryHeld
  <2>3. k \in 1..m
    BY <1>3, <2>1, <2>2
  <2> QED
    BY <1>7, <2>2, <2>3
<1>12. AbortEndsTop'
  BY <1>3 DEF AbortEndsTop
<1>13. \A k \in 1..m : \A t : (t = SpanOf(frames[k]) /\ t # 0) =>
          /\ t \in Spans /\ t # s
          /\ IsOpen(t)' <=> IsOpen(t)
  <2> SUFFICES ASSUME NEW k \in 1..m, NEW t, t = SpanOf(frames[k]), t # 0
               PROVE  t \in Spans /\ t # s /\ (IsOpen(t)' <=> IsOpen(t))
    OBVIOUS
  <2>1. t \in Spans
    BY <1>0, <1>7, FrameFacts, OwnerFacts
  <2>2. t # s
    BY <1>0, <1>3, <1>7 DEF SpansDiffer
  <2> QED
    BY <1>5, <2>1, <2>2
<1>14. StaleOutside'
  <2> SUFFICES ASSUME NEW k \in 1..m, NEW t, t = SpanOf(frames'[k]),
                      Session(k)', t # 0, ~IsOpen(t)',
                      NEW j \in 1..(k - 1), NEW x, x = SpanOf(frames'[j]), x # 0
               PROVE  owner'[x] # SESSION
    BY <1>3 DEF StaleOutside
  <2>1. j \in 1..m
    BY <1>3
  <2>2. /\ t = SpanOf(frames[k]) /\ x = SpanOf(frames[j]) /\ Session(k)
        /\ k \in 1..Len(frames) /\ x \in Spans /\ ~IsOpen(t)
    BY <1>7, <1>13, <2>1
  <2>3. owner[x] # SESSION
    BY <1>0, <1>3, <2>2 DEF StaleOutside
  <2> QED
    BY <1>7, <2>2, <2>3
<1>15. OpenUnlessRolledBack'
  <2> SUFFICES ASSUME NEW k \in 1..m, ~rolled_back', frames'[k].kind # "other",
                      NEW t, t = SpanOf(frames'[k]), t # 0
               PROVE  IsOpen(t)'
    BY <1>3 DEF OpenUnlessRolledBack
  <2>1. ~rolled_back
    BY <1>0, <1>3 DEF Types
  <2>2. t = SpanOf(frames[k]) /\ frames[k].kind # "other" /\ k \in 1..Len(frames)
    BY <1>7
  <2>3. IsOpen(t)
    BY <1>0, <2>1, <2>2 DEF OpenUnlessRolledBack
  <2> QED
    BY <1>13, <2>2, <2>3
<1> QED
  BY <1>4, <1>9, <1>10, <1>11, <1>12, <1>14, <1>15 DEF SpanInv

(* The release of resource owners, as a step that narrows.                 *)
LEMMA ReleaseNarrows ==
    ASSUME PlInv, NEW l \in 1..MAX_LEVEL, ReleaseOwners(l),
           NEW m \in Nat, m <= Len(frames), Len(frames') = m, Common(m),
           SubsKept(m), registry' = registry
    PROVE  /\ Narrows(m) /\ RegSpans'
           /\ owner' \in [Spans -> {NoSpan, SESSION} \union 1..MAX_LEVEL]
           /\ active' \in Seq(Spans)
           /\ \A t \in Spans : IsOpen(t)' <=> IsOpen(t) /\ owner[t] < l
           /\ \A t \in Spans : owner'[t] < l
           /\ \A t \in Spans : owner[t] < l => owner'[t] = owner[t]
<1>0. Types /\ ActiveIsOpen /\ RegistryExact /\ RegSpans
  BY RegistryParts DEF PlInv, ShapeInv, SpanInv
<1>1. /\ owner' \in [Spans -> {NoSpan, SESSION} \union 1..MAX_LEVEL]
      /\ \A t \in Spans : owner'[t] = IF owner[t] >= l THEN NoSpan ELSE owner[t]
      /\ active' \in Seq(Spans)
      /\ ActiveIsOpen'
      /\ \A x, y : Before(x, y)' <=> Before(x, y) /\ owner[x] < l /\ owner[y] < l
  BY <1>0, ReleaseEffect
<1>2. /\ l \in Nat /\ l >= 1
      /\ \A t \in Spans : owner[t] \in Int /\ (IsOpen(t) <=> owner[t] >= 0)
  BY <1>0, OwnerFacts
<1>3. \A t \in Spans : /\ IsOpen(t)' <=> IsOpen(t) /\ owner[t] < l
                       /\ owner'[t] < l
                       /\ owner[t] < l => owner'[t] = owner[t]
                       /\ owner'[t] \in {owner[t], NoSpan}
                       /\ owner'[t] = SESSION <=> owner[t] = SESSION
  BY <1>1, <1>2 DEF IsOpen, NoSpan, SESSION
<1>4. \A x, y : Before(x, y)' <=> Before(x, y) /\ IsOpen(x)' /\ IsOpen(y)'
  <2>1. \A x, y : Before(x, y) => /\ x \in Spans /\ y \in Spans
                                  /\ IsOpen(x) /\ IsOpen(y)
    BY <1>0, BeforeFacts
  <2> QED
    BY <1>1, <1>3, <2>1
<1>5. \A k \in Blocks' : k \in Blocks /\ frames'[k].sub = frames[k].sub
  BY DEF SubsKept, Blocks
<1>6. Narrows(m)
  BY <1>1, <1>3, <1>4, <1>5 DEF Narrows
<1>7. RegSpans'
  BY <1>0, <1>3 DEF RegSpans
<1> QED
  BY <1>1, <1>3, <1>6, <1>7

(* In code where COMMIT is allowed, the spans of the calls and statements  *)
(* that run are session spans.                                             *)
LEMMA ControlledSpans ==
    ASSUME PlInv, TransactionControl
    PROVE  \A k \in 1..Len(frames) :
              (frames[k].kind # "other" /\ SpanOf(frames[k]) # 0
               /\ IsOpen(SpanOf(frames[k])))
              => owner[SpanOf(frames[k])] = SESSION
<1>0. Types /\ CallsFit /\ StacksFit /\ OwnersFit
  BY DEF PlInv, ShapeInv, SpanInv
<1>1. Innermost("stmt") /\ Nonatomic
  BY DEF TransactionControl
<1>2. /\ Fn \in FnIndexes /\ frames[Fn].nonatomic /\ Len(frames) \in Nat
      /\ \A j \in FnIndexes : j <= Fn /\ j \in 1..Len(frames)
                              /\ frames[j].kind = "fn"
  BY <1>0, <1>1, InnermostCall DEF Nonatomic, FnIndexes
<1>3. CallFits(Fn)
  BY <1>0, <1>2 DEF CallsFit
<1>4. \A j \in FnIndexes : frames[j].nonatomic
  <2> SUFFICES ASSUME NEW j \in FnIndexes PROVE frames[j].nonatomic
    OBVIOUS
  <2>1. CASE j = Fn
    BY <1>2, <2>1
  <2>2. CASE j # Fn
    <3>1. j < Fn
      BY <1>2, <2>2
    <3> QED
      BY <1>2, <1>3, <3>1 DEF CallFits
  <2> QED
    BY <2>1, <2>2
<1>5. \A c \in FnIndexes : frames[c].use_session_owner <=> frames[c].traced
  BY <1>0, <1>2, <1>4 DEF CallsFit, CallFits
<1> SUFFICES ASSUME NEW k \in 1..Len(frames), frames[k].kind # "other",
                    SpanOf(frames[k]) # 0, IsOpen(SpanOf(frames[k]))
             PROVE  owner[SpanOf(frames[k])] = SESSION
  OBVIOUS
<1>6. \E c \in FnIndexes : CallOf(c, k) /\ frames[c].traced
  <2>1. CASE frames[k].kind = "fn"
    <3>1. CallOf(k, k) /\ k \in FnIndexes
      BY <1>2, <2>1 DEF CallOf, FnIndexes
    <3>2. frames[k].traced
      BY <1>0, <2>1 DEF CallsFit, CallFits, SpanOf
    <3> QED
      BY <3>1, <3>2
  <2>2. CASE frames[k].kind = "stmt"
    <3>1. PICK c \in 1..k : CallOf(c, k)
      BY <1>0, <2>2 DEF CallsFit, CallFits
    <3>2. c \in FnIndexes /\ frames[c].kind = "fn"
      BY <1>2, <3>1 DEF CallOf, FnIndexes
    <3>3. k \in (c + 1)..Len(frames)
      <4>1. c # k
        BY <2>2, <3>2
      <4> QED
        BY <1>2, <3>1, <4>1
    <3>4. Remembered(c, k)
      BY <1>0, <3>1, <3>2, <3>3 DEF StacksFit
    <3>5. frames[c].traced
      BY <2>2, <3>4 DEF Remembered, SpanOf
    <3> QED
      BY <3>1, <3>2, <3>5
  <2>3. frames[k].kind \in {"fn", "stmt", "other"}
    BY <1>0, FrameFacts
  <2> QED
    BY <2>1, <2>2, <2>3
<1>7. Session(k)
  <2>1. PICK c \in FnIndexes : CallOf(c, k) /\ frames[c].traced
    BY <1>6
  <2> QED
    BY <1>5, <2>1 DEF Session, CallOf
<1> QED
  BY <1>0, <1>7 DEF OwnersFit

(* COMMIT and ROLLBACK leave the spans of the calls and statements that    *)
(* run; a ROLLBACK's callback has still to come.                           *)
LEMMA CommitKeeps ==
    ASSUME PlInv, TransactionControl, ReleaseOwners(1),
           UNCHANGED <<frames, level, registry, misuse>>,
           \/ pc' = "run" /\ rolled_back' = rolled_back
           \/ pc' = "rollback" /\ rolled_back' = TRUE
    PROVE  PlInv'
<1>0. /\ Types /\ CallsFit /\ StacksFit /\ BlocksFit /\ StagesFit
      /\ ActiveIsOpen /\ LevelsFit /\ SpansHeld /\ StaleOutside
      /\ OpenUnlessRolledBack /\ EndsInnermostFirst /\ OwnersFit
      /\ pc = "run" /\ level = 1 /\ 1 \in 1..MAX_LEVEL
  <2>1. 1 \in 1..MAX_LEVEL
    BY PlpgsqlAssumption
  <2> QED
    BY <2>1 DEF PlInv, ShapeInv, SpanInv, TransactionControl
<1>1. /\ CallsFit' /\ StacksFit' /\ BlocksFit'
      /\ Common(Len(frames)) /\ SubsKept(Len(frames))
  BY <1>0, FramesSame
<1>2. PICK m : m = Len(frames)
  OBVIOUS
<1>3. m \in Nat /\ m = Len(frames) /\ Len(frames') = m
  BY <1>0, <1>2, FrameFacts
<1>4. /\ Narrows(m) /\ RegSpans'
      /\ owner' \in [Spans -> {NoSpan, SESSION} \union 1..MAX_LEVEL]
      /\ active' \in Seq(Spans)
      /\ \A t \in Spans : IsOpen(t)' <=> IsOpen(t) /\ owner[t] < 1
      /\ \A t \in Spans : owner'[t] < 1
      /\ \A t \in Spans : owner[t] < 1 => owner'[t] = owner[t]
  BY <1>0, <1>1, <1>3, ReleaseNarrows
<1>5. /\ SpansDiffer' /\ SpansNest' /\ OwnersFit' /\ RegistryExact'
      /\ \A k \in 1..m : \A l \in 1..MAX_LEVEL :
           \A t : (t = SpanOf(frames'[k]) /\ t # 0 /\ HasLevel(t, l)')
                  => Fits(k, l)'
  BY <1>3, <1>4, NarrowsKeeps
<1>6. /\ \A k \in 1..m : /\ SpanOf(frames[k]) \in Ref
                         /\ SpanOf(frames[k]) # 0 => SpanOf(frames[k]) \in Spans
                         /\ Session(k)' <=> Session(k)
      /\ \A t \in Spans : owner[t] \in Int
      /\ \A t \in Spans : owner'[t] <= owner[t]
      /\ \A t \in Spans : owner'[t] = SESSION => owner[t] = SESSION
  BY <1>0, <1>3, <1>4, FrameFacts, OwnerFacts, NarrowsFacts
<1>7. /\ Types' /\ StagesFit' /\ ActiveIsOpen' /\ EndsInnermostFirst'
  <2>1. Types'
    BY <1>0, <1>4 DEF Types, Stages
  <2>2. StagesFit'
    BY <1>0 DEF StagesFit
  <2> QED
    BY <1>0, <1>4, <2>1, <2>2 DEF Narrows, EndsInnermostFirst
<1>8. LevelsFit'
  <2>1. \A t \in Spans : owner'[t] <= level'
    <3>1. \A t \in Spans : owner'[t] \in Int
      BY <1>4, <1>7, OwnerFacts DEF NoSpan, SESSION
    <3> QED
      BY <1>0, <1>4, <3>1
  <2> QED
    BY <1>0, <1>3, <1>5, <2>1 DEF LevelsFit
<1>9. SpansHeld'
  <2>1. \A t \in Spans : IsOpen(t)' => IsOpen(t)
    BY <1>4
  <2> QED
    BY <1>0, <2>1 DEF SpansHeld
<1>10. AbortEndsTop'
  <2>1. \A t \in Spans : owner'[t] <= SESSION /\ ~(owner'[t] > 0)
    <3>1. \A t \in Spans : owner'[t] \in Int
      BY <1>4, <1>7, OwnerFacts DEF NoSpan, SESSION
    <3> QED
      BY <1>4, <3>1 DEF SESSION
  <2>2. pc' # "subabort"
    OBVIOUS
  <2> QED
    BY <2>1, <2>2 DEF AbortEndsTop
<1>11. \A k \in 1..m : \A t : (t = SpanOf(frames[k]) /\ t # 0 /\ IsOpen(t)
                               /\ owner[t] = SESSION) => IsOpen(t)'
  BY <1>4, <1>6 DEF SESSION
<1>12. StaleOutside'
  <2> SUFFICES ASSUME NEW k \in 1..m, NEW t, t = SpanOf(frames[k]),
                      Session(k)', t # 0, ~IsOpen(t)',
                      NEW j \in 1..(k - 1), NEW x, x = SpanOf(frames[j]), x # 0
               PROVE  owner'[x] # SESSION
    BY <1>3 DEF StaleOutside
  <2>1. ~IsOpen(t) /\ Session(k)
    BY <1>0, <1>3, <1>6, <1>11 DEF OwnersFit
  <2>2. owner[x] # SESSION /\ x \in Spans
    BY <1>0, <1>3, <1>6, <2>1 DEF StaleOutside
  <2> QED
    BY <1>6, <2>2
<1>13. OpenUnlessRolledBack'
  <2> SUFFICES ASSUME ~rolled_back', NEW k \in 1..m, frames[k].kind # "other",
                      NEW t, t = SpanOf(frames[k]), t # 0
               PROVE  IsOpen(t)'
    BY <1>3 DEF OpenUnlessRolledBack
  <2>1. IsOpen(t)
    BY <1>0, <1>3 DEF OpenUnlessRolledBack
  <2>2. owner[t] = SESSION
    BY <1>3, <2>1, ControlledSpans
  <2> QED
    BY <1>11, <2>1, <2>2
<1> QED
  BY <1>1, <1>5, <1>7, <1>8, <1>9, <1>10, <1>12, <1>13
     DEF PlInv, ShapeInv, SpanInv

(* The span state stays, and with it what the callback has still to do.    *)
LEMMA SpansSame ==
    ASSUME PlInv, frames' = frames, UNCHANGED <<registry, owner, active, misuse>>
    PROVE  /\ ActiveIsOpen' /\ SpansDiffer' /\ SpansNest' /\ OwnersFit'
           /\ RegistryExact' /\ EndsInnermostFirst'
           /\ level' = level => LevelsFit'
           /\ \A k : Session(k)' <=> Session(k)
           /\ pc # "rollback" => StaleOutside'
           /\ rolled_back' = rolled_back => OpenUnlessRolledBack'
<1>0. /\ ActiveIsOpen /\ SpansDiffer /\ SpansNest /\ OwnersFit /\ RegistryExact
      /\ EndsInnermostFirst /\ LevelsFit /\ StaleOutside /\ OpenUnlessRolledBack
  BY DEF PlInv, SpanInv
<1>1. \A t : IsOpen(t)' <=> IsOpen(t)
  BY DEF IsOpen
<1>2. \A x, y : Before(x, y)' <=> Before(x, y)
  BY DEF Before
<1>3. \A c, k : CallOf(c, k)' <=> CallOf(c, k)
  BY DEF CallOf
<1>4. \A k : Session(k)' <=> Session(k)
  BY <1>3 DEF Session
<1>5. \A k, l : (Fits(k, l)' <=> Fits(k, l)) /\ (HasLevel(k, l)' <=> HasLevel(k, l))
  BY DEF Fits, HasLevel, Blocks
<1>6. ActiveIsOpen'
  BY <1>0 DEF ActiveIsOpen, IsOpen
<1>7. SpansDiffer' /\ EndsInnermostFirst'
  BY <1>0 DEF SpansDiffer, EndsInnermostFirst
<1>8. SpansNest'
  BY <1>0 DEF SpansNest, IsOpen, Before
<1>9. OwnersFit'
  <2> SUFFICES ASSUME NEW k \in 1..Len(frames), NEW t, t = SpanOf(frames[k]),
                      t # 0, IsOpen(t)'
               PROVE  owner[t] = SESSION <=> Session(k)'
    BY DEF OwnersFit
  <2> QED
    BY <1>0, <1>1, <1>4 DEF OwnersFit
<1>10. RegistryExact'
  <2>1. RegSpans /\ RegOrder
    BY <1>0, RegistryParts
  <2>2. RegSpans' /\ RegOrder'
    BY <1>2, <2>1 DEF RegSpans, RegOrder, Before
  <2> QED
    BY <2>2, RegistryParts
<1>11. level' = level => LevelsFit'
  <2> SUFFICES ASSUME level' = level PROVE LevelsFit'
    OBVIOUS
  <2>1. \A k \in 1..Len(frames) : \A l \in 1..MAX_LEVEL :
           \A t : t = SpanOf(frames[k]) /\ t # 0 /\ HasLevel(t, l)' => Fits(k, l)'
    BY <1>0, <1>5 DEF LevelsFit
  <2> QED
    BY <1>0, <2>1 DEF LevelsFit
<1>12. pc # "rollback" => StaleOutside'
  <2> SUFFICES ASSUME pc # "rollback",
                      NEW k \in 1..Len(frames), NEW t, t = SpanOf(frames[k]),
                      Session(k)', t # 0, ~IsOpen(t)',
                      NEW j \in 1..(k - 1), SpanOf(frames[j]) # 0
               PROVE  owner[SpanOf(frames[j])] # SESSION
    BY DEF StaleOutside
  <2> QED
    BY <1>0, <1>1, <1>4 DEF StaleOutside
<1>13. rolled_back' = rolled_back => OpenUnlessRolledBack'
  BY <1>0 DEF OpenUnlessRolledBack, IsOpen
<1> QED
  BY <1>4, <1>6, <1>7, <1>8, <1>9, <1>10, <1>11, <1>12, <1>13

LEMMA RaiseKeeps ==
    ASSUME PlInv, Raise
    PROVE  PlInv'
<1>0. /\ Types /\ CallsFit /\ StacksFit /\ BlocksFit /\ SpansHeld
      /\ pc = "run" /\ pc' = "error" /\ frames' = frames
      /\ UNCHANGED <<registry, owner, active, misuse>>
      /\ level' = level /\ rolled_back' = rolled_back
  BY DEF PlInv, ShapeInv, SpanInv, Raise
<1>1. CallsFit' /\ StacksFit' /\ BlocksFit'
  BY <1>0, FramesSame
<1>2. Types' /\ StagesFit'
  BY <1>0 DEF Types, Stages, StagesFit
<1>3. SpansHeld' /\ AbortEndsTop'
  BY <1>0 DEF SpansHeld, AbortEndsTop, IsOpen
<1> QED
  BY <1>0, <1>1, <1>2, <1>3, SpansSame DEF PlInv, ShapeInv, SpanInv

(* When the callback has nothing left to end, no entry is of this level.   *)
LEMMA NothingLeaked ==
    ASSUME PlInv, ~MoreToEnd
    PROVE  \A e \in Items(registry) : ~Leaked(e) /\ e.nest_level < level
<1>0. Types /\ ActiveIsOpen /\ RegistryExact
  BY DEF PlInv, ShapeInv, SpanInv
<1>1. level \in Nat /\ \A e \in Items(registry) : e.nest_level \in Int
  <2>1. \A e \in Items(registry) : e.nest_level \in 1..MAX_LEVEL
    BY <1>0, RegistryFacts
  <2> QED
    BY <1>0, <2>1, OwnerFacts
<1> SUFFICES ASSUME NEW e \in Items(registry)
             PROVE  e.nest_level < level
  BY <1>1 DEF Leaked
<1>2. registry # <<>>
  BY <1>0, ItemFacts DEF Types
<1>3. /\ Last(registry) \in Items(registry)
      /\ e # Last(registry) => e.nest_level <= Last(registry).nest_level
  BY <1>0, <1>2, RegistryTop
<1>4. ~(Last(registry).nest_level >= level)
  BY <1>2 DEF MoreToEnd
<1> QED
  BY <1>1, <1>3, <1>4

LEMMA AbortedKeeps ==
    ASSUME PlInv, Aborted
    PROVE  PlInv'
<1>0. /\ Types /\ CallsFit /\ StacksFit /\ BlocksFit /\ StagesFit /\ SpansHeld
      /\ LevelsFit /\ pc = "abort" /\ pc' = "run" /\ frames' = frames
      /\ UNCHANGED <<registry, owner, active, misuse>>
      /\ ~MoreToEnd /\ level' = 1 /\ rolled_back' = FALSE
  BY DEF PlInv, ShapeInv, SpanInv, Aborted
<1>1. frames = <<>> /\ Len(frames) = 0 /\ level \in Nat /\ level >= 1
  BY <1>0, OwnerFacts DEF StagesFit
<1>2. level = 1
  <2>1. Blocks = {}
    BY <1>1 DEF Blocks
  <2>2. level \notin 2..level
    BY <1>0, <2>1 DEF BlocksFit
  <2> QED
    BY <1>1, <2>2
<1>3. CallsFit' /\ StacksFit' /\ BlocksFit'
  BY <1>0, <1>2, FramesSame
<1>4. Types' /\ StagesFit'
  <2>1. 1 \in 1..MAX_LEVEL
    BY PlpgsqlAssumption
  <2> QED
    BY <1>0, <2>1 DEF Types, Stages, StagesFit
<1>5. SpansHeld' /\ AbortEndsTop'
  <2>1. \A s \in Spans : ~IsOpen(s)
    <3>1. \A e \in Items(registry) : ~Leaked(e)
      BY <1>0, NothingLeaked
    <3> QED
      BY <1>0, <1>1, <3>1 DEF SpansHeld
  <2> QED
    BY <1>0, <2>1 DEF SpansHeld, AbortEndsTop, IsOpen
<1>6. OpenUnlessRolledBack'
  BY <1>0, <1>1 DEF OpenUnlessRolledBack
<1> QED
  BY <1>0, <1>2, <1>3, <1>4, <1>5, <1>6, SpansSame DEF PlInv, ShapeInv, SpanInv

LEMMA RolledBackKeeps ==
    ASSUME PlInv, RolledBack
    PROVE  PlInv'
<1>0. /\ Types /\ CallsFit /\ StacksFit /\ BlocksFit /\ StagesFit /\ SpansHeld
      /\ ActiveIsOpen /\ RegistryExact
      /\ pc = "rollback" /\ pc' = "run" /\ frames' = frames
      /\ UNCHANGED <<registry, owner, active, misuse>>
      /\ ~MoreToEnd /\ level' = level /\ rolled_back' = rolled_back
  BY DEF PlInv, ShapeInv, SpanInv, RolledBack
<1>1. CallsFit' /\ StacksFit' /\ BlocksFit'
  BY <1>0, FramesSame
<1>2. Types' /\ StagesFit'
  BY <1>0 DEF Types, Stages, StagesFit
<1>3. SpansHeld' /\ AbortEndsTop'
  BY <1>0 DEF SpansHeld, AbortEndsTop, IsOpen
<1>4. \A s \in Spans : owner[s] # SESSION
  <2>1. level = 1
    BY <1>0 DEF StagesFit
  <2>2. \A e \in Items(registry) : e.nest_level \in 1..MAX_LEVEL /\ e.nest_level < 1
    BY <1>0, <2>1, RegistryFacts, NothingLeaked
  <2>3. Items(registry) = {}
    BY <2>2
  <2> QED
    BY <1>0, <2>3 DEF RegistryExact
<1>5. StaleOutside'
  <2> SUFFICES ASSUME NEW k \in 1..Len(frames), NEW j \in 1..(k - 1),
                      SpanOf(frames[j]) # 0
               PROVE  owner[SpanOf(frames[j])] # SESSION
    BY <1>0 DEF StaleOutside
  <2>1. j \in 1..Len(frames)
    BY <1>0, FrameFacts
  <2>2. SpanOf(frames[j]) \in Spans
    BY <1>0, <2>1, FrameFacts, OwnerFacts
  <2> QED
    BY <1>4, <2>2
<1> QED
  BY <1>0, <1>1, <1>2, <1>3, <1>5, SpansSame DEF PlInv, ShapeInv, SpanInv

LEMMA SubAbortedKeeps ==
    ASSUME PlInv, NEW caught \in BOOLEAN, SubAborted(caught)
    PROVE  PlInv'
<1>0. /\ Types /\ ActiveIsOpen /\ SpansHeld /\ AbortEndsTop /\ LevelsFit
      /\ StaleOutside /\ OpenUnlessRolledBack /\ RegistryExact /\ EndsInnermostFirst
  BY DEF PlInv, ShapeInv, SpanInv
<1>1. PICK m : m = Len(frames)
  OBVIOUS
<1>2. /\ ShapeInv' /\ Common(m) /\ Len(frames') = m /\ m = Len(frames) /\ m \in Nat
      /\ pc = "subabort" /\ pc' \in {"run", "error"}
      /\ level' = level - 1 /\ level > 1 /\ level \in Nat
      /\ UNCHANGED <<registry, owner, active, misuse, rolled_back>>
      /\ ~MoreToEnd
      /\ \A k \in Blocks' : k \in Blocks /\ frames'[k].sub = frames[k].sub
  <2>1. m \in Nat /\ level \in Nat
    BY <1>0, <1>1, FrameFacts, OwnerFacts
  <2> QED
    BY <1>1, <2>1, SubAbortedShape
<1>3. Narrows(m)
  <2>1. ActiveIsOpen'
    BY <1>0, <1>2 DEF ActiveIsOpen, IsOpen
  <2>2. \A x, y : Before(x, y) => IsOpen(x)' /\ IsOpen(y)'
    <3>1. \A t : IsOpen(t)' <=> IsOpen(t)
      BY <1>2 DEF IsOpen
    <3> QED
      BY <1>0, <3>1, BeforeFacts
  <2>3. \A x, y : Before(x, y)' <=> Before(x, y)
    BY <1>2 DEF Before
  <2> QED
    BY <1>2, <2>1, <2>2, <2>3 DEF Narrows
<1>4. /\ \A k \in 1..m : /\ k \in 1..Len(frames)
                         /\ SpanOf(frames'[k]) = SpanOf(frames[k])
                         /\ frames'[k].kind = frames[k].kind
                         /\ Session(k)' <=> Session(k)
  BY <1>3, NarrowsFacts
<1>5. RegSpans'
  <2>1. RegSpans
    BY <1>0, RegistryParts
  <2> QED
    BY <1>2, <2>1 DEF RegSpans
<1>6. /\ SpansDiffer' /\ SpansNest' /\ OwnersFit' /\ RegistryExact'
      /\ \A k \in 1..m : \A l \in 1..MAX_LEVEL :
           \A t : (t = SpanOf(frames'[k]) /\ t # 0 /\ HasLevel(t, l)')
                  => Fits(k, l)'
  BY <1>2, <1>3, <1>5, NarrowsKeeps
<1>7. \A e \in Items(registry) : ~Leaked(e) /\ e.nest_level < level
                                 /\ e.nest_level \in Nat
  <2>1. \A e \in Items(registry) : e.nest_level \in 1..MAX_LEVEL
    BY <1>0, RegistryFacts
  <2> QED
    BY <1>0, <1>2, <2>1, NothingLeaked, OwnerFacts
<1>8. LevelsFit'
  <2>1. \A t \in Spans : owner'[t] <= level'
    <3>1. \A t \in Spans : owner[t] < level /\ owner[t] \in Int
      BY <1>0, <1>2, OwnerFacts DEF AbortEndsTop
    <3> QED
      BY <1>2, <3>1
  <2>2. \A e \in Items(registry') : e.nest_level <= level'
    BY <1>2, <1>7
  <2> QED
    BY <1>2, <1>6, <2>1, <2>2 DEF LevelsFit
<1>9. \A t \in Spans : IsOpen(t)' <=> IsOpen(t)
  BY <1>2 DEF IsOpen
<1>10. SpansHeld'
  <2> SUFFICES ASSUME NEW t \in Spans, IsOpen(t)'
               PROVE  \E k \in 1..m : SpanOf(frames'[k]) = t
    BY <1>2 DEF SpansHeld
  <2>1. PICK k \in 1..m : SpanOf(frames[k]) = t
    BY <1>0, <1>2, <1>7, <1>9 DEF SpansHeld
  <2> QED
    BY <1>4, <2>1
<1>11. AbortEndsTop' /\ ActiveIsOpen' /\ EndsInnermostFirst'
  BY <1>0, <1>2, <1>3 DEF AbortEndsTop, Narrows, EndsInnermostFirst
<1>12. StaleOutside'
  <2> SUFFICES ASSUME NEW k \in 1..m, NEW t, t = SpanOf(frames'[k]),
                      Session(k)', t # 0, ~IsOpen(t)',
                      NEW j \in 1..(k - 1), NEW x, x = SpanOf(frames'[j]), x # 0
               PROVE  owner'[x] # SESSION
    BY <1>2 DEF StaleOutside
  <2>1. j \in 1..m
    BY <1>2
  <2>2. /\ t = SpanOf(frames[k]) /\ x = SpanOf(frames[j]) /\ Session(k)
        /\ ~IsOpen(t)
    BY <1>2, <1>4, <2>1 DEF IsOpen
  <2> QED
    BY <1>0, <1>2, <2>2 DEF StaleOutside
<1>13. OpenUnlessRolledBack'
  <2> SUFFICES ASSUME ~rolled_back', NEW k \in 1..m, frames'[k].kind # "other",
                      NEW t, t = SpanOf(frames'[k]), t # 0
               PROVE  IsOpen(t)'
    BY <1>2 DEF OpenUnlessRolledBack
  <2>1. IsOpen(t)
    BY <1>0, <1>2, <1>4 DEF OpenUnlessRolledBack
  <2> QED
    BY <1>2, <2>1 DEF IsOpen
<1> QED
  BY <1>2, <1>6, <1>8, <1>10, <1>11, <1>12, <1>13 DEF PlInv, SpanInv

LEMMA UnwindKeeps ==
    ASSUME PlInv, Unwind
    PROVE  PlInv'
<1>0. /\ Types /\ ActiveIsOpen /\ SpansNest /\ LevelsFit /\ BlocksFit
      /\ StaleOutside /\ OpenUnlessRolledBack /\ RegistryExact /\ EndsInnermostFirst
      /\ OwnersFit
  BY DEF PlInv, ShapeInv, SpanInv
<1>1. PICK m : m = Len(frames')
  OBVIOUS
<1>2. /\ frames' \in Seq(Frame) /\ CallsFit' /\ StacksFit' /\ BlocksFit'
      /\ StagesFit'
      /\ Common(m) /\ SubsKept(m) /\ m = Len(frames')
      /\ pc = "error" /\ level' = level /\ registry' = registry
      /\ misuse' = misuse /\ rolled_back' = rolled_back
      /\ ReleaseOwners(level)
      /\ pc' = (IF level = 1 THEN "abort" ELSE "subabort")
      /\ pc' = "abort" => m = 0
      /\ pc' = "subabort" =>
           \E b \in Blocks : /\ m = b /\ frames[b].sub = level
                             /\ \A j \in Blocks : j <= b
  BY <1>1, UnwindShape
<1>3. /\ m \in Nat /\ m <= Len(frames) /\ level \in 1..MAX_LEVEL
      /\ Len(frames) \in Nat /\ level \in Nat /\ level >= 1
  <2>1. Len(frames) \in Nat
    BY <1>0, FrameFacts
  <2> QED
    BY <1>0, <1>2, <2>1, OwnerFacts DEF Common, Types
<1>4. /\ Narrows(m) /\ RegSpans'
      /\ owner' \in [Spans -> {NoSpan, SESSION} \union 1..MAX_LEVEL]
      /\ active' \in Seq(Spans)
      /\ \A t \in Spans : IsOpen(t)' <=> IsOpen(t) /\ owner[t] < level
      /\ \A t \in Spans : owner'[t] < level
      /\ \A t \in Spans : owner[t] < level => owner'[t] = owner[t]
  BY <1>2, <1>3, ReleaseNarrows
<1>5. /\ SpansDiffer' /\ SpansNest' /\ OwnersFit' /\ RegistryExact'
      /\ \A k \in 1..m : \A l \in 1..MAX_LEVEL :
           \A t : (t = SpanOf(frames'[k]) /\ t # 0 /\ HasLevel(t, l)')
                  => Fits(k, l)'
  BY <1>2, <1>4, NarrowsKeeps
<1>6. /\ \A k \in 1..m : /\ k \in 1..Len(frames)
                         /\ SpanOf(frames'[k]) = SpanOf(frames[k])
                         /\ frames'[k].kind = frames[k].kind
                         /\ Session(k)' <=> Session(k)
      /\ \A t \in Spans : /\ IsOpen(t)' => IsOpen(t) /\ owner'[t] = owner[t]
                          /\ owner'[t] <= owner[t]
                          /\ owner'[t] > 0 => owner'[t] = owner[t]
                          /\ owner'[t] = SESSION => owner[t] = SESSION
      /\ \A k \in 1..m : SpanOf(frames[k]) # 0 => SpanOf(frames[k]) \in Spans
  BY <1>0, <1>4, NarrowsFacts, FrameFacts, OwnerFacts
<1>7. \A t \in Spans : /\ owner[t] \in Int /\ owner[t] <= level
                       /\ owner'[t] \in Int
                       /\ IsOpen(t) <=> owner[t] >= 0
                       /\ owner[t] # SESSION /\ IsOpen(t) <=> owner[t] > 0
  BY <1>0, <1>4, OwnerFacts DEF LevelsFit, NoSpan, SESSION
<1>8. Types' /\ ActiveIsOpen' /\ EndsInnermostFirst'
  <2>1. pc' \in Stages
    BY <1>2 DEF Stages
  <2> QED
    BY <1>0, <1>2, <1>4, <2>1 DEF Types, Narrows, EndsInnermostFirst
<1>9. LevelsFit'
  <2>1. \A t \in Spans : owner'[t] <= level'
    BY <1>2, <1>3, <1>4, <1>7
  <2>2. \A e \in Items(registry') : e.nest_level <= level'
    BY <1>0, <1>2 DEF LevelsFit
  <2> QED
    BY <1>2, <1>5, <2>1, <2>2 DEF LevelsFit
(* What is of a level that is rolled back is of frames that are gone; the  *)
(* rest is of frames that are left.                                        *)
<1>10. ASSUME NEW k \in 1..Len(frames), NEW l \in Int, l <= level, l >= 1,
              Fits(k, l)
       PROVE  /\ l = level => k > m
              /\ l < level => k <= m /\ k \in 1..m
  <2>1. CASE level = 1
    BY <1>2, <1>3, <1>10, <2>1
  <2>2. CASE level # 1
    <3>1. m \in Blocks /\ frames[m].sub = level
      BY <1>2, <2>2
    <3>2. m < k <=> level <= l
      BY <1>10, <3>1 DEF Fits
    <3> QED
      BY <1>3, <1>10, <3>2
  <2> QED
    BY <2>1, <2>2
<1>11. \A e \in Items(registry) : /\ e.nest_level \in Int /\ e.nest_level >= 1
                                  /\ e.nest_level <= level
  <2>1. \A e \in Items(registry) : e.nest_level \in 1..MAX_LEVEL
    BY <1>0, RegistryFacts
  <2> QED
    BY <1>0, <2>1, OwnerFacts DEF LevelsFit
<1>12. SpansHeld'
  <2> SUFFICES ASSUME NEW t \in Spans, IsOpen(t)'
               PROVE  \/ \E k \in 1..m : SpanOf(frames'[k]) = t
                      \/ \E e \in Items(registry) : e.span = t /\ e.nest_level >= level
    <3>1. pc' \in {"subabort", "abort"}
      BY <1>2
    <3> QED
      BY <1>2, <3>1 DEF SpansHeld, Leaked
  <2>1. IsOpen(t) /\ owner[t] < level
    BY <1>4
  <2>2. CASE owner[t] > 0
    <3>1. PICK k \in 1..Len(frames) : SpanOf(frames[k]) = t /\ Fits(k, owner[t])
      BY <1>2, <2>2, EntryHeld
    <3>2. k \in 1..m
      BY <1>7, <1>10, <2>1, <2>2, <3>1
    <3> QED
      BY <1>6, <3>1, <3>2
  <2>3. CASE ~(owner[t] > 0)
    <3>1. owner[t] = SESSION
      BY <1>7, <2>1, <2>3
    <3>2. PICK e \in Items(registry) : e.span = t
      BY <1>0, <3>1, RegistryFacts
    <3>3. PICK k \in 1..Len(frames) : /\ SpanOf(frames[k]) = e.span
                                      /\ Fits(k, e.nest_level)
      BY <1>2, EntryHeld
    <3>4. CASE e.nest_level >= level
      BY <3>2, <3>4
    <3>5. CASE e.nest_level < level
      <4>1. k \in 1..m
        BY <1>10, <1>11, <3>3, <3>5
      <4> QED
        BY <1>6, <3>2, <3>3, <4>1
    <3> QED
      BY <1>3, <1>11, <3>4, <3>5
  <2> QED
    BY <2>2, <2>3
<1>13. AbortEndsTop'
  <2>1. ASSUME NEW s \in Spans, NEW e \in Items(registry'), owner'[s] > 0,
               Leaked(e)', NEW x, x = e.span
        PROVE  Before(s, x)'
    <3>1. owner[s] = owner'[s] /\ owner[s] > 0 /\ owner[s] < level /\ IsOpen(s)
      BY <1>4, <1>6, <1>7, <2>1
    <3>2. e \in Items(registry) /\ e.nest_level = level
      BY <1>2, <1>3, <1>11, <2>1 DEF Leaked
    <3>3. PICK k \in 1..Len(frames) : SpanOf(frames[k]) = s /\ Fits(k, owner[s])
      BY <1>2, <3>1, EntryHeld
    <3>4. k \in 1..m
      BY <1>7, <1>10, <3>1, <3>3
    <3>5. PICK h \in 1..Len(frames) : /\ SpanOf(frames[h]) = e.span
                                      /\ Fits(h, e.nest_level)
      BY <1>2, <3>2, EntryHeld
    <3>6. h > m
      BY <1>3, <1>10, <3>2, <3>5
    <3>7. /\ x \in Spans /\ x # 0 /\ owner[x] = SESSION /\ IsOpen(x)
      BY <1>0, <2>1, <3>2, RegistryFacts
    <3>8. k < h /\ s # 0
      BY <1>0, <1>3, <3>4, <3>6, OwnerFacts
    <3>9. Before(s, x)
      BY <1>0, <2>1, <3>1, <3>3, <3>5, <3>7, <3>8 DEF SpansNest
    <3>10. IsOpen(s)' /\ IsOpen(x)'
      BY <1>3, <1>4, <3>1, <3>7 DEF SESSION
    <3> QED
      BY <1>4, <3>9, <3>10 DEF Narrows
  <2>2. pc' = "subabort" => \A s \in Spans : owner'[s] < level'
    BY <1>2, <1>4
  <2>3. pc' \in {"abort", "rollback"} => \A s \in Spans : owner'[s] <= SESSION
    <3>1. pc' \in {"abort", "rollback"} => level = 1
      BY <1>2
    <3> QED
      BY <1>4, <1>7, <3>1 DEF SESSION
  <2>4. \A s \in Spans : \A e \in Items(registry') :
           owner'[s] > 0 /\ Leaked(e)' => Before(s, e.span)'
    BY <2>1
  <2> QED
    BY <2>2, <2>3, <2>4 DEF AbortEndsTop
<1>14. \A k \in 1..m : \A t : (t = SpanOf(frames[k]) /\ t # 0 /\ IsOpen(t))
                              => IsOpen(t)'
  <2> SUFFICES ASSUME NEW k \in 1..m, NEW t, t = SpanOf(frames[k]), t # 0, IsOpen(t)
               PROVE  owner[t] < level /\ t \in Spans
    BY <1>4
  <2>1. t \in Spans /\ k \in 1..Len(frames)
    BY <1>6
  <2>2. CASE owner[t] > 0
    <3>1. owner[t] \in 1..MAX_LEVEL
      BY <1>0, <1>7, <2>1, <2>2, OwnerFacts
    <3>2. HasLevel(t, owner[t])
      BY <2>2 DEF HasLevel
    <3>3. Fits(k, owner[t])
      BY <1>0, <2>1, <3>1, <3>2 DEF LevelsFit
    <3>4. owner[t] = level => k > m
      BY <1>7, <1>10, <2>1, <2>2, <3>3
    <3> QED
      BY <1>3, <1>7, <2>1, <3>4
  <2>3. CASE ~(owner[t] > 0)
    BY <1>3, <1>7, <2>1, <2>3
  <2> QED
    BY <2>2, <2>3
<1>15. StaleOutside'
  <2> SUFFICES ASSUME NEW k \in 1..m, NEW t, t = SpanOf(frames'[k]),
                      Session(k)', t # 0, ~IsOpen(t)',
                      NEW j \in 1..(k - 1), NEW x, x = SpanOf(frames'[j]), x # 0
               PROVE  owner'[x] # SESSION
    BY <1>2 DEF StaleOutside
  <2>1. j \in 1..m
    BY <1>3
  <2>2. /\ t = SpanOf(frames[k]) /\ x = SpanOf(frames[j]) /\ Session(k)
        /\ k \in 1..Len(frames) /\ x \in Spans
    BY <1>6, <2>1
  <2>3. ~IsOpen(t)
    BY <1>14, <2>2
  <2>4. owner[x] # SESSION
    BY <1>0, <1>2, <2>2, <2>3 DEF StaleOutside
  <2> QED
    BY <1>6, <2>2, <2>4
<1>16. OpenUnlessRolledBack'
  <2> SUFFICES ASSUME ~rolled_back', NEW k \in 1..m, frames'[k].kind # "other",
                      NEW t, t = SpanOf(frames'[k]), t # 0
               PROVE  IsOpen(t)'
    BY <1>2 DEF OpenUnlessRolledBack
  <2>1. t = SpanOf(frames[k]) /\ IsOpen(t)
    BY <1>0, <1>2, <1>6 DEF OpenUnlessRolledBack
  <2> QED
    BY <1>14, <2>1
<1> QED
  BY <1>2, <1>5, <1>8, <1>9, <1>12, <1>13, <1>15, <1>16
     DEF PlInv, ShapeInv, SpanInv

(* One round of the callback's loop: nothing is above the session span it  *)
(* ends, and in a block's abort no call or statement has that span.        *)
LEMMA EndLeakedKeeps ==
    ASSUME PlInv, EndLeaked
    PROVE  PlInv'
<1>0. /\ Types /\ CallsFit /\ StacksFit /\ BlocksFit /\ StagesFit /\ ActiveIsOpen
      /\ SpansHeld /\ AbortEndsTop /\ LevelsFit /\ StaleOutside
      /\ OpenUnlessRolledBack /\ RegistryExact /\ EndsInnermostFirst
  BY DEF PlInv, ShapeInv, SpanInv
<1>1. /\ pc \in {"subabort", "abort", "rollback"} /\ registry # <<>>
      /\ Last(registry).nest_level >= level /\ registry' = Front(registry)
      /\ otel_span_end(Last(registry).span)
      /\ frames' = frames /\ level' = level /\ pc' = pc
      /\ rolled_back' = rolled_back
  BY DEF EndLeaked, MoreToEnd
<1>2. PICK top : top = Last(registry)
  OBVIOUS
<1>3. PICK s : s = top.span
  OBVIOUS
<1>4. /\ top \in Items(registry) /\ Leaked(top) /\ s = top.span
      /\ Front(registry) \in Seq(RegEntry)
      /\ \A e \in Items(registry) : e # top =>
           /\ e \in Items(Front(registry))
           /\ Before(e.span, s) /\ e.span # s
      /\ \A e \in Items(Front(registry)) : e \in Items(registry) /\ e # top
      /\ otel_span_end(s)
  BY <1>0, <1>1, <1>2, <1>3, RegistryTop DEF Leaked
<1>5. s \in Spans /\ s # 0 /\ s \in Ref /\ owner[s] = SESSION /\ IsOpen(s)
  <2>1. s \in Spans /\ s # 0 /\ owner[s] = SESSION /\ IsOpen(s)
    BY <1>0, <1>4, RegistryFacts
  <2> QED
    BY <2>1 DEF Ref
<1>6. \A t : ~Before(s, t)
  <2> SUFFICES ASSUME NEW t, Before(s, t) PROVE FALSE
    OBVIOUS
  <2>1. t \in Spans /\ t # s /\ IsOpen(t) /\ ~Before(t, s)
    BY <1>0, BeforeFacts
  <2>2. CASE owner[t] = SESSION
    <3>1. PICK e \in Items(registry) : e.span = t
      BY <1>0, <2>1, <2>2, RegistryFacts
    <3>2. e # top
      BY <1>4, <2>1, <3>1
    <3> QED
      BY <1>4, <2>1, <3>1, <3>2
  <2>3. CASE owner[t] # SESSION
    <3>1. owner[t] > 0
      BY <1>0, <2>1, <2>3, OwnerFacts
    <3>2. Before(t, s)
      BY <1>0, <1>1, <1>4, <2>1, <3>1 DEF AbortEndsTop
    <3> QED
      BY <2>1, <3>2
  <2> QED
    BY <2>2, <2>3
<1>7. /\ EndSpan(s)
      /\ misuse' = misuse \union (IF s # 0 /\ ~IsOpen(s) THEN {"stale"} ELSE {})
           \union (IF s # 0 /\ IsOpen(s) /\ Above(s) # {} THEN {"lifo"} ELSE {})
  BY <1>4 DEF otel_span_end
<1>8. misuse' = misuse
  <2>1. Above(s) = {}
    BY <1>6, AboveIsBefore
  <2> QED
    BY <1>5, <1>7, <2>1
<1>9. /\ owner' \in [Spans -> {NoSpan, SESSION} \union 1..MAX_LEVEL]
      /\ \A t \in Spans : owner'[t] = IF t = s THEN NoSpan ELSE owner[t]
      /\ active' \in Seq(Spans)
      /\ ActiveIsOpen'
      /\ \A x, y : Before(x, y)' <=> Before(x, y) /\ x # s /\ y # s
  BY <1>0, <1>5, <1>6, <1>7, EndEffect
<1>10. \A t \in Spans : IsOpen(t)' <=> IsOpen(t) /\ t # s
  BY <1>9 DEF IsOpen
<1>11. PICK m : m = Len(frames)
  OBVIOUS
<1>12. /\ m \in Nat /\ m = Len(frames) /\ Len(frames') = m
       /\ CallsFit' /\ StacksFit' /\ BlocksFit' /\ Common(m) /\ SubsKept(m)
  <2>1. m \in Nat
    BY <1>0, <1>11, FrameFacts
  <2>2. /\ CallsFit' /\ StacksFit' /\ BlocksFit'
        /\ Common(Len(frames)) /\ SubsKept(Len(frames))
    BY <1>0, <1>1, FramesSame
  <2> QED
    BY <1>1, <1>11, <2>1, <2>2
<1>13. Narrows(m)
  <2>1. \A x, y : Before(x, y)' <=> Before(x, y) /\ IsOpen(x)' /\ IsOpen(y)'
    <3>1. \A x, y : Before(x, y) => /\ x \in Spans /\ y \in Spans
                                    /\ IsOpen(x) /\ IsOpen(y)
      BY <1>0, BeforeFacts
    <3> QED
      BY <1>9, <1>10, <3>1
  <2>2. \A k \in Blocks' : k \in Blocks /\ frames'[k].sub = frames[k].sub
    BY <1>12 DEF SubsKept, Blocks
  <2> QED
    BY <1>1, <1>9, <1>12, <2>1, <2>2 DEF Narrows
<1>14. /\ \A k \in 1..m : Session(k)' <=> Session(k)
       /\ \A t \in Spans : /\ owner'[t] <= owner[t]
                           /\ owner'[t] > 0 => owner'[t] = owner[t]
                           /\ owner'[t] = SESSION => owner[t] = SESSION
  BY <1>13, NarrowsFacts
<1>15. RegSpans'
  <2>1. RegSpans
    BY <1>0, RegistryParts
  <2>2. \A t \in Spans : (\E e \in Items(registry') : e.span = t)
           <=> t # s /\ \E e \in Items(registry) : e.span = t
    <3>1. \A e \in Items(Front(registry)) : e \in Items(registry) /\ e.span # s
      BY <1>4
    <3>2. \A e \in Items(registry) : e.span # s => e \in Items(Front(registry))
      BY <1>4
    <3> QED
      BY <1>1, <3>1, <3>2
  <2> QED
    BY <1>9, <2>1, <2>2 DEF RegSpans, NoSpan, SESSION
<1>16. /\ SpansDiffer' /\ SpansNest' /\ OwnersFit' /\ RegistryExact'
       /\ \A k \in 1..m : \A l \in 1..MAX_LEVEL :
            \A t : (t = SpanOf(frames'[k]) /\ t # 0 /\ HasLevel(t, l)')
                   => Fits(k, l)'
  BY <1>12, <1>13, <1>15, NarrowsKeeps
<1>17. /\ Types' /\ StagesFit' /\ EndsInnermostFirst'
  <2>1. Types'
    BY <1>0, <1>1, <1>4, <1>8, <1>9 DEF Types
  <2>2. StagesFit'
    BY <1>0, <1>1 DEF StagesFit
  <2> QED
    BY <1>0, <1>8, <2>1, <2>2 DEF EndsInnermostFirst
<1>18. LevelsFit'
  <2>1. \A t \in Spans : owner'[t] <= level'
    <3>1. /\ level \in Int /\ \A t \in Spans : owner[t] \in Int /\ owner[t] <= level
      BY <1>0, OwnerFacts DEF LevelsFit
    <3>2. \A t \in Spans : owner'[t] \in Int
      BY <1>9, <3>1 DEF NoSpan
    <3> QED
      BY <1>1, <1>14, <3>1, <3>2
  <2>2. \A e \in Items(registry') : e.nest_level <= level'
    BY <1>0, <1>1, <1>4 DEF LevelsFit
  <2> QED
    BY <1>12, <1>16, <2>1, <2>2 DEF LevelsFit
<1>19. SpansHeld'
  <2> SUFFICES ASSUME NEW t \in Spans, IsOpen(t)'
               PROVE  \/ \E k \in 1..m : SpanOf(frames[k]) = t
                      \/ /\ pc \in {"subabort", "abort"}
                         /\ \E e \in Items(Front(registry)) :
                              e.span = t /\ e.nest_level >= level
    BY <1>1, <1>12 DEF SpansHeld, Leaked
  <2>1. IsOpen(t) /\ t # s
    BY <1>10
  <2> QED
    BY <1>0, <1>4, <1>12, <2>1 DEF SpansHeld, Leaked
<1>20. AbortEndsTop'
  <2>1. ASSUME NEW x \in Spans, NEW e \in Items(registry'), owner'[x] > 0,
               Leaked(e)', NEW y, y = e.span
        PROVE  Before(x, y)'
    <3>1. owner[x] = owner'[x] /\ owner[x] > 0
      BY <1>14, <2>1
    <3>2. x # s
      BY <1>5, <3>1 DEF SESSION
    <3>3. e \in Items(registry) /\ e # top /\ Leaked(e)
      BY <1>1, <1>4, <2>1 DEF Leaked
    <3>4. Before(x, y)
      BY <1>0, <1>1, <2>1, <3>1, <3>3 DEF AbortEndsTop
    <3>5. y # s
      BY <1>4, <2>1, <3>3
    <3> QED
      BY <1>9, <3>2, <3>4, <3>5
  <2>2. \A x \in Spans : \A e \in Items(registry') :
           owner'[x] > 0 /\ Leaked(e)' => Before(x, e.span)'
    BY <2>1
  <2>3. \A t \in Spans : owner'[t] \in Int /\ owner[t] \in Int
    BY <1>0, <1>9, OwnerFacts DEF NoSpan
  <2>4. pc' = "subabort" => \A t \in Spans : owner'[t] < level'
    <3>1. level \in Int
      BY <1>0, OwnerFacts
    <3> QED
      BY <1>0, <1>1, <1>14, <2>3, <3>1 DEF AbortEndsTop
  <2>5. pc' \in {"abort", "rollback"} => \A t \in Spans : owner'[t] <= SESSION
    BY <1>0, <1>1, <1>14, <2>3 DEF AbortEndsTop, SESSION
  <2> QED
    BY <2>2, <2>4, <2>5 DEF AbortEndsTop
(* The frames left by a block's abort are of lower levels than the span.   *)
<1>21. ASSUME pc # "rollback", NEW k \in 1..m
       PROVE  SpanOf(frames[k]) # s
  <2> SUFFICES ASSUME SpanOf(frames[k]) = s PROVE FALSE
    OBVIOUS
  <2>1. /\ pc = "subabort" /\ frames # <<>> /\ Last(frames).kind = "stmt"
        /\ Last(frames).sub = level /\ level > 1
    BY <1>0, <1>1, <1>12, <1>21 DEF StagesFit
  <2>2. Last(frames) = frames[m] /\ m \in 1..Len(frames)
    BY <1>12, <1>21 DEF Last
  <2>3. m \in Blocks
    BY <1>0, <2>1, <2>2, OwnerFacts DEF Blocks
  <2>4. top.nest_level \in 1..MAX_LEVEL
    BY <1>0, <1>4, RegistryFacts
  <2>5. HasLevel(s, top.nest_level)
    BY <1>4 DEF HasLevel
  <2>6. Fits(k, top.nest_level)
    BY <1>0, <1>5, <1>12, <1>21, <2>4, <2>5 DEF LevelsFit
  <2>7. m < k <=> level <= top.nest_level
    BY <2>1, <2>2, <2>3, <2>6 DEF Fits
  <2>8. level <= top.nest_level
    BY <1>0, <1>4, <2>4, OwnerFacts DEF Leaked
  <2> QED
    BY <1>12, <2>7, <2>8
<1>22. ASSUME pc # "rollback", NEW k \in 1..m, NEW t, t = SpanOf(frames[k]), t # 0
       PROVE  t \in Spans /\ (IsOpen(t)' <=> IsOpen(t))
  <2>1. t \in Spans
    BY <1>0, <1>12, <1>22, FrameFacts, OwnerFacts
  <2>2. t # s
    BY <1>21, <1>22
  <2> QED
    BY <1>10, <2>1, <2>2
<1>23. StaleOutside'
  <2> SUFFICES ASSUME pc # "rollback", NEW k \in 1..m,
                      NEW t, t = SpanOf(frames[k]),
                      Session(k)', t # 0, ~IsOpen(t)',
                      NEW j \in 1..(k - 1), NEW x, x = SpanOf(frames[j]), x # 0
               PROVE  owner'[x] # SESSION
    BY <1>1, <1>12 DEF StaleOutside
  <2>1. Session(k) /\ ~IsOpen(t)
    BY <1>14, <1>22
  <2>2. x \in Spans
    <3>1. j \in 1..m
      BY <1>12
    <3> QED
      BY <1>22, <3>1
  <2>3. owner[x] # SESSION
    BY <1>0, <1>12, <2>1 DEF StaleOutside
  <2> QED
    BY <1>14, <2>2, <2>3
<1>24. OpenUnlessRolledBack'
  <2> SUFFICES ASSUME ~rolled_back, NEW k \in 1..m, frames[k].kind # "other",
                      NEW t, t = SpanOf(frames[k]), t # 0
               PROVE  IsOpen(t)'
    BY <1>1, <1>12 DEF OpenUnlessRolledBack
  <2>1. IsOpen(t)
    BY <1>0, <1>12 DEF OpenUnlessRolledBack
  <2>2. pc # "rollback"
    BY <1>0 DEF StagesFit
  <2> QED
    BY <1>22, <2>1, <2>2
<1> QED
  BY <1>9, <1>12, <1>16, <1>17, <1>18, <1>19, <1>20, <1>23, <1>24
     DEF PlInv, ShapeInv, SpanInv

(***************************************************************************)
(* The invariant, and the properties it implies.                           *)
(***************************************************************************)

LEMMA InitInv ==
    ASSUME Init
    PROVE  PlInv
<1>0. /\ frames = <<>> /\ level = 1 /\ registry = <<>> /\ active = <<>>
      /\ owner = [s \in Spans |-> NoSpan] /\ pc = "run" /\ misuse = {}
      /\ rolled_back = FALSE
  BY DEF Init
<1>1. /\ Len(frames) = 0 /\ Len(registry) = 0 /\ Len(active) = 0
      /\ Items(registry) = {} /\ Items(active) = {}
  BY <1>0 DEF Items
<1>2. FnIndexes = {} /\ Blocks = {}
  BY <1>1 DEF FnIndexes, Blocks
<1>3. Types
  <2>1. 1 \in 1..MAX_LEVEL
    BY PlpgsqlAssumption
  <2>2. /\ frames \in Seq(Frame) /\ registry \in Seq(RegEntry)
        /\ active \in Seq(Spans)
    BY <1>0
  <2>3. owner \in [Spans -> {NoSpan, SESSION} \union 1..MAX_LEVEL]
    BY <1>0
  <2> QED
    BY <1>0, <2>1, <2>2, <2>3 DEF Types, Stages
<1>4. CallsFit /\ StacksFit /\ BlocksFit /\ StagesFit
  <2>1. level \notin 2..level /\ 2..level = {}
    BY <1>0
  <2> QED
    BY <1>0, <1>1, <1>2, <2>1 DEF CallsFit, StacksFit, BlocksFit, StagesFit
<1>5. \A s \in Spans : /\ owner[s] = NoSpan /\ ~IsOpen(s)
                       /\ owner[s] # SESSION /\ owner[s] <= level
  BY <1>0 DEF IsOpen, NoSpan, SESSION
<1>6. ActiveIsOpen /\ SpansDiffer /\ SpansNest /\ OwnersFit /\ LevelsFit
  BY <1>1, <1>5 DEF ActiveIsOpen, SpansDiffer, SpansNest, OwnersFit, LevelsFit
<1>7. SpansHeld /\ AbortEndsTop /\ StaleOutside /\ OpenUnlessRolledBack
  BY <1>0, <1>1, <1>5
     DEF SpansHeld, AbortEndsTop, StaleOutside, OpenUnlessRolledBack
<1>8. RegistryExact /\ EndsInnermostFirst
  BY <1>0, <1>1, <1>5 DEF RegistryExact, EndsInnermostFirst
<1> QED
  BY <1>3, <1>4, <1>6, <1>7, <1>8 DEF PlInv, ShapeInv, SpanInv

LEMMA StutterKeeps ==
    ASSUME PlInv, UNCHANGED vars
    PROVE  PlInv'
<1>0. /\ Types /\ CallsFit /\ StacksFit /\ BlocksFit /\ StagesFit /\ SpansHeld
      /\ AbortEndsTop /\ StaleOutside /\ frames' = frames
      /\ UNCHANGED <<registry, owner, active, misuse>>
      /\ level' = level /\ pc' = pc /\ rolled_back' = rolled_back
  BY DEF PlInv, ShapeInv, SpanInv, vars
<1>1. CallsFit' /\ StacksFit' /\ BlocksFit'
  BY <1>0, FramesSame
<1>2. Types' /\ StagesFit'
  BY <1>0 DEF Types, StagesFit
<1>3. SpansHeld'
  BY <1>0 DEF SpansHeld, Leaked, IsOpen
<1>4. AbortEndsTop'
  <2>1. \A x, y : Before(x, y)' <=> Before(x, y)
    BY <1>0 DEF Before
  <2>2. \A s \in Spans : \A e \in Items(registry) :
           Before(s, e.span) => Before(s, e.span)'
    BY <1>0 DEF Before
  <2> QED
    BY <1>0, <2>2 DEF AbortEndsTop, Leaked
<1>5. StaleOutside'
  <2>1. CASE pc = "rollback"
    BY <1>0, <2>1 DEF StaleOutside
  <2>2. CASE pc # "rollback"
    BY <1>0, <2>2, SpansSame
  <2> QED
    BY <2>1, <2>2
<1> QED
  BY <1>0, <1>1, <1>2, <1>3, <1>4, <1>5, SpansSame DEF PlInv, ShapeInv, SpanInv

(* One step per action: those that start a span and push a frame, those    *)
(* that end one and pop it, and those of errors and transactions.          *)
LEMMA NextInv ==
    ASSUME PlInv, [Next]_vars
    PROVE  PlInv'
<1>0. ShapeInv /\ ActiveIsOpen
  BY DEF PlInv, SpanInv
<1>1. ASSUME NEW s \in Ref, NEW session, ShapeInv', Grows(s, session)
      PROVE  PlInv'
  <2>1. SpanInv'
    BY <1>1, GrowsSpans
  <2> QED
    BY <1>1, <2>1 DEF PlInv
<1>2. ASSUME NEW s, NEW session, ShapeInv', Shrinks(s, session)
      PROVE  PlInv'
  <2>1. frames' \in Seq(Frame)
    BY <1>2 DEF ShapeInv, Types
  <2>2. SpanInv'
    BY <1>2, <2>1, ShrinksSpans
  <2> QED
    BY <1>2, <2>2 DEF PlInv
<1>3. ASSUME NEW traced \in BOOLEAN, NEW nonatomic \in BOOLEAN, NEW s \in Ref,
             func_beg(traced, nonatomic, s)
      PROVE  PlInv'
  BY <1>0, <1>1, <1>3, FuncBegins
<1>4. ASSUME NEW id \in StmtIds, NEW block \in BOOLEAN, NEW s \in Ref,
             stmt_beg(id, block, s)
      PROVE  PlInv'
  BY <1>0, <1>1, <1>4, StmtBegins
<1>5. CASE stmt_end
  BY <1>2, <1>5, StmtEnds
<1>6. CASE func_end
  BY <1>2, <1>6, FuncEnds
<1>7. ASSUME NEW s \in Ref, OtherBegins(s)
      PROVE  PlInv'
  BY <1>0, <1>1, <1>7, OtherShape
<1>8. CASE OtherEnds
  BY <1>2, <1>8, OtherEndsShape
<1>9. CASE Commit
  <2>1. /\ TransactionControl /\ ReleaseOwners(1)
        /\ UNCHANGED <<frames, level, registry, misuse>>
        /\ pc' = "run" /\ rolled_back' = rolled_back
    BY <1>9 DEF Commit, TransactionControl
  <2> QED
    BY <2>1, CommitKeeps
<1>10. CASE Rollback
  <2>1. /\ TransactionControl /\ ReleaseOwners(1)
        /\ UNCHANGED <<frames, level, registry, misuse>>
        /\ pc' = "rollback" /\ rolled_back' = TRUE
    BY <1>10 DEF Rollback
  <2> QED
    BY <2>1, CommitKeeps
<1>11. CASE Raise
  BY <1>11, RaiseKeeps
<1>12. CASE Unwind
  BY <1>12, UnwindKeeps
<1>13. CASE EndLeaked
  BY <1>13, EndLeakedKeeps
<1>14. ASSUME NEW caught \in BOOLEAN, SubAborted(caught)
       PROVE  PlInv'
  BY <1>14, SubAbortedKeeps
<1>15. CASE Aborted
  BY <1>15, AbortedKeeps
<1>16. CASE RolledBack
  BY <1>16, RolledBackKeeps
<1>17. CASE UNCHANGED vars
  BY <1>17, StutterKeeps
<1> QED
  BY <1>3, <1>4, <1>5, <1>6, <1>7, <1>8, <1>9, <1>10, <1>11, <1>12, <1>13,
     <1>14, <1>15, <1>16, <1>17 DEF Next

(* What runs keeps to its spans, and both to the registry.                 *)
THEOREM PlInvariant == Spec => []PlInv
<1>1. Init => PlInv
  BY InitInv
<1>2. PlInv /\ [Next]_vars => PlInv'
  BY NextInv
<1> QED
  BY <1>1, <1>2, PTL DEF Spec

(* PL/pgSQL tracing is well typed: what stmt_end and an error find at the  *)
(* top of what runs is what they take it for, and no nesting of calls,     *)
(* blocks and errors takes the transaction level out of its bounds.        *)
THEOREM WellTyped == Spec => []TypeOK
<1>1. PlInv => TypeOK
  <2> SUFFICES ASSUME PlInv PROVE TypeOK
    OBVIOUS
  <2>0. Types /\ CallsFit
    BY DEF PlInv, ShapeInv
  <2>1. ASSUME NEW f \in Items(frames)
        PROVE  CASE f.kind = "fn" ->
                      /\ f.func_span \in Ref
                      /\ f.use_session_owner => f.nonatomic
                      /\ Items(f.stack) \subseteq Entry
                 [] f.kind = "stmt"  -> f \in StmtFrame
                 [] f.kind = "other" -> f \in OtherFrame
    <3>1. PICK k \in 1..Len(frames) : f = frames[k]
      BY DEF Items
    <3>2. /\ f.kind \in {"fn", "stmt", "other"}
          /\ f.kind = "fn" => f \in CallFrame
          /\ f.kind = "stmt" => f \in StmtFrame
          /\ f.kind = "other" => f \in OtherFrame
      BY <2>0, <3>1, FrameFacts
    <3>3. ASSUME f.kind = "fn"
          PROVE  /\ f.func_span \in Ref
                 /\ f.use_session_owner => f.nonatomic
                 /\ Items(f.stack) \subseteq Entry
      <4>1. f.func_span \in Ref /\ f.stack \in Seq(Entry)
        BY <3>2, <3>3 DEF CallFrame
      <4>2. f.use_session_owner => f.nonatomic
        BY <2>0, <3>1, <3>3 DEF CallsFit, CallFits
      <4> QED
        BY <4>1, <4>2, ItemFacts
    <3> QED
      BY <3>2, <3>3
  <2>2. /\ level \in 1..MAX_LEVEL
        /\ owner \in [Spans -> {NoSpan, SESSION} \union 1..MAX_LEVEL]
        /\ pc \in Stages /\ misuse \subseteq {"lifo", "stale"}
        /\ rolled_back \in BOOLEAN
    BY <2>0 DEF Types
  <2>3. Items(registry) \subseteq [span : Spans, nest_level : 1..MAX_LEVEL]
    BY <2>0, ItemFacts DEF Types, RegEntry
  <2>4. Items(active) \subseteq Spans
    BY <2>0, ItemFacts DEF Types
  <2> QED
    BY <2>1, <2>2, <2>3, <2>4 DEF TypeOK
<1> QED
  BY <1>1, PlInvariant, PTL

(* otel_plpgsql_session_stack is exactly the open session spans, in their  *)
(* order, in every state: also in the middle of an abort, after a handled  *)
(* error, and after COMMIT and ROLLBACK in nested calls.                   *)
THEOREM RegistryIsExact == Spec => []RegistryExact
<1>1. PlInv => RegistryExact
  BY DEF PlInv, SpanInv
<1> QED
  BY <1>1, PlInvariant, PTL

(* Whatever stmt_end, func_end and the abort callback end, a stale handle  *)
(* after a ROLLBACK too, has no open span above it on the active stack.    *)
THEOREM EndsAreLastInFirstOut == Spec => []EndsInnermostFirst
<1>1. PlInv => EndsInnermostFirst
  BY DEF PlInv, SpanInv
<1> QED
  BY <1>1, PlInvariant, PTL

(* Errors that are handled and inner COMMITs leave the spans of the calls  *)
(* and statements around them open; only a ROLLBACK ends them.             *)
THEOREM HandledErrorsEndNoOuterSpan == Spec => []RunningSpansStayOpen
<1>1. PlInv => RunningSpansStayOpen
  <2> SUFFICES ASSUME PlInv, ~rolled_back, NEW k \in 1..Len(frames)
               PROVE  /\ frames[k].kind = "fn" /\ frames[k].func_span # 0
                            => IsOpen(frames[k].func_span)
                      /\ frames[k].kind = "stmt" /\ frames[k].span # 0
                            => IsOpen(frames[k].span)
    BY DEF RunningSpansStayOpen
  <2>1. (frames[k].kind # "other" /\ SpanOf(frames[k]) # 0)
           => IsOpen(SpanOf(frames[k]))
    BY DEF PlInv, SpanInv, OpenUnlessRolledBack
  <2> QED
    BY <2>1 DEF SpanOf
<1> QED
  BY <1>1, PlInvariant, PTL

(* When the outermost call is over, by its end or by an error, no span is  *)
(* open, and the registry and the active stack are empty.                  *)
THEOREM NoSpanOutlivesTheCall == Spec => []NothingLeaks
<1>1. PlInv => NothingLeaks
  <2> SUFFICES ASSUME PlInv, frames = <<>>, pc = "run"
               PROVE  /\ registry = <<>> /\ active = <<>>
                      /\ \A s \in Spans : ~IsOpen(s)
    BY DEF NothingLeaks
  <2>0. Types /\ ActiveIsOpen /\ RegistryExact /\ SpansHeld
    BY DEF PlInv, ShapeInv, SpanInv
  <2>1. \A s \in Spans : ~IsOpen(s)
    <3>1. Len(frames) = 0
      OBVIOUS
    <3> QED
      BY <2>0, <3>1 DEF SpansHeld
  <2>2. active = <<>>
    <3>1. Items(active) = {}
      BY <2>0, <2>1 DEF ActiveIsOpen
    <3> QED
      BY <2>0, <3>1, ItemFacts DEF Types
  <2>3. registry = <<>>
    <3>1. Items(registry) = {}
      BY <2>0, <2>1, RegistryFacts
    <3> QED
      BY <2>0, <3>1, ItemFacts DEF Types
  <2> QED
    BY <2>1, <2>2, <2>3
<1> QED
  BY <1>1, PlInvariant, PTL
=============================================================================

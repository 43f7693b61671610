----------------------- MODULE StatementTracingProofs -----------------------
(***************************************************************************)
(* Proofs about the statement tracer, for any bookkeeping stack, nesting   *)
(* of hook calls and of transactions, any cursors and any contexts: the    *)
(* entries of the bookkeeping stack (StmtInv), the hooks as steps of       *)
(* RootContext (RootSteps), the open spans and the active stack            *)
(* (ActiveInv, SpanLevels), and the parallel leader's slot (Calm).         *)
(***************************************************************************)
EXTENDS StatementTracing, StackFacts

(***************************************************************************)
(* The inductive invariant.                                                *)
(***************************************************************************)

(* TypeOK, the root context left out.                                      *)
Types ==
    /\ stmt_stack \in Seq(StmtSpanEntry)
    /\ Len(stmt_stack) <= OTEL_STMT_STACK_MAX
    /\ declaring \in Portals \union {0}
    /\ leader \in Spans \union {0}
    /\ trace_all \in BOOLEAN
    /\ level \in 0..MAX_LEVEL
    /\ bases \in Seq(0..MAX_FRAMES)
    /\ failed \in BOOLEAN
    /\ frames \in Seq(Frame)
    /\ portals \in [Portals -> Portal]
    /\ owner \in [Spans -> 0..MAX_LEVEL]
    /\ active \in Seq(ActiveEntry)
    /\ disturbed \in BOOLEAN

(* Subtransactions are bracketed by the hook calls they were begun in.     *)
BasesFit ==
    /\ Len(bases) = IF level > 0 THEN level - 1 ELSE 0
    /\ Depth <= MAX_FRAMES
    /\ \A j \in 1..Len(bases) : bases[j] <= Depth
    /\ \A i, j \in 1..Len(bases) : i <= j => bases[i] <= bases[j]

(* Among the first n calls fr there are a DECLARE of a cursor and the      *)
(* start, or a run, of a portal of that name.                              *)
Cursored(fr, n) ==
    \E i, j \in 1..n :
        /\ Declares(fr[i], fr[j].name)
        /\ fr[j].kind \in {"start", "run"} /\ fr[j].name # 0

(* What an entry stands for: a call still in progress, below exactly those *)
(* subtransactions that its level says; or an open portal, never younger   *)
(* than the level says.                                                    *)
LiveEntry(e) ==
    /\ e.key > 0 =>
         /\ e.key <= Depth /\ frames[e.key].span = e.ref
         /\ e.detached => Cursored(frames, e.key - 1)
         /\ e.subxact_level <= level
         /\ \A j \in 1..Len(bases) :
              e.key <= bases[j] <=> e.subxact_level <= j
    /\ e.key < 0 =>
         /\ IsOpen(-e.key) /\ ~portals[-e.key].failed
         /\ portals[-e.key].span = e.ref
         /\ portals[-e.key].lev <= e.subxact_level
         /\ portals[-e.key].declared => e.detached
         /\ e.detached => portals[-e.key].declared \/ portals[-e.key].taken

LiveEntries ==
    \A e \in Items(stmt_stack) : IF e.orphan THEN e.key < 0 ELSE LiveEntry(e)

(* pop_stmt_span takes the topmost entry with a key: below it there are    *)
(* only those of failed cursors.                                           *)
OrphansBelow(stk) ==
    \A j, k \in 1..Len(stk) :
        j < k /\ stk[j].key = stk[k].key => stk[j].orphan

(* The innermost DECLARE among the first n calls fr names d; 0: there is   *)
(* none.                                                                   *)
IsDeclare(f) == f.kind = "util" /\ f.name # 0

IsDeclaring(fr, n, d) ==
    \/ d = 0 /\ \A k \in 1..n : ~IsDeclare(fr[k])
    \/ \E k \in 1..n : /\ IsDeclare(fr[k]) /\ fr[k].name = d
                       /\ \A j \in (k + 1)..n : ~IsDeclare(fr[j])

(* otel_declaring_cursor_name is the innermost DECLARE's, and what a call  *)
(* has saved is what it was before the call.                               *)
DeclaringChain ==
    /\ IsDeclaring(frames, Depth, declaring)
    /\ \A k \in 1..Depth :
         frames[k].kind = "util" =>
            IsDeclaring(frames, k - 1, frames[k].saved)

(* Only queries and the client's own command have spans.                   *)
PlainFrames ==
    \A k \in 1..Depth :
        \/ frames[k].kind \in {"start", "run"}
        \/ frames[k].kind = "util" /\ ~frames[k].toplevel
        => frames[k].span = 0

StmtInv ==
    /\ Types
    /\ BasesFit
    /\ LiveEntries
    /\ OrphansBelow(stmt_stack)
    /\ RunningStatementsKeepEntry
    /\ DeclaringChain
    /\ PlainFrames

(***************************************************************************)
(* Lemmas about the bookkeeping stack.                                     *)
(***************************************************************************)

(* t is what is left of s when entries are taken out.                      *)
Thins(t, s) ==
    /\ t \in Seq(StmtSpanEntry) /\ Len(t) <= Len(s)
    /\ Items(t) \subseteq Items(s)
    /\ \A j, k \in 1..Len(t) : j < k =>
         \E a, b \in 1..Len(s) : a < b /\ s[a] = t[j] /\ s[b] = t[k]

LEMMA ThinnedOrphans ==
    ASSUME NEW s, NEW t, Thins(t, s), OrphansBelow(s)
    PROVE  OrphansBelow(t)
<1> SUFFICES ASSUME NEW j \in 1..Len(t), NEW k \in 1..Len(t), j < k,
                    t[j].key = t[k].key
             PROVE  t[j].orphan
  BY DEF OrphansBelow
<1>1. PICK a, b \in 1..Len(s) : a < b /\ s[a] = t[j] /\ s[b] = t[k]
  BY DEF Thins
<1>2. s[a].orphan
  BY <1>1 DEF OrphansBelow
<1> QED
  BY <1>1, <1>2

LEMMA KeyFacts ==
    ASSUME NEW k \in Key
    PROVE  /\ k \in Int /\ k # 0
           /\ k > 0 => k \in 1..MAX_FRAMES
           /\ k < 0 => -k \in Portals /\ -k # 0
  BY TracingAssumption DEF Key

LEMMA EntryFields ==
    ASSUME NEW e \in StmtSpanEntry
    PROVE  /\ e.key \in Key /\ e.ref \in Spans
           /\ e.subxact_level \in 0..MAX_LEVEL
           /\ e.detached \in BOOLEAN /\ e.orphan \in BOOLEAN
  BY DEF StmtSpanEntry

(* Of finitely many positions, not none, there is a last one.              *)
LEMMA GreatestPosition ==
    ASSUME NEW n \in Nat, NEW F \in SUBSET (1..n), F # {}
    PROVE  \E k \in F : \A j \in F : j <= k
<1> DEFINE T == {n - k : k \in F}
<1>1. T \in SUBSET Nat /\ T # {}
  <2>1. \A k \in F : k \in 1..n
    OBVIOUS
  <2>2. \A k \in F : n - k \in Nat
    BY <2>1
  <2> QED
    BY <2>2
<1>2. PICK m \in T : \A i \in T : m <= i
  BY <1>1, LeastNat
<1>3. PICK k \in F : m = n - k
  BY <1>2
<1>4. \A j \in F : n - j \in T
  OBVIOUS
<1> QED
  BY <1>2, <1>3, <1>4, SMTT(30)

LEMMA FoundAtFacts ==
    ASSUME NEW stk \in Seq(StmtSpanEntry), NEW key, Found(stk, key) # {}
    PROVE  /\ FoundAt(stk, key) \in 1..Len(stk)
           /\ stk[FoundAt(stk, key)].key = key
           /\ \A j \in 1..Len(stk) :
                stk[j].key = key => j <= FoundAt(stk, key)
<1>1. Found(stk, key) \in SUBSET (1..Len(stk)) /\ Len(stk) \in Nat
  BY DEF Found
<1>2. \E k \in Found(stk, key) : \A j \in Found(stk, key) : j <= k
  BY <1>1, GreatestPosition
<1>3. /\ FoundAt(stk, key) \in Found(stk, key)
      /\ \A j \in Found(stk, key) : j <= FoundAt(stk, key)
  BY <1>2 DEF FoundAt
<1> QED
  BY <1>3 DEF Found

(* Taking out one element leaves the others in their order.                *)
LEMMA RemoveThins ==
    ASSUME NEW s \in Seq(StmtSpanEntry), NEW n \in 1..Len(s)
    PROVE  /\ Thins(Remove(s, n), s)
           /\ \A i \in 1..Len(s) : i # n => s[i] \in Items(Remove(s, n))
           /\ \A k \in 1..Len(Remove(s, n)) :
                \E i \in 1..Len(s) : i # n /\ s[i] = Remove(s, n)[k]
<1> DEFINE t == Remove(s, n)
<1>1. t \in Seq(StmtSpanEntry) /\ Len(t) = Len(s) - 1 /\ Len(s) \in Nat
      /\ Items(t) \subseteq Items(s)
  BY RemoveFacts
<1>2. \A k \in 1..(Len(s) - 1) : t[k] = IF k < n THEN s[k] ELSE s[k + 1]
  BY DEF Remove
<1> HIDE DEF t
<1> DEFINE at(k) == IF k < n THEN k ELSE k + 1
<1>3. \A k \in 1..Len(t) : at(k) \in 1..Len(s) /\ at(k) # n /\ s[at(k)] = t[k]
  BY <1>1, <1>2
<1>4. \A j, k \in 1..Len(t) : j < k => at(j) < at(k)
  BY <1>1
<1>5. ASSUME NEW i \in 1..Len(s), i # n
      PROVE  s[i] \in Items(t)
  <2>1. CASE i < n
    BY <1>1, <1>2, <2>1 DEF Items
  <2>2. CASE i > n
    <3>1. i - 1 \in 1..Len(t) /\ t[i - 1] = s[i]
      BY <1>1, <1>2, <2>2
    <3> QED
      BY <3>1 DEF Items
  <2> QED
    BY <1>5, <2>1, <2>2
<1> HIDE DEF at
<1>6. Thins(t, s)
  BY <1>1, <1>3, <1>4, SMTT(30) DEF Thins
<1> QED
  BY <1>3, <1>5, <1>6 DEF t

(* pop_stmt_span takes out one entry with the key at most, and leaves none *)
(* but orphans' with it.                                                   *)
LEMMA PoppedFacts ==
    ASSUME NEW s \in Seq(StmtSpanEntry), OrphansBelow(s), NEW key
    PROVE  /\ Thins(Popped(s, key), s)
           /\ OrphansBelow(Popped(s, key))
           /\ \A e \in Items(s) : e.key # key => e \in Items(Popped(s, key))
           /\ \A e \in Items(Popped(s, key)) : e.key = key => e.orphan
           /\ PoppedRef(s, key) \in Spans \union {0}
<1>1. CASE Found(s, key) = {}
  <2>1. Popped(s, key) = s /\ PoppedRef(s, key) = 0
    BY <1>1 DEF Popped, PoppedRef
  <2>2. Thins(s, s)
    BY DEF Thins
  <2>3. \A e \in Items(s) : e.key # key
    BY <1>1 DEF Found, Items
  <2> QED
    BY <2>1, <2>2, <2>3
<1>2. CASE Found(s, key) # {}
  <2> DEFINE n == FoundAt(s, key)
  <2>1. /\ n \in 1..Len(s) /\ s[n].key = key
        /\ \A j \in 1..Len(s) : s[j].key = key => j <= n
    BY <1>2, FoundAtFacts
  <2>2. Popped(s, key) = Remove(s, n) /\ PoppedRef(s, key) = s[n].ref
    BY <1>2 DEF Popped, PoppedRef
  <2> HIDE DEF n
  <2>3. /\ Thins(Remove(s, n), s)
        /\ \A i \in 1..Len(s) : i # n => s[i] \in Items(Remove(s, n))
        /\ \A k \in 1..Len(Remove(s, n)) :
             \E i \in 1..Len(s) : i # n /\ s[i] = Remove(s, n)[k]
    BY <2>1, RemoveThins
  <2>4. OrphansBelow(Remove(s, n))
    BY <2>3, ThinnedOrphans
  <2>5. ASSUME NEW e \in Items(s), e.key # key
        PROVE  e \in Items(Remove(s, n))
    BY <2>1, <2>3, <2>5 DEF Items
  <2>6. ASSUME NEW e \in Items(Remove(s, n)), e.key = key
        PROVE  e.orphan
    <3>1. PICK i \in 1..Len(s) : i # n /\ s[i] = e
      BY <2>3 DEF Items
    <3>2. i < n
      BY <2>1, <2>6, <3>1
    <3> QED
      BY <2>1, <2>6, <3>1, <3>2 DEF OrphansBelow
  <2>7. s[n].ref \in Spans
    BY <2>1, EntryFields
  <2> QED
    BY <2>2, <2>3, <2>4, <2>5, <2>6, <2>7
<1> QED
  BY <1>1, <1>2

LEMMA KeptThins ==
    ASSUME NEW s \in Seq(StmtSpanEntry), NEW S
    PROVE  /\ Thins(Keep(s, S), s)
           /\ Items(Keep(s, S)) = Items(s) \intersect S
<1> DEFINE t == Keep(s, S)
<1>1. t \in Seq(StmtSpanEntry) /\ Len(t) <= Len(s)
      /\ Items(t) = Items(s) \intersect S
  BY KeepItems
<1>2. PICK at : Picks(at, Len(s), s, S, t)
  BY KeepPicks
<1> HIDE DEF t
<1>3. Thins(t, s)
  <2> SUFFICES ASSUME NEW j \in 1..Len(t), NEW k \in 1..Len(t), j < k
               PROVE  \E a, b \in 1..Len(s) :
                        a < b /\ s[a] = t[j] /\ s[b] = t[k]
    BY <1>1 DEF Thins
  <2>1. /\ at[j] \in 1..Len(s) /\ s[at[j]] = t[j]
        /\ at[k] \in 1..Len(s) /\ s[at[k]] = t[k]
        /\ at[j] < at[k]
    BY <1>2 DEF Picks
  <2> QED
    BY <2>1
<1> QED
  BY <1>1, <1>3 DEF t

(* An entry pushed with a key nobody but orphans has.                      *)
LEMMA PushedOrphans ==
    ASSUME NEW s \in Seq(StmtSpanEntry), OrphansBelow(s),
           NEW x \in StmtSpanEntry,
           \A e \in Items(s) : e.key = x.key => e.orphan
    PROVE  OrphansBelow(Append(s, x))
<1>1. /\ Len(Append(s, x)) = Len(s) + 1 /\ Len(s) \in Nat
      /\ \A k \in 1..Len(s) : Append(s, x)[k] = s[k]
      /\ Append(s, x)[Len(s) + 1] = x
  BY PushFacts
<1>2. SUFFICES ASSUME NEW j \in 1..(Len(s) + 1), NEW k \in 1..(Len(s) + 1),
                      j < k, Append(s, x)[j].key = Append(s, x)[k].key
               PROVE  Append(s, x)[j].orphan
  BY <1>1 DEF OrphansBelow
<1>3. j \in 1..Len(s) /\ Append(s, x)[j] = s[j] /\ s[j] \in Items(s)
  BY <1>1, <1>2 DEF Items
<1>4. CASE k = Len(s) + 1
  BY <1>1, <1>2, <1>3, <1>4
<1>5. CASE k \in 1..Len(s)
  BY <1>1, <1>2, <1>3, <1>5 DEF OrphansBelow
<1> QED
  BY <1>1, <1>4, <1>5

(***************************************************************************)
(* Lemmas about otel_api and the hooks' shared steps.                      *)
(***************************************************************************)

LEMMA CutType ==
    ASSUME NEW act \in Seq(ActiveEntry), NEW s
    PROVE  Cut(act, s) \in Seq(ActiveEntry)
<1>1. CASE PosIn(act, s) = {}
  BY <1>1 DEF Cut
<1>2. CASE PosIn(act, s) # {}
  <2> DEFINE n == CHOOSE k \in PosIn(act, s) : TRUE
  <2>1. n \in 1..Len(act)
    BY <1>2 DEF PosIn
  <2>2. Cut(act, s) = Prefix(act, n - 1)
    BY <1>2 DEF Cut
  <2> HIDE DEF n
  <2>3. n - 1 \in 0..Len(act)
    BY <2>1
  <2> QED
    BY <2>2, <2>3, PrefixFacts
<1> QED
  BY <1>1, <1>2

(* Ending spans closes them and opens none.                                *)
LEMMA EndSpansFacts ==
    ASSUME NEW own \in [Spans -> 0..MAX_LEVEL], NEW S
    PROVE  /\ EndSpans(own, S) \in [Spans -> 0..MAX_LEVEL]
           /\ \A s \in Spans : /\ EndSpans(own, S)[s] \in {0, own[s]}
                               /\ s \in S => EndSpans(own, S)[s] = 0
                               /\ s \notin S => EndSpans(own, S)[s] = own[s]
  BY TracingAssumption DEF EndSpans

(* pop_stmt_span and finalize_stmt_span.                                   *)
LEMMA PopEffect ==
    ASSUME Types, OrphansBelow(stmt_stack), NEW key, NEW held,
           PopAndFinalize(key, held)
    PROVE  /\ stmt_stack' = Popped(stmt_stack, key)
           /\ stmt_stack' \in Seq(StmtSpanEntry)
           /\ Len(stmt_stack') <= OTEL_STMT_STACK_MAX
           /\ leader' \in Spans \union {0}
           /\ owner' \in [Spans -> 0..MAX_LEVEL]
           /\ \A s \in Spans : owner'[s] \in {0, owner[s]}
           /\ active' \in Seq(ActiveEntry)
<1> DEFINE s   == PoppedRef(stmt_stack, key)
           stk == Popped(stmt_stack, key)
           own == IF s # 0 /\ owner[s] > 0
                  THEN EndSpans(owner, {s} \union Above(active, s)) ELSE owner
           act == IF s # 0 /\ owner[s] > 0 THEN Cut(active, s) ELSE active
<1>1. /\ stmt_stack' = stk
      /\ owner' = EndSpans(own, {held})
      /\ active' = Keep(act, {e \in Items(act) : e.span # held})
      /\ leader' = IF s = 0 THEN leader ELSE RestoredLeader(stk, own)
  BY DEF PopAndFinalize
<1>2. Thins(stk, stmt_stack)
  BY PoppedFacts DEF Types
<1>3. /\ own \in [Spans -> 0..MAX_LEVEL]
      /\ \A t \in Spans : own[t] \in {0, owner[t]}
  BY EndSpansFacts DEF Types
<1>4. act \in Seq(ActiveEntry)
  BY CutType DEF Types
<1> HIDE DEF s, stk, own, act
<1>5. /\ owner' \in [Spans -> 0..MAX_LEVEL]
      /\ \A t \in Spans : owner'[t] \in {0, owner[t]}
  BY <1>1, <1>3, EndSpansFacts
<1>6. active' \in Seq(ActiveEntry)
  BY <1>1, <1>4, KeepItems
<1>7. stk \in Seq(StmtSpanEntry) /\ Len(stk) <= OTEL_STMT_STACK_MAX
  <2>1. Len(stk) \in Nat /\ Len(stmt_stack) \in Nat
    BY <1>2 DEF Thins, Types
  <2> QED
    BY <1>2, <2>1, TracingAssumption DEF Thins, Types
<1>8. RestoredLeader(stk, own) \in Spans \union {0}
  <2>1. stk # <<>> => Last(stk) \in StmtSpanEntry
    BY <1>7, PopFacts
  <2>2. stk # <<>> => Last(stk).ref \in Spans
    BY <2>1, EntryFields
  <2> QED
    BY <2>2 DEF RestoredLeader, Types
<1> QED
  BY <1>1, <1>5, <1>6, <1>7, <1>8 DEF stk, Types

(* What an id nothing refers to is different from.                         *)
LEMMA UnusedFacts ==
    ASSUME Types, NEW s \in Unused
    PROVE  /\ s \in Spans /\ s # 0 /\ owner[s] = 0
           /\ \A e \in Items(stmt_stack) : e.ref # s
           /\ \A k \in 1..Depth : frames[k].span # s /\ frames[k].act # s
           /\ \A p \in Portals : portals[p].span # s
           /\ leader # s
<1>1. s \in Spans /\ ~(owner[s] > 0)
  BY DEF Unused
<1>2. owner[s] \in 0..MAX_LEVEL
  BY <1>1 DEF Types
<1>3. owner[s] = 0 /\ s # 0
  BY <1>1, <1>2, TracingAssumption
<1> QED
  BY <1>1, <1>3 DEF Unused, Items, Depth

Entry(key, s, detached) ==
    [key |-> key, ref |-> s, subxact_level |-> level,
     detached |-> detached, orphan |-> FALSE]

(* start_stmt_span and push_stmt_span: nothing that is kept, or one entry  *)
(* and its open span.                                                      *)
LEMMA StartEffect ==
    ASSUME Types, level > 0, NEW key \in Key, NEW c, NEW s \in Startable,
           NEW detached \in BOOLEAN, StartAndPush(key, c, s, detached)
    PROVE  /\ s \in Spans \union {0}
           /\ leader' \in Spans \union {0}
           /\ stmt_stack' \in Seq(StmtSpanEntry)
           /\ Len(stmt_stack') <= OTEL_STMT_STACK_MAX
           /\ owner' \in [Spans -> 0..MAX_LEVEL]
           /\ active' \in Seq(ActiveEntry)
           /\ s # 0 => s \in Unused
           /\ \/ /\ s = 0 \/ StackFull
                 /\ UNCHANGED <<stmt_stack, owner, active>>
              \/ /\ s # 0
                 /\ Entry(key, s, detached) \in StmtSpanEntry
                 /\ stmt_stack' = Append(stmt_stack, Entry(key, s, detached))
                 /\ \A t \in Spans : owner'[t] = IF t = s THEN level ELSE owner[t]
<1>1. s \in Spans \union {0} /\ (s # 0 => s \in Unused)
  BY DEF Startable, Unused
<1>2. leader' \in Spans \union {0}
  BY <1>1 DEF StartAndPush, Types
<1>4. CASE s = 0 \/ StackFull
  <2>1. UNCHANGED <<stmt_stack, owner, active>>
    BY <1>4 DEF StartAndPush
  <2> QED
    BY <1>1, <1>2, <1>4, <2>1 DEF Types
<1>5. CASE ~(s = 0 \/ StackFull)
  <2>1. /\ stmt_stack' = Append(stmt_stack, Entry(key, s, detached))
        /\ owner' = [owner EXCEPT ![s] = level]
        /\ active' = IF detached THEN active
                     ELSE Append(active, [span |-> s, lev |-> level,
                                          is_activation |-> FALSE])
    BY <1>5 DEF StartAndPush, Entry
  <2>2. s \in Spans /\ level \in 0..MAX_LEVEL
    BY <1>1, <1>5 DEF Types
  <2>3. Entry(key, s, detached) \in StmtSpanEntry
    BY <2>2 DEF Entry, StmtSpanEntry
  <2>4. stmt_stack' \in Seq(StmtSpanEntry)
        /\ Len(stmt_stack') = Len(stmt_stack) + 1
    BY <2>1, <2>3, PushFacts DEF Types
  <2>5. Len(stmt_stack) < OTEL_STMT_STACK_MAX /\ Len(stmt_stack) \in Nat
    BY <1>5, TracingAssumption DEF StackFull, Types
  <2>6. Len(stmt_stack') <= OTEL_STMT_STACK_MAX
    BY <2>4, <2>5, TracingAssumption
  <2>7. /\ owner' \in [Spans -> 0..MAX_LEVEL]
        /\ \A t \in Spans : owner'[t] = IF t = s THEN level ELSE owner[t]
    BY <2>1, <2>2 DEF Types
  <2>8. [span |-> s, lev |-> level, is_activation |-> FALSE] \in ActiveEntry
    BY <2>2 DEF ActiveEntry
  <2>9. active' \in Seq(ActiveEntry)
    BY <2>1, <2>8, PushFacts DEF Types
  <2> QED
    BY <1>1, <1>2, <1>5, <2>1, <2>3, <2>4, <2>6, <2>7, <2>9
<1> QED
  BY <1>4, <1>5

(* A hook call begins.                                                     *)
LEMMA PushedFrame ==
    ASSUME Types, NEW f \in Frame, frames' = Append(frames, f)
    PROVE  /\ frames' \in Seq(Frame)
           /\ Depth' = Depth + 1 /\ Depth \in Nat
           /\ \A k \in 1..Depth : frames'[k] = frames[k]
           /\ frames'[Depth + 1] = f
  BY PushFacts DEF Types, Depth

(* A hook call returns.                                                    *)
LEMMA PoppedFrame ==
    ASSUME Types, Depth > 0, frames' = Front(frames)
    PROVE  /\ frames' \in Seq(Frame)
           /\ Depth' = Depth - 1 /\ Depth \in Nat \ {0}
           /\ \A k \in 1..(Depth - 1) : frames'[k] = frames[k]
           /\ Last(frames) = frames[Depth] /\ Last(frames) \in Frame
<1>1. frames # <<>>
  BY DEF Depth, Types
<1> QED
  BY <1>1, PopFacts DEF Types, Depth, Last

LEMMA FrameFields ==
    ASSUME Types, NEW k \in 1..Depth
    PROVE  /\ frames[k] \in Frame
           /\ frames[k].kind \in {"exec", "util", "start", "run"}
           /\ frames[k].span \in Spans \union {0}
           /\ frames[k].toplevel \in BOOLEAN
           /\ frames[k].name \in Portals \union {0}
           /\ frames[k].saved \in Portals \union {0}
           /\ frames[k].act \in Spans \union {0}
<1>1. frames[k] \in Frame
  BY DEF Types, Depth
<1> QED
  BY <1>1 DEF Frame

LEMMA PortalFields ==
    ASSUME Types, NEW p \in Portals
    PROVE  /\ portals[p] \in Portal
           /\ portals[p].lev \in 0..MAX_LEVEL
           /\ portals[p].span \in Spans \union {0}
           /\ portals[p].declared \in BOOLEAN
           /\ portals[p].taken \in BOOLEAN
           /\ portals[p].failed \in BOOLEAN
  BY DEF Types, Portal

(* The frame below which the innermost subtransaction was begun.           *)
Base == IF level > 1 THEN Last(bases) ELSE 0

LEMMA BaseFacts ==
    ASSUME Types, BasesFit
    PROVE  /\ Base \in 0..Depth
           /\ \A j \in 1..Len(bases) : bases[j] \in Nat /\ bases[j] <= Base
           /\ level > 1 => /\ Len(bases) = level - 1
                           /\ level - 1 \in 1..Len(bases)
                           /\ Base = bases[level - 1]
<1>1. /\ Depth \in Nat /\ Len(bases) \in Nat /\ level \in Nat
      /\ \A j \in 1..Len(bases) : bases[j] \in Nat
  BY TracingAssumption, SMTT(30) DEF Types, Depth
<1>2. CASE level > 1
  <2>1. Len(bases) = level - 1 /\ Base = bases[level - 1]
    BY <1>1, <1>2 DEF BasesFit, Base, Last
  <2> QED
    BY <1>1, <1>2, <2>1 DEF BasesFit
<1>3. CASE ~(level > 1)
  BY <1>1, <1>3 DEF BasesFit, Base
<1> QED
  BY <1>2, <1>3

(***************************************************************************)
(* Lemmas about aborts.                                                    *)
(***************************************************************************)

(* What an abort of lev leaves is what was there.                          *)
LEMMA AbortEffect ==
    ASSUME Types, NEW lev \in Nat, NEW own \in [Spans -> 0..MAX_LEVEL],
           NEW act \in Seq(ActiveEntry), NEW F, Aborted(lev, own, act, F)
    PROVE  /\ owner' \in [Spans -> 0..MAX_LEVEL]
           /\ \A s \in Spans : owner'[s] = IF own[s] >= lev THEN 0 ELSE own[s]
           /\ active' \in Seq(ActiveEntry)
           /\ portals' \in [Portals -> Portal]
           /\ \A p \in Portals :
                portals'[p] = IF portals[p].lev >= lev THEN NoPortal
                              ELSE [portals[p] EXCEPT !.failed = @ \/ p \in F]
<1>1. /\ owner' = [s \in Spans |-> IF own[s] >= lev THEN 0 ELSE own[s]]
      /\ \E S : active' = Keep(act, S)
      /\ portals' = [p \in Portals |->
                       IF portals[p].lev >= lev THEN NoPortal
                       ELSE [portals[p] EXCEPT !.failed = @ \/ p \in F]]
  BY DEF Aborted
<1>2. /\ owner' \in [Spans -> 0..MAX_LEVEL]
      /\ \A s \in Spans : owner'[s] = IF own[s] >= lev THEN 0 ELSE own[s]
  BY <1>1, TracingAssumption
<1>3. active' \in Seq(ActiveEntry)
  BY <1>1, KeepItems
<1>4. NoPortal \in Portal
  BY TracingAssumption DEF NoPortal, Portal
<1>5. ASSUME NEW p \in Portals
      PROVE  [portals[p] EXCEPT !.failed = @ \/ p \in F] \in Portal
  <2>1. portals[p] \in Portal
    BY DEF Types
  <2>2. (portals[p].failed \/ p \in F) \in BOOLEAN
    OBVIOUS
  <2> QED
    BY <2>1, <2>2 DEF Portal
<1>6. \A p \in Portals :
         portals'[p] = IF portals[p].lev >= lev THEN NoPortal
                       ELSE [portals[p] EXCEPT !.failed = @ \/ p \in F]
  BY <1>1
<1>7. portals' \in [Portals -> Portal]
  <2>1. \A p \in Portals :
          (IF portals[p].lev >= lev THEN NoPortal
           ELSE [portals[p] EXCEPT !.failed = @ \/ p \in F]) \in Portal
    BY <1>4, <1>5
  <2> QED
    BY <1>1, <2>1
<1> QED
  BY <1>2, <1>3, <1>6, <1>7

(* What Error leaves of the bookkeeping stack, F being the portals that    *)
(* fail: of the entries, those below its level, and not the entry of the   *)
(* client's own utility command if the error reaches that.                 *)
Orphaned(e, F) == [e EXCEPT !.orphan = @ \/ \E p \in F : e.key = -p]

Survivors(kept, F) == [k \in DOMAIN kept |-> Orphaned(kept[k], F)]

ErrorLeaves(kept, F) ==
    /\ F = {frames[k].name : k \in Unwound(Base, "run")}
    /\ Thins(kept, stmt_stack)
    /\ \A e \in Items(kept) : level > 1 /\ e.subxact_level < level
    /\ \A e \in Items(stmt_stack) :
         /\ Base > 0 \/ e.key # 1
         /\ level > 1 /\ e.subxact_level < level
         => e \in Items(kept)
    /\ stmt_stack' = Survivors(kept, F)
    /\ \A p \in Portals :
         portals'[p] = IF portals[p].lev >= level THEN NoPortal
                       ELSE [portals[p] EXCEPT !.failed = @ \/ p \in F]

LEMMA ErrorEffect ==
    ASSUME Types, BasesFit, OrphansBelow(stmt_stack), Error
    PROVE  /\ \E kept, F : ErrorLeaves(kept, F)
           /\ owner' \in [Spans -> 0..MAX_LEVEL]
           /\ \A s \in Spans : owner'[s] \in {0, owner[s]}
           /\ active' \in Seq(ActiveEntry)
           /\ portals' \in [Portals -> Portal]
<1> DEFINE acts == {a \in {frames[k].act : k \in (Base + 1)..Depth} :
                     PosIn(active, a) # {}}
           low  == {a \in acts : \A b \in acts :
                      \A i \in PosIn(active, a), j \in PosIn(active, b) : i <= j}
           ends == UNION {Above(active, a) : a \in low}
           act  == IF low = {} THEN active
                   ELSE Cut(active, CHOOSE a \in low : TRUE)
           stk  == IF Base = 0 /\ Depth > 0 /\ frames[1].toplevel
                   THEN Popped(stmt_stack, 1) ELSE stmt_stack
           kept == KeptEntries(stk, level)
           F    == {frames[k].name : k \in Unwound(Base, "run")}
           lost == {portals[p].span : p \in F} \ {0}
           own  == EndSpans(owner, ends)
           own2 == [s \in Spans |-> IF s \in lost THEN level ELSE own[s]]
<1>1. /\ level > 0
      /\ stmt_stack' = [k \in DOMAIN kept |-> [kept[k] EXCEPT
                        !.orphan = @ \/ (\E p \in F : kept[k].key = -p)]]
      /\ Aborted(level, own2, act, F)
  BY DEF Error, Base
<1>2. stmt_stack' = Survivors(kept, F)
  BY <1>1 DEF Survivors, Orphaned
<1>3. /\ own \in [Spans -> 0..MAX_LEVEL]
      /\ \A s \in Spans : own[s] \in {0, owner[s]}
  BY EndSpansFacts DEF Types
<1>4. act \in Seq(ActiveEntry)
  BY CutType DEF Types
<1>5. /\ Thins(stk, stmt_stack)
      /\ \A e \in Items(stmt_stack) :
           Base > 0 \/ e.key # 1 => e \in Items(stk)
  <2>1. CASE Base = 0 /\ Depth > 0 /\ frames[1].toplevel
    BY <2>1, PoppedFacts DEF Types
  <2>2. CASE ~(Base = 0 /\ Depth > 0 /\ frames[1].toplevel)
    BY <2>2 DEF Thins, Types
  <2> QED
    BY <2>1, <2>2
<1> HIDE DEF act, own, stk
<1>6. /\ Thins(kept, stk)
      /\ Items(kept) = {e \in Items(stk) : level > 1 /\ e.subxact_level < level}
  <2> DEFINE S == {e \in Items(stk) : level > 1 /\ e.subxact_level < level}
  <2>1. stk \in Seq(StmtSpanEntry) /\ kept = Keep(stk, S)
    BY <1>5 DEF Thins, KeptEntries
  <2>2. Items(stk) \intersect S = S
    OBVIOUS
  <2> HIDE DEF S
  <2>3. Thins(Keep(stk, S), stk) /\ Items(Keep(stk, S)) = Items(stk) \intersect S
    BY <2>1, KeptThins
  <2> QED
    BY <2>1, <2>2, <2>3 DEF S
<1>7. Thins(kept, stmt_stack)
  <2>1. Len(kept) \in Nat /\ Len(stk) \in Nat /\ Len(stmt_stack) \in Nat
    BY <1>5, <1>6 DEF Thins, Types
  <2>2. Len(kept) <= Len(stmt_stack)
    BY <1>5, <1>6, <2>1 DEF Thins
  <2> QED
    BY <1>5, <1>6, <2>2 DEF Thins
<1>8. /\ own2 \in [Spans -> 0..MAX_LEVEL]
      /\ \A s \in Spans : own2[s] = IF s \in lost THEN level ELSE own[s]
  BY <1>3 DEF Types
<1> HIDE DEF kept, F, lost, own2
<1>9. level \in Nat /\ level > 0
  BY <1>1, TracingAssumption DEF Types
<1>10. /\ owner' \in [Spans -> 0..MAX_LEVEL]
       /\ \A s \in Spans : owner'[s] = IF own2[s] >= level THEN 0 ELSE own2[s]
       /\ active' \in Seq(ActiveEntry)
       /\ portals' \in [Portals -> Portal]
       /\ \A p \in Portals :
            portals'[p] = IF portals[p].lev >= level THEN NoPortal
                          ELSE [portals[p] EXCEPT !.failed = @ \/ p \in F]
  BY <1>1, <1>4, <1>8, <1>9, AbortEffect
<1>11. ASSUME NEW s \in Spans
       PROVE  owner'[s] \in {0, owner[s]}
  <2>1. own2[s] = level \/ own2[s] \in {0, owner[s]}
    BY <1>3, <1>8
  <2>2. owner'[s] = IF own2[s] >= level THEN 0 ELSE own2[s]
    BY <1>10
  <2> QED
    BY <1>9, <2>1, <2>2
<1>12. ErrorLeaves(kept, F)
  <2>1. F = {frames[k].name : k \in Unwound(Base, "run")}
    BY DEF F
  <2> QED
    BY <1>2, <1>5, <1>6, <1>7, <1>10, <2>1 DEF ErrorLeaves
<1> QED
  BY <1>10, <1>11, <1>12

(* Becoming an orphan changes nothing else in an entry.                    *)
LEMMA SurvivorFacts ==
    ASSUME NEW kept \in Seq(StmtSpanEntry), NEW F
    PROVE  /\ Survivors(kept, F) \in Seq(StmtSpanEntry)
           /\ Len(Survivors(kept, F)) = Len(kept)
           /\ \A k \in 1..Len(kept) :
                LET e == Survivors(kept, F)[k]
                IN /\ e.key = kept[k].key /\ e.ref = kept[k].ref
                   /\ e.subxact_level = kept[k].subxact_level
                   /\ e.detached = kept[k].detached
                   /\ e.orphan = (kept[k].orphan \/ \E p \in F : kept[k].key = -p)
<1> DEFINE Named(k) == \E p \in F : kept[k].key = -p
<1>1. ASSUME NEW k \in 1..Len(kept)
      PROVE  LET e == Orphaned(kept[k], F)
             IN /\ e \in StmtSpanEntry
                /\ e.key = kept[k].key /\ e.ref = kept[k].ref
                /\ e.subxact_level = kept[k].subxact_level
                /\ e.detached = kept[k].detached
                /\ e.orphan = (kept[k].orphan \/ Named(k))
  <2>1. kept[k] \in StmtSpanEntry
    OBVIOUS
  <2>2. Orphaned(kept[k], F) = [kept[k] EXCEPT !.orphan = @ \/ Named(k)]
    BY DEF Orphaned
  <2> HIDE DEF Named
  <2>3. (kept[k].orphan \/ Named(k)) \in BOOLEAN
    OBVIOUS
  <2> QED
    BY <2>1, <2>2, <2>3 DEF StmtSpanEntry
<1>2. Survivors(kept, F) \in [1..Len(kept) -> StmtSpanEntry]
  BY <1>1 DEF Survivors
<1>3. /\ Survivors(kept, F) \in Seq(StmtSpanEntry)
      /\ Len(Survivors(kept, F)) = Len(kept)
  <2>1. Len(kept) \in Nat
    OBVIOUS
  <2> QED
    BY <1>2, <2>1
<1>4. \A k \in 1..Len(kept) : Survivors(kept, F)[k] = Orphaned(kept[k], F)
  BY DEF Survivors
<1> QED
  BY <1>1, <1>3, <1>4

(***************************************************************************)
(* Lemmas about the hook calls in progress.                                *)
(***************************************************************************)

(* Which cursor is being declared is a matter of the calls alone.          *)
LEMMA SameDeclaring ==
    ASSUME NEW f, NEW g, NEW n \in Nat, NEW m \in n..(n + 1), NEW d,
           \A k \in 1..n : f[k].kind = g[k].kind /\ f[k].name = g[k].name,
           m = n + 1 => ~IsDeclare(g[m]),
           IsDeclaring(f, n, d)
    PROVE  IsDeclaring(g, m, d)
<1>1. CASE d = 0 /\ \A k \in 1..n : ~IsDeclare(f[k])
  <2>1. \A k \in 1..m : ~IsDeclare(g[k])
    BY <1>1 DEF IsDeclare
  <2> QED
    BY <1>1, <2>1 DEF IsDeclaring
<1>2. CASE ~(d = 0 /\ \A k \in 1..n : ~IsDeclare(f[k]))
  <2>1. PICK k \in 1..n : /\ IsDeclare(f[k]) /\ f[k].name = d
                          /\ \A j \in (k + 1)..n : ~IsDeclare(f[j])
    BY <1>2 DEF IsDeclaring
  <2>2. k \in 1..m /\ IsDeclare(g[k]) /\ g[k].name = d
    BY <2>1 DEF IsDeclare
  <2>3. \A j \in (k + 1)..m : ~IsDeclare(g[j])
    <3> SUFFICES ASSUME NEW j \in (k + 1)..m
                 PROVE  ~IsDeclare(g[j])
      OBVIOUS
    <3>1. CASE j = n + 1
      BY <3>1
    <3>2. CASE j # n + 1
      <4>1. j \in (k + 1)..n /\ j \in 1..n
        BY <3>2
      <4> QED
        BY <2>1, <4>1 DEF IsDeclare
    <3> QED
      BY <3>1, <3>2
  <2> QED
    BY <2>2, <2>3 DEF IsDeclaring
<1> QED
  BY <1>1, <1>2

LEMMA SameCalls ==
    ASSUME NEW f, NEW g, NEW n \in Nat, NEW d,
           \A k \in 1..n : f[k].kind = g[k].kind /\ f[k].name = g[k].name,
           IsDeclaring(f, n, d)
    PROVE  IsDeclaring(g, n, d)
  BY SMTT(30) DEF IsDeclaring, IsDeclare

(* Calls that return leave the chain of those below them.                  *)
LEMMA ChainBelow ==
    ASSUME NEW f, NEW g, NEW n \in Nat,
           \A k \in 1..n : /\ f[k].kind = g[k].kind /\ f[k].name = g[k].name
                          /\ f[k].saved = g[k].saved,
           \A k \in 1..n :
             f[k].kind = "util" => IsDeclaring(f, k - 1, f[k].saved)
    PROVE  \A k \in 1..n :
             g[k].kind = "util" => IsDeclaring(g, k - 1, g[k].saved)
<1> SUFFICES ASSUME NEW k \in 1..n, g[k].kind = "util"
             PROVE  IsDeclaring(g, k - 1, g[k].saved)
  OBVIOUS
<1>1. IsDeclaring(f, k - 1, g[k].saved)
  OBVIOUS
<1>2. k - 1 \in Nat
      /\ \A j \in 1..(k - 1) : f[j].kind = g[j].kind /\ f[j].name = g[j].name
  OBVIOUS
<1> QED
  BY <1>1, <1>2, SameCalls

LEMMA FrameBegins ==
    ASSUME StmtInv, NEW f \in Frame, Depth < MAX_FRAMES,
           frames' = Append(frames, f), UNCHANGED <<level, bases>>,
           \/ f.kind \in {"start", "run"}
           \/ f.kind = "util" /\ ~f.toplevel
           => f.span = 0,
           IF f.kind = "util"
           THEN /\ f.saved = declaring
                /\ declaring' = IF f.name # 0 THEN f.name ELSE declaring
           ELSE declaring' = declaring
    PROVE  BasesFit' /\ DeclaringChain' /\ PlainFrames'
<1>1. /\ frames' \in Seq(Frame)
      /\ Depth' = Depth + 1 /\ Depth \in Nat
      /\ \A k \in 1..Depth : frames'[k] = frames[k]
      /\ frames'[Depth + 1] = f
  BY PushedFrame DEF StmtInv
<1> HIDE DEF Depth
<1>2. BasesFit'
  <2>1. \A j \in 1..Len(bases) : bases[j] \in Nat
    BY TracingAssumption, SMTT(30) DEF StmtInv, Types
  <2> QED
    BY <1>1, <2>1, TracingAssumption DEF StmtInv, BasesFit
<1>3. DeclaringChain'
  <2>1. /\ IsDeclaring(frames, Depth, declaring)
        /\ \A k \in 1..Depth : frames[k].kind = "util" =>
             IsDeclaring(frames, k - 1, frames[k].saved)
    BY DEF StmtInv, DeclaringChain
  <2>2. \A k \in 1..Depth : frames'[k].kind = "util" =>
             IsDeclaring(frames', k - 1, frames'[k].saved)
    BY <1>1, <2>1, ChainBelow
  <2>3. IsDeclaring(frames', Depth, declaring)
    <3>1. Depth \in Depth..(Depth + 1) /\ Depth # Depth + 1
      BY <1>1
    <3> QED
      BY <1>1, <2>1, <3>1, SameDeclaring
  <2>4. f.kind = "util" => IsDeclaring(frames', (Depth + 1) - 1, f.saved)
    BY <1>1, <2>3
  <2>5. \A k \in 1..(Depth + 1) : frames'[k].kind = "util" =>
             IsDeclaring(frames', k - 1, frames'[k].saved)
    <3> SUFFICES ASSUME NEW k \in 1..(Depth + 1), frames'[k].kind = "util"
                 PROVE  IsDeclaring(frames', k - 1, frames'[k].saved)
      OBVIOUS
    <3>1. k \in 1..Depth \/ k = Depth + 1
      BY <1>1
    <3> QED
      BY <1>1, <2>2, <2>4, <3>1
  <2>6. IsDeclaring(frames', Depth + 1, declaring')
    <3>1. CASE IsDeclare(f)
      <4>1. f.kind = "util" /\ f.name # 0
        BY <3>1 DEF IsDeclare
      <4>2. declaring' = f.name
        BY <4>1
      <4>3. /\ Depth + 1 \in 1..(Depth + 1)
            /\ \A j \in (Depth + 1 + 1)..(Depth + 1) : ~IsDeclare(frames'[j])
        BY <1>1
      <4> QED
        BY <1>1, <3>1, <4>2, <4>3 DEF IsDeclaring
    <3>2. CASE ~IsDeclare(f)
      <4>1. declaring' = declaring
        BY <3>2 DEF IsDeclare
      <4>2. Depth + 1 \in Depth..(Depth + 1) /\ ~IsDeclare(frames'[Depth + 1])
        BY <1>1, <3>2
      <4> QED
        BY <1>1, <2>1, <4>1, <4>2, SameDeclaring
    <3> QED
      BY <3>1, <3>2
  <2> QED
    BY <1>1, <2>5, <2>6 DEF DeclaringChain
<1>4. PlainFrames'
  <2> SUFFICES ASSUME NEW k \in 1..(Depth + 1),
                      \/ frames'[k].kind \in {"start", "run"}
                      \/ frames'[k].kind = "util" /\ ~frames'[k].toplevel
               PROVE  frames'[k].span = 0
    BY <1>1 DEF PlainFrames
  <2>1. k \in 1..Depth \/ k = Depth + 1
    BY <1>1
  <2> QED
    BY <1>1, <2>1 DEF StmtInv, PlainFrames
<1> QED
  BY <1>2, <1>3, <1>4

LEMMA FrameReturns ==
    ASSUME StmtInv, MayReturn, frames' = Front(frames),
           UNCHANGED <<level, bases>>,
           declaring' = IF Last(frames).kind = "util" THEN Last(frames).saved
                        ELSE declaring
    PROVE  Depth > 0 /\ BasesFit' /\ DeclaringChain' /\ PlainFrames'
<1>1. Depth > Base
  BY DEF MayReturn, Base
<1>2. /\ Base \in 0..Depth /\ Depth \in Nat
      /\ \A j \in 1..Len(bases) : bases[j] \in Nat /\ bases[j] <= Base
  BY BaseFacts DEF StmtInv, Types, Depth
<1>3. Depth > 0
  BY <1>1, <1>2
<1>4. /\ frames' \in Seq(Frame)
      /\ Depth' = Depth - 1
      /\ \A k \in 1..(Depth - 1) : frames'[k] = frames[k]
      /\ Last(frames) = frames[Depth]
  BY <1>3, PoppedFrame DEF StmtInv
<1> HIDE DEF Depth, Base
<1>5. BasesFit'
  BY <1>1, <1>2, <1>4, TracingAssumption DEF StmtInv, BasesFit
<1>6. DeclaringChain'
  <2>1. /\ IsDeclaring(frames, Depth, declaring)
        /\ \A k \in 1..Depth : frames[k].kind = "util" =>
             IsDeclaring(frames, k - 1, frames[k].saved)
    BY DEF StmtInv, DeclaringChain
  <2>2. Depth - 1 \in Nat
        /\ \A k \in 1..(Depth - 1) : frames[k].kind = "util" =>
             IsDeclaring(frames, k - 1, frames[k].saved)
    BY <1>2, <1>3, <2>1
  <2>3. \A k \in 1..(Depth - 1) : frames'[k].kind = "util" =>
             IsDeclaring(frames', k - 1, frames'[k].saved)
    <3> DEFINE n == Depth - 1
    <3>1. /\ n \in Nat /\ \A k \in 1..n : frames[k] = frames'[k]
          /\ \A k \in 1..n : frames[k].kind = "util" =>
               IsDeclaring(frames, k - 1, frames[k].saved)
      BY <1>4, <2>2
    <3> HIDE DEF n
    <3>2. \A k \in 1..n : frames'[k].kind = "util" =>
               IsDeclaring(frames', k - 1, frames'[k].saved)
      BY <3>1, ChainBelow
    <3> QED
      BY <3>2 DEF n
  <2>4. IsDeclaring(frames, Depth - 1, declaring')
    <3>1. CASE frames[Depth].kind = "util"
      BY <1>2, <1>3, <1>4, <2>1, <3>1
    <3>2. CASE frames[Depth].kind # "util"
      <4>1. declaring' = declaring /\ ~IsDeclare(frames[Depth])
        BY <1>4, <3>2 DEF IsDeclare
      <4>2. CASE declaring = 0 /\ \A k \in 1..Depth : ~IsDeclare(frames[k])
        BY <1>2, <4>1, <4>2 DEF IsDeclaring
      <4>3. CASE ~(declaring = 0 /\ \A k \in 1..Depth : ~IsDeclare(frames[k]))
        <5>1. PICK k \in 1..Depth :
                 /\ IsDeclare(frames[k]) /\ frames[k].name = declaring
                 /\ \A j \in (k + 1)..Depth : ~IsDeclare(frames[j])
          BY <2>1, <4>3 DEF IsDeclaring
        <5>2. k \in 1..(Depth - 1)
          BY <1>2, <4>1, <5>1
        <5>3. \A j \in (k + 1)..(Depth - 1) : ~IsDeclare(frames[j])
          BY <1>2, <5>1
        <5> QED
          BY <4>1, <5>1, <5>2, <5>3 DEF IsDeclaring
      <4> QED
        BY <4>2, <4>3
    <3> QED
      BY <3>1, <3>2
  <2>5. IsDeclaring(frames', Depth - 1, declaring')
    <3>2. \A k \in 1..(Depth - 1) :
             frames[k].kind = frames'[k].kind /\ frames[k].name = frames'[k].name
      BY <1>4
    <3> DEFINE n == Depth - 1
    <3>3. /\ n \in Nat /\ IsDeclaring(frames, n, declaring')
          /\ \A k \in 1..n :
               frames[k].kind = frames'[k].kind /\ frames[k].name = frames'[k].name
      BY <2>2, <2>4, <3>2
    <3> HIDE DEF n
    <3>4. IsDeclaring(frames', n, declaring')
      BY <3>3, SameCalls
    <3> QED
      BY <3>4 DEF n
  <2> QED
    BY <1>4, <2>3, <2>5 DEF DeclaringChain
<1>7. PlainFrames'
  BY <1>2, <1>4 DEF StmtInv, PlainFrames
<1> QED
  BY <1>3, <1>5, <1>6, <1>7

(* g is the call f, in a run of the executor or not.                       *)
Alike(f, g) ==
    /\ f.kind = g.kind /\ f.span = g.span /\ f.toplevel = g.toplevel
    /\ f.name = g.name /\ f.saved = g.saved

LEMMA CursoredStays ==
    ASSUME NEW f, NEW g, NEW n, \A k \in 1..n : Alike(f[k], g[k]),
           Cursored(f, n)
    PROVE  Cursored(g, n)
  BY DEF Alike, Cursored, Declares

(* An entry stays what it is if what it stands for, and the calls around   *)
(* it, do.                                                                 *)
LEMMA LiveStays ==
    ASSUME Types, NEW e \in StmtSpanEntry, LiveEntry(e),
           UNCHANGED <<level, bases>>,
           e.key > 0 => /\ e.key <= Depth'
                        /\ \A k \in 1..e.key : Alike(frames[k], frames'[k]),
           e.key < 0 => portals'[-e.key] = portals[-e.key]
    PROVE  LiveEntry(e)'
<1>1. CASE e.key > 0
  <2>1. e.key \in Int /\ e.key \in 1..e.key
        /\ \A k \in 1..(e.key - 1) : k \in 1..e.key
    BY <1>1, EntryFields, KeyFacts
  <2>2. frames'[e.key].span = frames[e.key].span
    BY <1>1, <2>1 DEF Alike
  <2>3. Cursored(frames, e.key - 1) => Cursored(frames', e.key - 1)
    BY <1>1, <2>1, CursoredStays
  <2>4. ~(e.key < 0)
    BY <1>1, <2>1
  <2> QED
    BY <1>1, <2>2, <2>3, <2>4 DEF LiveEntry
<1>2. CASE ~(e.key > 0)
  BY <1>2 DEF LiveEntry, IsOpen
<1> QED
  BY <1>1, <1>2

(* The innermost query's run begins or ends: only its act changes.         *)
LEMMA ActChanges ==
    ASSUME Types, Depth > 0, NEW a \in Spans \union {0},
           frames' = [frames EXCEPT ![Depth].act = a]
    PROVE  /\ frames' \in Seq(Frame) /\ Depth' = Depth /\ Depth \in Nat
           /\ \A k \in 1..Depth : Alike(frames[k], frames'[k])
           /\ \A k \in 1..(Depth - 1) : frames'[k] = frames[k]
           /\ frames'[Depth].act = a
           /\ Last(frames) = frames[Depth]
<1>1. Depth \in Nat /\ Depth \in 1..Depth /\ frames[Depth] \in Frame
      /\ Last(frames) = frames[Depth]
  BY DEF Types, Depth, Last
<1>2. PICK f : f = [frames[Depth] EXCEPT !.act = a]
  OBVIOUS
<1>3. f \in Frame /\ Alike(frames[Depth], f) /\ f.act = a
  BY <1>1, <1>2 DEF Frame, Alike
<1>4. frames' = [frames EXCEPT ![Depth] = f]
  BY <1>2
<1>5. /\ frames' \in Seq(Frame) /\ Len(frames') = Len(frames)
      /\ frames'[Depth] = f
      /\ \A k \in 1..Len(frames) : k # Depth => frames'[k] = frames[k]
  <2>1. frames \in Seq(Frame) /\ Depth = Len(frames)
    BY DEF Types, Depth
  <2> HIDE DEF Depth
  <2> QED
    BY <1>1, <1>3, <1>4, <2>1
<1>6. \A k \in 1..Depth : Alike(frames[k], frames'[k])
  <2>1. \A g : Alike(g, g)
    BY DEF Alike
  <2> QED
    BY <1>3, <1>5, <2>1 DEF Depth
<1> QED
  BY <1>1, <1>3, <1>5, <1>6 DEF Depth

(***************************************************************************)
(* What the hooks do to the entries.                                       *)
(***************************************************************************)

EntriesInv ==
    /\ LiveEntries
    /\ OrphansBelow(stmt_stack)
    /\ RunningStatementsKeepEntry

LEMMA LevelFacts ==
    ASSUME StmtInv
    PROVE  /\ level \in 0..MAX_LEVEL /\ level \in Nat /\ Depth \in 0..MAX_FRAMES
           /\ Depth \in Nat
           /\ Len(bases) = IF level > 0 THEN level - 1 ELSE 0
           /\ \A j \in 1..Len(bases) : bases[j] \in Nat /\ bases[j] <= Depth
           /\ \A i, j \in 1..Len(bases) : i <= j => bases[i] <= bases[j]
  BY TracingAssumption, SMTT(30) DEF StmtInv, BasesFit, Types, Depth

LEMMA EntryFacts ==
    ASSUME StmtInv, NEW e \in Items(stmt_stack)
    PROVE  /\ e \in StmtSpanEntry
           /\ e.key \in Int /\ e.key # 0 /\ e.ref \in Spans
           /\ e.orphan => e.key < 0
           /\ ~e.orphan => LiveEntry(e)
           /\ e.key > 0 => LiveEntry(e)
<1>1. e \in StmtSpanEntry
  BY ItemFacts DEF StmtInv, Types
<1>2. e.key \in Int /\ e.key # 0 /\ e.ref \in Spans
  BY <1>1, EntryFields, KeyFacts
<1>3. IF e.orphan THEN e.key < 0 ELSE LiveEntry(e)
  BY DEF StmtInv, LiveEntries
<1> QED
  BY <1>1, <1>2, <1>3

(* A query or a client's command starts.                                   *)
LEMMA StatementStarts ==
    ASSUME StmtInv, level > 0, Depth < MAX_FRAMES,
           NEW f \in Frame, frames' = Append(frames, f),
           NEW c, NEW s \in Startable, f.span = s, NEW detached \in BOOLEAN,
           NEW key, key = Depth + 1, StartAndPush(key, c, s, detached),
           detached => Cursored(frames, Depth),
           UNCHANGED <<level, bases, portals>>
    PROVE  EntriesInv'
<1>0. PICK x : x = Entry(key, s, detached)
  OBVIOUS
<1>1. /\ Depth' = Depth + 1 /\ Depth \in Nat
      /\ \A k \in 1..Depth : frames'[k] = frames[k]
      /\ frames'[Depth + 1] = f
  BY PushedFrame DEF StmtInv
<1>2. key \in Key
  BY <1>1, TracingAssumption DEF Key
<1>3. /\ s # 0 => s \in Unused
      /\ \/ /\ s = 0 \/ StackFull
            /\ UNCHANGED <<stmt_stack, owner>>
         \/ /\ s # 0
            /\ x \in StmtSpanEntry
            /\ stmt_stack' = Append(stmt_stack, x)
            /\ \A t \in Spans : owner'[t] = IF t = s THEN level ELSE owner[t]
  <2>1. Types /\ level > 0 /\ detached \in BOOLEAN
        /\ StartAndPush(key, c, s, detached)
    BY DEF StmtInv
  <2>2. /\ s # 0 => s \in Unused
        /\ \/ /\ s = 0 \/ StackFull
              /\ UNCHANGED <<stmt_stack, owner, active>>
           \/ /\ s # 0
              /\ Entry(key, s, detached) \in StmtSpanEntry
              /\ stmt_stack' = Append(stmt_stack, Entry(key, s, detached))
              /\ \A t \in Spans : owner'[t] = IF t = s THEN level ELSE owner[t]
    BY <1>2, <2>1, StartEffect, SMTT(60)
  <2> QED
    BY <1>0, <2>2
<1>4. /\ x.key = key /\ key = Depth + 1 /\ x.ref = s /\ x.subxact_level = level
      /\ x.detached = detached /\ x.orphan = FALSE
  BY <1>0 DEF Entry
<1>5. Types
  BY DEF StmtInv
<1>6. ASSUME NEW e \in Items(stmt_stack)
      PROVE  /\ IF e.orphan THEN e.key < 0 ELSE LiveEntry(e)'
             /\ e.key = Depth + 1 => e.orphan
  <2>1. e \in StmtSpanEntry /\ e.key \in Int
    BY EntryFacts
  <2>2. CASE e.orphan
    BY <2>2, EntryFacts
  <2>3. CASE ~e.orphan
    <3>1. LiveEntry(e)
      BY <2>3, EntryFacts
    <3>2. e.key > 0 => e.key <= Depth
      BY <3>1 DEF LiveEntry
    <3>3. ASSUME e.key > 0
          PROVE  /\ e.key <= Depth'
                 /\ \A k \in 1..e.key : Alike(frames[k], frames'[k])
      <4>1. e.key \in 1..Depth
        BY <1>1, <2>1, <3>2, <3>3
      <4>2. \A k \in 1..e.key : frames'[k] = frames[k]
        <5>1. \A k \in 1..e.key : k \in 1..Depth
          BY <1>1, <4>1
        <5> QED
          BY <1>1, <5>1
      <4>3. e.key <= Depth'
        BY <1>1, <4>1
      <4> QED
        BY <4>2, <4>3 DEF Alike
    <3>4. LiveEntry(e)'
      BY <1>5, <2>1, <3>1, <3>3, LiveStays
    <3> QED
      BY <1>1, <2>1, <2>3, <3>2, <3>4
  <2> QED
    BY <2>2, <2>3
<1>7. ASSUME NEW k \in 1..Depth, frames'[k].span # 0,
             owner'[frames'[k].span] > 0
      PROVE  \E e \in Items(stmt_stack) : e.key = k /\ e.ref = frames'[k].span
  <2>1. frames'[k] = frames[k] /\ frames[k].span \in Spans
    BY <1>1, <1>5, <1>7, FrameFields
  <2>2. s # 0 => frames[k].span # s
    BY <1>3, <1>5, UnusedFacts
  <2>3. owner[frames[k].span] > 0
    BY <1>3, <1>7, <2>1, <2>2
  <2> QED
    BY <1>7, <2>1, <2>3 DEF StmtInv, RunningStatementsKeepEntry
<1>8. CASE (s = 0 \/ StackFull) /\ UNCHANGED <<stmt_stack, owner>>
  <2>1. LiveEntries'
    BY <1>6, <1>8 DEF LiveEntries
  <2>2. OrphansBelow(stmt_stack)'
    BY <1>8 DEF StmtInv
  <2>3. RunningStatementsKeepEntry'
    <3> SUFFICES ASSUME NEW k \in 1..(Depth + 1), frames'[k].span # 0,
                        owner'[frames'[k].span] > 0
                 PROVE  \E e \in Items(stmt_stack) :
                          e.key = k /\ e.ref = frames'[k].span
      BY <1>1, <1>8 DEF RunningStatementsKeepEntry
    <3>1. CASE k = Depth + 1
      <4>1. s # 0 /\ owner[s] = 0 /\ frames'[k].span = s
        BY <1>1, <1>3, <1>5, <3>1, UnusedFacts
      <4> QED
        BY <1>8, <4>1
    <3>2. CASE k # Depth + 1
      <4>1. k \in 1..Depth
        BY <1>1, <3>2
      <4> QED
        BY <1>7, <4>1
    <3> QED
      BY <3>1, <3>2
  <2> QED
    BY <2>1, <2>2, <2>3 DEF EntriesInv
<1>9. CASE /\ s # 0
           /\ x \in StmtSpanEntry
           /\ stmt_stack' = Append(stmt_stack, x)
           /\ \A t \in Spans : owner'[t] = IF t = s THEN level ELSE owner[t]
  <2>1. Items(stmt_stack)' = Items(stmt_stack) \union {x}
    BY <1>5, <1>9, PushFacts DEF Types
  <2>2. LiveEntry(x)'
    <3>1. Depth + 1 > 0 /\ ~(Depth + 1 < 0)
      BY <1>1
    <3>2. \A j \in 1..Len(bases) : ~(Depth + 1 <= bases[j]) /\ ~(level <= j)
      <4>1. /\ level \in Nat /\ level > 0 /\ Len(bases) = level - 1
            /\ \A j \in 1..Len(bases) : bases[j] \in Nat /\ bases[j] <= Depth
        <5>1. level > 0
          OBVIOUS
        <5> QED
          BY <5>1, LevelFacts
      <4> QED
        BY <1>1, <4>1
    <3>3. level <= level
      BY TracingAssumption DEF StmtInv, Types
    <3>4. /\ x.key > 0 /\ ~(x.key < 0) /\ x.key <= Depth'
          /\ frames'[x.key].span = x.ref
          /\ x.detached => Cursored(frames', x.key - 1)
          /\ x.subxact_level <= level'
      <4>1. x.key = Depth + 1 /\ frames'[x.key].span = x.ref
        BY <1>1, <1>4
      <4>2. x.subxact_level <= level'
        BY <1>4, <3>3
      <4>3. x.key > 0 /\ ~(x.key < 0)
        BY <1>4, <3>1
      <4>4. x.key <= Depth'
        BY <1>1, <4>1
      <4>5. x.detached => Cursored(frames', x.key - 1)
        <5>1. \A k \in 1..Depth : Alike(frames[k], frames'[k])
          BY <1>1 DEF Alike
        <5>2. x.detached => Cursored(frames', Depth)
          BY <1>4, <5>1, CursoredStays
        <5>3. x.key - 1 = Depth
          BY <1>1, <4>1
        <5> QED
          BY <5>2, <5>3
      <4> QED
        BY <1>4, <4>1, <4>2, <4>3, <4>4, <4>5
    <3>5. \A j \in 1..Len(bases') :
             x.key <= bases'[j] <=> x.subxact_level <= j
      BY <1>4, <3>2
    <3> QED
      BY <3>4, <3>5 DEF LiveEntry
  <2>3. LiveEntries'
    BY <1>4, <1>6, <2>1, <2>2 DEF LiveEntries
  <2>4. OrphansBelow(stmt_stack')
    BY <1>4, <1>6, <1>9, PushedOrphans DEF StmtInv, Types
  <2>5. RunningStatementsKeepEntry'
    <3> SUFFICES ASSUME NEW k \in 1..(Depth + 1), frames'[k].span # 0,
                        owner'[frames'[k].span] > 0
                 PROVE  \E e \in Items(stmt_stack') :
                          e.key = k /\ e.ref = frames'[k].span
      BY <1>1 DEF RunningStatementsKeepEntry
    <3>1. CASE k = Depth + 1
      BY <1>1, <1>4, <2>1, <3>1
    <3>2. CASE k # Depth + 1
      <4>1. k \in 1..Depth
        BY <1>1, <3>2
      <4> QED
        BY <1>7, <2>1, <4>1
    <3> QED
      BY <3>1, <3>2
  <2> QED
    BY <2>3, <2>4, <2>5 DEF EntriesInv
<1> QED
  BY <1>3, <1>8, <1>9

(* A call without a span starts.                                           *)
LEMMA UnspannedStarts ==
    ASSUME StmtInv, NEW f \in Frame, frames' = Append(frames, f), f.span = 0,
           UNCHANGED <<level, bases, portals, stmt_stack, owner>>
    PROVE  EntriesInv'
<1>1. /\ Depth' = Depth + 1 /\ Depth \in Nat
      /\ \A k \in 1..Depth : frames'[k] = frames[k]
      /\ frames'[Depth + 1] = f
  BY PushedFrame DEF StmtInv
<1>2. LiveEntries'
  <2> SUFFICES ASSUME NEW e \in Items(stmt_stack), ~e.orphan
               PROVE  LiveEntry(e)'
    BY EntryFacts DEF LiveEntries
  <2>1. e \in StmtSpanEntry /\ e.key \in Int /\ LiveEntry(e)
    BY EntryFacts
  <2>2. e.key > 0 => e.key \in 1..Depth
    BY <1>1, <2>1 DEF LiveEntry
  <2>3. ASSUME e.key > 0
        PROVE  /\ e.key <= Depth'
               /\ \A k \in 1..e.key : Alike(frames[k], frames'[k])
    <3>1. \A k \in 1..e.key : frames'[k] = frames[k]
      <4>1. /\ e.key \in Int /\ Depth \in Nat
            /\ \A k \in 1..e.key : k \in 1..Depth /\ k \in 1..(e.key)
        BY <1>1, <2>1, <2>2, <2>3
      <4>2. \A k \in 1..e.key : k <= e.key
        BY <4>1
      <4> QED
        BY <1>1, <2>2, <2>3, <4>1, <4>2
    <3>2. e.key <= Depth'
      BY <1>1, <2>2, <2>3
    <3> QED
      BY <3>1, <3>2 DEF Alike
  <2> QED
    BY <2>1, <2>3, LiveStays DEF StmtInv
<1>3. OrphansBelow(stmt_stack)'
  BY DEF StmtInv
<1>4. RunningStatementsKeepEntry'
  <2> SUFFICES ASSUME NEW k \in 1..(Depth + 1), frames'[k].span # 0,
                      owner[frames'[k].span] > 0
               PROVE  \E e \in Items(stmt_stack) :
                        e.key = k /\ e.ref = frames'[k].span
    BY <1>1 DEF RunningStatementsKeepEntry
  <2>1. k \in 1..Depth
    <3>1. k # Depth + 1
      BY <1>1
    <3> QED
      BY <1>1, <3>1
  <2>2. frames'[k] = frames[k]
    BY <1>1, <2>1
  <2> QED
    BY <2>1, <2>2 DEF StmtInv, RunningStatementsKeepEntry
<1> QED
  BY <1>2, <1>3, <1>4 DEF EntriesInv

(* The innermost call returns; no entry but orphans' has its key after it, *)
(* and those of the others stay.                                           *)
LEMMA CallReturns ==
    ASSUME StmtInv, Depth > 0, frames' = Front(frames),
           UNCHANGED <<level, bases, portals>>,
           Items(stmt_stack') \subseteq Items(stmt_stack),
           OrphansBelow(stmt_stack'),
           \A e \in Items(stmt_stack') : e.key # Depth,
           \A e \in Items(stmt_stack) :
             e.key # Depth => e \in Items(stmt_stack'),
           \A t \in Spans : owner'[t] \in {0, owner[t]}
    PROVE  EntriesInv'
<1>1. /\ Depth' = Depth - 1 /\ Depth \in Nat \ {0}
      /\ \A k \in 1..(Depth - 1) : frames'[k] = frames[k]
  BY PoppedFrame DEF StmtInv
<1>2. LiveEntries'
  <2> SUFFICES ASSUME NEW e \in Items(stmt_stack'), ~e.orphan
               PROVE  LiveEntry(e)'
    BY EntryFacts DEF LiveEntries
  <2>1. e \in StmtSpanEntry /\ e.key \in Int /\ LiveEntry(e) /\ e.key # Depth
    BY EntryFacts
  <2>2. e.key > 0 => e.key \in 1..(Depth - 1)
    BY <1>1, <2>1 DEF LiveEntry
  <2>3. ASSUME e.key > 0
        PROVE  /\ e.key <= Depth'
               /\ \A k \in 1..e.key : Alike(frames[k], frames'[k])
    <3>1. \A k \in 1..e.key : frames'[k] = frames[k]
      <4>1. /\ e.key \in Int /\ Depth \in Nat
            /\ \A k \in 1..e.key : k \in 1..Depth /\ k \in 1..(e.key)
        BY <1>1, <2>1, <2>2, <2>3
      <4>2. \A k \in 1..e.key : k <= e.key
        BY <4>1
      <4> QED
        BY <1>1, <2>2, <2>3, <4>1, <4>2
    <3>2. e.key <= Depth'
      BY <1>1, <2>2, <2>3
    <3> QED
      BY <3>1, <3>2 DEF Alike
  <2> QED
    BY <2>1, <2>3, LiveStays DEF StmtInv
<1>3. RunningStatementsKeepEntry'
  <2> SUFFICES ASSUME NEW k \in 1..(Depth - 1), frames'[k].span # 0,
                      owner'[frames'[k].span] > 0
               PROVE  \E e \in Items(stmt_stack') :
                        e.key = k /\ e.ref = frames'[k].span
    BY <1>1 DEF RunningStatementsKeepEntry
  <2>1. k \in 1..Depth /\ k # Depth /\ frames'[k] = frames[k]
    BY <1>1
  <2>2. frames[k].span \in Spans
    BY <2>1, FrameFields DEF StmtInv
  <2>3. owner[frames[k].span] > 0
    BY <2>1, <2>2
  <2>4. PICK e \in Items(stmt_stack) : e.key = k /\ e.ref = frames[k].span
    BY <2>1, <2>3 DEF StmtInv, RunningStatementsKeepEntry
  <2> QED
    BY <2>1, <2>4
<1> QED
  BY <1>2, <1>3 DEF EntriesInv

(* Nothing that entries stand for changes.                                 *)
LEMMA EntriesAlike ==
    ASSUME StmtInv, UNCHANGED <<stmt_stack, level, bases, portals>>,
           Depth' = Depth, \A k \in 1..Depth : Alike(frames[k], frames'[k]),
           \A t \in Spans : owner'[t] \in {0, owner[t]}
    PROVE  EntriesInv'
<1>1. LiveEntries' /\ OrphansBelow(stmt_stack)'
  <2> SUFFICES ASSUME NEW e \in Items(stmt_stack), ~e.orphan
               PROVE  LiveEntry(e)'
    BY EntryFacts DEF LiveEntries, StmtInv
  <2>1. e \in StmtSpanEntry /\ e.key \in Int /\ LiveEntry(e)
    BY EntryFacts
  <2>2. e.key > 0 => /\ e.key <= Depth'
                     /\ \A k \in 1..e.key : Alike(frames[k], frames'[k])
    <3>1. e.key > 0 => e.key \in 1..Depth
      BY <2>1, LevelFacts DEF LiveEntry
    <3>2. Depth \in Nat
      BY LevelFacts
    <3> QED
      BY <3>1, <3>2
  <2> QED
    BY <2>1, <2>2, LiveStays DEF StmtInv
<1>2. RunningStatementsKeepEntry'
  <2> SUFFICES ASSUME NEW k \in 1..Depth, frames'[k].span # 0,
                      owner'[frames'[k].span] > 0
               PROVE  \E e \in Items(stmt_stack) :
                        e.key = k /\ e.ref = frames'[k].span
    BY DEF RunningStatementsKeepEntry
  <2>1. frames[k].span \in Spans /\ frames'[k].span = frames[k].span
    BY FrameFields DEF StmtInv, Alike
  <2>2. owner[frames[k].span] > 0
    BY <2>1
  <2> QED
    BY <2>1, <2>2 DEF StmtInv, RunningStatementsKeepEntry
<1> QED
  BY <1>1, <1>2 DEF EntriesInv

LEMMA EntriesStay ==
    ASSUME StmtInv, UNCHANGED <<stmt_stack, frames, level, bases, portals>>,
           \A t \in Spans : owner'[t] \in {0, owner[t]}
    PROVE  EntriesInv'
<1>1. Depth' = Depth /\ \A k \in 1..Depth : Alike(frames[k], frames'[k])
  BY DEF Depth, Alike
<1> QED
  BY <1>1, EntriesAlike

(* All entries and all spans are gone.                                     *)
LEMMA EntriesGo ==
    ASSUME Types, Types', stmt_stack' = KeptEntries(stmt_stack, 1),
           \A t \in Spans : owner'[t] = 0
    PROVE  EntriesInv'
<1>1. Items(stmt_stack') = {}
  <2>1. {e \in Items(stmt_stack) : 1 > 1 /\ e.subxact_level < 1} = {}
    OBVIOUS
  <2>2. stmt_stack' = Keep(stmt_stack, {})
    BY <2>1 DEF KeptEntries
  <2> QED
    BY <2>2, KeepItems DEF Types
<1>2. LiveEntries'
  BY <1>1 DEF LiveEntries
<1>3. OrphansBelow(stmt_stack)'
  BY <1>1 DEF OrphansBelow, Items
<1>4. RunningStatementsKeepEntry'
  <2> SUFFICES ASSUME NEW k \in 1..Depth', frames'[k].span # 0
               PROVE  ~(owner'[frames'[k].span] > 0)
    BY DEF RunningStatementsKeepEntry
  <2>1. frames'[k] \in Frame
    BY DEF Types, Depth
  <2>2. frames'[k].span \in Spans
    BY <2>1 DEF Frame
  <2> QED
    BY <2>2
<1> QED
  BY <1>2, <1>3, <1>4 DEF EntriesInv

(* A cursor's query is started detached by its DECLARE, and else only if a *)
(* DECLARE of its name is in progress.                                     *)
LEMMA DetachedAtStart ==
    ASSUME StmtInv, NEW p \in Portals, Depth > 0
    PROVE  /\ Declares(Last(frames), p) => is_declaring_cursor(p)
           /\ is_declaring_cursor(p) => \E f \in Items(frames) : Declares(f, p)
<1>1. /\ Depth \in Nat /\ p # 0 /\ Last(frames) = frames[Depth]
      /\ \A k \in 1..Depth : frames[k] \in Items(frames)
  BY TracingAssumption DEF StmtInv, Types, Depth, Last, Items
<1>2. IsDeclaring(frames, Depth, declaring)
  BY DEF StmtInv, DeclaringChain
<1>3. ASSUME Declares(Last(frames), p)
      PROVE  is_declaring_cursor(p)
  <2>1. Depth \in 1..Depth /\ IsDeclare(frames[Depth]) /\ frames[Depth].name = p
    BY <1>1, <1>3 DEF IsDeclare, Declares
  <2>2. PICK k \in 1..Depth :
           /\ frames[k].name = declaring
           /\ \A j \in (k + 1)..Depth : ~IsDeclare(frames[j])
    BY <1>2, <2>1 DEF IsDeclaring
  <2>3. k = Depth
    BY <1>1, <2>1, <2>2
  <2> QED
    BY <1>1, <2>1, <2>2, <2>3 DEF is_declaring_cursor
<1>4. ASSUME is_declaring_cursor(p)
      PROVE  \E f \in Items(frames) : Declares(f, p)
  <2>1. PICK k \in 1..Depth : IsDeclare(frames[k]) /\ frames[k].name = declaring
    BY <1>2, <1>4 DEF IsDeclaring, is_declaring_cursor
  <2>2. Declares(frames[k], p)
    BY <1>4, <2>1 DEF IsDeclare, Declares, is_declaring_cursor
  <2> QED
    BY <1>1, <2>2
<1> QED
  BY <1>3, <1>4

(* Another query is started detached only while the cursor that a DECLARE  *)
(* in progress names is being started or run.                              *)
LEMMA NestedDetached ==
    ASSUME StmtInv, is_declaring_cursor(ActivePortal)
    PROVE  Cursored(frames, Depth)
<1> DEFINE P == {k \in 1..Depth : frames[k].kind \in {"start", "run"}}
<1>1. declaring # 0 /\ declaring = ActivePortal /\ Depth \in Nat
  BY LevelFacts DEF is_declaring_cursor
<1>2. P # {} /\ ActivePortal = frames[CHOOSE k \in P : \A j \in P : j <= k].name
  BY <1>1 DEF ActivePortal
<1>3. \E k \in P : \A j \in P : j <= k
  BY <1>1, <1>2, GreatestPosition
<1>4. PICK j \in P : ActivePortal = frames[j].name
  BY <1>2, <1>3
<1>5. PICK i \in 1..Depth : IsDeclare(frames[i]) /\ frames[i].name = declaring
  BY <1>1 DEF IsDeclaring, StmtInv, DeclaringChain
<1> QED
  BY <1>1, <1>4, <1>5 DEF IsDeclare, Declares, Cursored

(* A cursor is opened.                                                     *)
LEMMA PortalStarts ==
    ASSUME StmtInv, NEW p \in Portals, NEW c, NEW s \in Startable,
           NEW declared \in BOOLEAN, PortalStart(p, c, s, declared)
    PROVE  EntriesInv'
<1>0. PICK x : x = Entry(-p, s, is_declaring_cursor(p))
  OBVIOUS
<1>f. PICK f : f = [ExecFrame EXCEPT !.kind = "start", !.name = p]
  OBVIOUS
<1>t. PICK t : t = (~declared /\ \E g \in Items(frames) : Declares(g, p))
  OBVIOUS
<1>1. /\ level > 0 /\ Depth > 0 /\ ~IsOpen(p)
      /\ declared => Declares(Last(frames), p)
      /\ StartAndPush(-p, c, s, is_declaring_cursor(p))
      /\ portals' = [portals EXCEPT ![p] =
                       [lev |-> level, span |-> s, failed |-> FALSE,
                        declared |-> declared, taken |-> t]]
      /\ frames' = Append(frames, f)
      /\ UNCHANGED <<level, bases>>
  BY <1>f, <1>t DEF PortalStart, coreVars
<1>2. Types
  BY DEF StmtInv
<1>3. p \in Nat /\ p # 0 /\ -p \in Key /\ is_declaring_cursor(p) \in BOOLEAN
      /\ f \in Frame /\ f.span = 0
  BY <1>f, TracingAssumption DEF Key, is_declaring_cursor, ExecFrame, Frame
<1>4. /\ s # 0 => s \in Unused
      /\ \/ UNCHANGED <<stmt_stack, owner>>
         \/ /\ s # 0
            /\ x \in StmtSpanEntry
            /\ stmt_stack' = Append(stmt_stack, x)
            /\ \A u \in Spans : owner'[u] = IF u = s THEN level ELSE owner[u]
  <2>1. PICK k, detached : /\ k = -p /\ k \in Key /\ detached \in BOOLEAN
                           /\ StartAndPush(k, c, s, detached)
                           /\ x = Entry(k, s, detached) /\ level > 0
    BY <1>0, <1>1, <1>3
  <2>2. /\ s # 0 => s \in Unused
        /\ \/ UNCHANGED <<stmt_stack, owner, active>>
           \/ /\ s # 0
              /\ Entry(k, s, detached) \in StmtSpanEntry
              /\ stmt_stack' = Append(stmt_stack, Entry(k, s, detached))
              /\ \A u \in Spans : owner'[u] = IF u = s THEN level ELSE owner[u]
    BY <1>2, <2>1, StartEffect, ZenonT(60)
  <2> QED
    BY <2>1, <2>2
<1>5. /\ x.key = -p /\ x.ref = s /\ x.subxact_level = level
      /\ x.detached = is_declaring_cursor(p) /\ x.orphan = FALSE
  BY <1>0 DEF Entry
<1>6. /\ \A q \in Portals : q # p => portals'[q] = portals[q]
      /\ portals'[p] = [lev |-> level, span |-> s, failed |-> FALSE,
                        declared |-> declared, taken |-> t]
  BY <1>1, <1>2 DEF Types
<1>8. /\ Depth' = Depth + 1 /\ Depth \in Nat
      /\ \A k \in 1..Depth : frames'[k] = frames[k]
      /\ frames'[Depth + 1] = f
  BY <1>1, <1>2, <1>3, PushedFrame
<1>7. ASSUME NEW e \in Items(stmt_stack)
      PROVE  /\ IF e.orphan THEN e.key < 0 ELSE LiveEntry(e)'
             /\ e.key = -p => e.orphan
  <2>1. e \in StmtSpanEntry /\ e.key \in Int /\ e.key # 0
    BY EntryFacts
  <2>2. CASE e.orphan
    BY <2>2, EntryFacts
  <2>3. CASE ~e.orphan
    <3>1. LiveEntry(e)
      BY <2>3, EntryFacts
    <3>2. e.key # -p
      <4> SUFFICES ASSUME e.key = -p
                   PROVE  FALSE
        OBVIOUS
      <4>1. e.key < 0 /\ -e.key = p
        BY <1>3
      <4> QED
        BY <1>1, <3>1, <4>1 DEF LiveEntry
    <3>3. e.key < 0 => portals'[-e.key] = portals[-e.key]
      <4>1. e.key < 0 => -e.key \in Portals
        BY <2>1, EntryFields, KeyFacts
      <4>2. -e.key # p
        BY <1>3, <2>1, <3>2
      <4> QED
        BY <1>6, <4>1, <4>2
    <3>4. e.key > 0 => /\ e.key <= Depth'
                       /\ \A k \in 1..e.key : Alike(frames[k], frames'[k])
      <4>1. e.key > 0 => e.key \in 1..Depth
        BY <1>8, <2>1, <3>1 DEF LiveEntry
      <4> QED
        BY <1>8, <4>1 DEF Alike
    <3>5. LiveEntry(e)'
      BY <1>1, <1>2, <2>1, <3>1, <3>3, <3>4, LiveStays
    <3> QED
      BY <2>3, <3>2, <3>5
  <2> QED
    BY <2>2, <2>3
<1>r. ASSUME NEW k \in 1..(Depth + 1), frames'[k].span # 0,
             owner'[frames'[k].span] > 0
      PROVE  \E e \in Items(stmt_stack) : e.key = k /\ e.ref = frames'[k].span
  <2>0. k \in 1..Depth /\ frames'[k] = frames[k]
    <3>1. k # Depth + 1
      BY <1>3, <1>8, <1>r
    <3> QED
      BY <1>8, <3>1
  <2>1. frames[k].span \in Spans
    BY <1>2, <1>r, <2>0, FrameFields
  <2>2. s # 0 => frames[k].span # s
    BY <1>2, <1>4, <2>0, UnusedFacts
  <2>3. owner[frames[k].span] > 0
    BY <1>4, <1>r, <2>0, <2>1, <2>2
  <2> QED
    BY <1>r, <2>0, <2>3 DEF StmtInv, RunningStatementsKeepEntry
<1>9. CASE UNCHANGED <<stmt_stack, owner>>
  <2>1. LiveEntries'
    BY <1>7, <1>9 DEF LiveEntries
  <2>2. OrphansBelow(stmt_stack)'
    BY <1>9 DEF StmtInv
  <2>3. RunningStatementsKeepEntry'
    BY <1>8, <1>9, <1>r DEF RunningStatementsKeepEntry
  <2> QED
    BY <2>1, <2>2, <2>3 DEF EntriesInv
<1>10. CASE /\ s # 0
            /\ x \in StmtSpanEntry
            /\ stmt_stack' = Append(stmt_stack, x)
            /\ \A u \in Spans : owner'[u] = IF u = s THEN level ELSE owner[u]
  <2>1. Items(stmt_stack)' = Items(stmt_stack) \union {x}
    BY <1>2, <1>10, PushFacts DEF Types
  <2>2. LiveEntry(x)'
    <3>1. ~(x.key > 0) /\ -x.key = p
      BY <1>3, <1>5
    <3>2. level \in Nat
      BY <1>2, TracingAssumption DEF Types
    <3>3. /\ portals'[p].lev > 0 /\ ~portals'[p].failed
          /\ portals'[p].span = x.ref
      BY <1>1, <1>5, <1>6
    <3>4. portals'[p].lev <= x.subxact_level
      BY <1>5, <1>6, <3>2
    <3>5. /\ portals'[p].declared => x.detached
          /\ x.detached => portals'[p].declared \/ portals'[p].taken
      <4>1. /\ declared => is_declaring_cursor(p)
            /\ is_declaring_cursor(p) => declared \/ t
        BY <1>1, <1>t, DetachedAtStart
      <4>2. portals'[p].declared = declared /\ portals'[p].taken = t
        BY <1>6
      <4> QED
        BY <1>5, <4>1, <4>2
    <3> QED
      BY <3>1, <3>3, <3>4, <3>5 DEF LiveEntry, IsOpen
  <2>3. LiveEntries'
    BY <1>5, <1>7, <2>1, <2>2 DEF LiveEntries
  <2>4. OrphansBelow(stmt_stack')
    BY <1>2, <1>5, <1>7, <1>10, PushedOrphans DEF StmtInv, Types
  <2>5. RunningStatementsKeepEntry'
    BY <1>8, <1>r, <2>1 DEF RunningStatementsKeepEntry
  <2> QED
    BY <2>3, <2>4, <2>5 DEF EntriesInv
<1> QED
  BY <1>4, <1>9, <1>10

(* A cursor is closed: no entry but orphans' has its key.                  *)
LEMMA PortalEnds ==
    ASSUME StmtInv, NEW p \in Portals, PortalEnd(p)
    PROVE  EntriesInv'
<1>1. /\ IF portals[p].failed THEN UNCHANGED <<stmt_stack, owner>>
         ELSE PopAndFinalize(-p, portals[p].span)
      /\ \A q \in Portals : q # p => portals'[q] = portals[q]
      /\ UNCHANGED <<level, bases, frames>>
  BY DEF PortalEnd, coreVars, spanVars, StmtInv, Types
<1>2. Types /\ OrphansBelow(stmt_stack) /\ p \in Nat /\ p # 0
  BY TracingAssumption DEF StmtInv
<1>3. /\ Items(stmt_stack') \subseteq Items(stmt_stack)
      /\ OrphansBelow(stmt_stack')
      /\ \A e \in Items(stmt_stack') : e.key = -p => e.orphan
      /\ \A e \in Items(stmt_stack) : e.key # -p => e \in Items(stmt_stack')
      /\ \A t \in Spans : owner'[t] \in {0, owner[t]}
  <2>1. CASE portals[p].failed
    <3>1. UNCHANGED <<stmt_stack, owner>>
      BY <1>1, <2>1
    <3>2. ASSUME NEW e \in Items(stmt_stack), e.key = -p, ~e.orphan
          PROVE  FALSE
      <4>1. e.key < 0 /\ -e.key = p
        BY <1>2, <3>2
      <4>2. LiveEntry(e)
        BY <3>2, EntryFacts
      <4> QED
        BY <2>1, <4>1, <4>2 DEF LiveEntry
    <3> QED
      BY <1>2, <3>1, <3>2
  <2>2. CASE ~portals[p].failed
    <3>1. /\ stmt_stack' = Popped(stmt_stack, -p)
          /\ \A t \in Spans : owner'[t] \in {0, owner[t]}
      BY <1>1, <1>2, <2>2, PopEffect
    <3>2. /\ Thins(Popped(stmt_stack, -p), stmt_stack)
          /\ OrphansBelow(Popped(stmt_stack, -p))
          /\ \A e \in Items(stmt_stack) :
               e.key # -p => e \in Items(Popped(stmt_stack, -p))
          /\ \A e \in Items(Popped(stmt_stack, -p)) : e.key = -p => e.orphan
      BY <1>2, PoppedFacts DEF Types
    <3> QED
      BY <3>1, <3>2 DEF Thins
  <2> QED
    BY <2>1, <2>2
<1>4. LiveEntries'
  <2> SUFFICES ASSUME NEW e \in Items(stmt_stack'), ~e.orphan
               PROVE  LiveEntry(e)'
    BY <1>3, EntryFacts DEF LiveEntries
  <2>1. /\ e \in StmtSpanEntry /\ e.key \in Int /\ LiveEntry(e)
        /\ e.key # -p
    BY <1>3, EntryFacts
  <2>2. e.key < 0 => portals'[-e.key] = portals[-e.key]
    <3>1. e.key < 0 => -e.key \in Portals
      BY <2>1, EntryFields, KeyFacts
    <3>2. -e.key # p
      BY <1>2, <2>1
    <3> QED
      BY <1>1, <3>1, <3>2
  <2>3. e.key > 0 => /\ e.key <= Depth'
                     /\ \A k \in 1..e.key : Alike(frames[k], frames'[k])
    BY <1>1, <2>1 DEF LiveEntry, Depth, Alike
  <2> QED
    BY <1>1, <1>2, <2>1, <2>2, <2>3, LiveStays
<1>5. RunningStatementsKeepEntry'
  <2> SUFFICES ASSUME NEW k \in 1..Depth, frames[k].span # 0,
                      owner'[frames[k].span] > 0
               PROVE  \E e \in Items(stmt_stack') :
                        e.key = k /\ e.ref = frames[k].span
    BY <1>1 DEF RunningStatementsKeepEntry, Depth
  <2>1. frames[k].span \in Spans
    BY <1>2, FrameFields
  <2>2. owner[frames[k].span] > 0
    BY <1>3, <2>1
  <2>3. PICK e \in Items(stmt_stack) : e.key = k /\ e.ref = frames[k].span
    BY <2>2 DEF StmtInv, RunningStatementsKeepEntry
  <2>4. e.key # -p
    BY <1>2, <2>3
  <2> QED
    BY <1>3, <2>3, <2>4
<1> QED
  BY <1>3, <1>4, <1>5 DEF EntriesInv

(***************************************************************************)
(* Types.                                                                  *)
(***************************************************************************)

LEMMA PeekType ==
    ASSUME StmtInv, NEW p
    PROVE  peek_cursor_span(p) \in Spans \union {0}
  BY PoppedFacts DEF peek_cursor_span, StmtInv, Types

LEMMA ExecFrameType ==
    /\ ExecFrame \in Frame
    /\ ExecFrame.kind = "exec" /\ ExecFrame.span = 0
    /\ \A s \in Spans \union {0} : [ExecFrame EXCEPT !.span = s] \in Frame
    /\ \A p \in Portals, a \in Spans \union {0} :
         [ExecFrame EXCEPT !.kind = "run", !.name = p, !.act = a] \in Frame
  BY DEF ExecFrame, Frame

LEMMA HookTypes ==
    ASSUME StmtInv, NEW c, NEW s \in Startable,
           \/ ExecutorStart(c, s)
           \/ \E d \in Portals \union {0} : ProcessUtility(c, s, d)
           \/ \E p \in Portals, d \in BOOLEAN : PortalStart(p, c, s, d)
    PROVE  Types'
<1> USE DEF coreVars
<1>0. Types /\ Depth \in Nat
  BY DEF StmtInv, Types, Depth
<1>1. s \in Spans \union {0}
  BY DEF Startable, Unused
<1>d. disturbed' \in BOOLEAN
  BY DEF ExecutorStart, ProcessUtility, PortalStart, Disturbs
<1>2. CASE ExecutorStart(c, s)
  <2>1. /\ level > 0 /\ Depth < MAX_FRAMES
        /\ StartAndPush(Depth + 1, c, s, is_declaring_cursor(ActivePortal))
        /\ frames' = Append(frames, [ExecFrame EXCEPT !.span = s])
        /\ UNCHANGED <<declaring, trace_all, coreVars, portals>>
    BY <1>2 DEF ExecutorStart
  <2>2. Depth + 1 \in Key /\ is_declaring_cursor(ActivePortal) \in BOOLEAN
    BY <1>0, <2>1, TracingAssumption DEF Key, is_declaring_cursor
  <2>3. frames' \in Seq(Frame)
    BY <1>0, <1>1, <2>1, ExecFrameType, PushedFrame
  <2>4. PICK detached \in BOOLEAN : StartAndPush(Depth + 1, c, s, detached)
    BY <2>1, <2>2
  <2>5. /\ leader' \in Spans \union {0}
        /\ stmt_stack' \in Seq(StmtSpanEntry)
        /\ Len(stmt_stack') <= OTEL_STMT_STACK_MAX
        /\ owner' \in [Spans -> 0..MAX_LEVEL]
        /\ active' \in Seq(ActiveEntry)
    BY <1>0, <2>1, <2>2, <2>4, StartEffect
  <2> QED
    BY <1>0, <1>d, <2>1, <2>3, <2>5 DEF Types
<1>3. ASSUME NEW d \in Portals \union {0}, ProcessUtility(c, s, d)
      PROVE  Types'
  <2>1. /\ level > 0 /\ Depth < MAX_FRAMES
        /\ frames' = Append(frames, [kind |-> "util", span |-> s,
                                     toplevel |-> (Depth = 0), name |-> d,
                                     saved |-> declaring, act |-> 0])
        /\ declaring' = IF d # 0 THEN d ELSE declaring
        /\ IF Depth = 0 THEN StartAndPush(1, c, s, FALSE)
           ELSE UNCHANGED spanVars
        /\ UNCHANGED <<trace_all, coreVars, portals>>
    BY <1>3 DEF ProcessUtility
  <2>2. frames' \in Seq(Frame)
    <3>1. [kind |-> "util", span |-> s, toplevel |-> (Depth = 0), name |-> d,
           saved |-> declaring, act |-> 0] \in Frame
      BY <1>0, <1>1 DEF Frame, Types
    <3> QED
      BY <1>0, <2>1, <3>1, PushedFrame
  <2>3. declaring' \in Portals \union {0}
    BY <1>0, <2>1 DEF Types
  <2>4. CASE Depth = 0
    <3>1. 1 \in Key
      BY TracingAssumption DEF Key
    <3> QED
      BY <1>0, <1>d, <2>1, <2>2, <2>3, <2>4, <3>1, StartEffect DEF Types
  <2>5. CASE Depth # 0
    BY <1>0, <1>d, <2>1, <2>2, <2>3, <2>5 DEF Types, spanVars
  <2> QED
    BY <2>4, <2>5
<1>4. ASSUME NEW p \in Portals, NEW d \in BOOLEAN, PortalStart(p, c, s, d)
      PROVE  Types'
  <2>0. PICK t \in BOOLEAN : t = (~d /\ \E f \in Items(frames) : Declares(f, p))
    OBVIOUS
  <2>1. /\ level > 0
        /\ StartAndPush(-p, c, s, is_declaring_cursor(p))
        /\ portals' = [portals EXCEPT ![p] =
                         [lev |-> level, span |-> s, failed |-> FALSE,
                          declared |-> d, taken |-> t]]
        /\ frames' = Append(frames, [ExecFrame EXCEPT !.kind = "start", !.name = p])
        /\ UNCHANGED <<declaring, trace_all, coreVars>>
    BY <1>4, <2>0 DEF PortalStart
  <2>2. -p \in Key /\ is_declaring_cursor(p) \in BOOLEAN
    BY DEF Key, is_declaring_cursor
  <2>3. [lev |-> level, span |-> s, failed |-> FALSE,
         declared |-> d, taken |-> t] \in Portal
    BY <1>0, <1>1 DEF Portal, Types
  <2>6. frames' \in Seq(Frame)
    <3>1. PICK f : f = [ExecFrame EXCEPT !.kind = "start", !.name = p]
      OBVIOUS
    <3>2. [ExecFrame EXCEPT !.kind = "start", !.name = p] \in Frame
      BY DEF ExecFrame, Frame
    <3>3. f \in Frame /\ frames' = Append(frames, f)
      BY <2>1, <3>1, <3>2
    <3> QED
      BY <1>0, <3>3, PushedFrame
  <2>4. portals' \in [Portals -> Portal]
    BY <1>0, <2>1, <2>3 DEF Types
  <2>5. /\ leader' \in Spans \union {0}
        /\ stmt_stack' \in Seq(StmtSpanEntry)
        /\ Len(stmt_stack') <= OTEL_STMT_STACK_MAX
        /\ owner' \in [Spans -> 0..MAX_LEVEL]
        /\ active' \in Seq(ActiveEntry)
    BY <1>0, <2>1, <2>2, StartEffect
  <2> QED
    BY <1>0, <1>d, <2>1, <2>4, <2>5, <2>6 DEF Types
<1> QED
  BY <1>2, <1>3, <1>4

LEMMA ReturnTypes ==
    ASSUME StmtInv,
           \/ ExecutorEnd \/ ProcessUtilityReturns \/ ExecutorRunReturns
           \/ OtherPortalStart \/ PortalStartReturns
           \/ QueryRun \/ QueryRunReturns
           \/ \E p \in Portals : PortalEnd(p) \/ ExecutorRun(p)
    PROVE  Types'
<1> USE DEF coreVars
<1>0. Types /\ OrphansBelow(stmt_stack)
  BY DEF StmtInv
<1>1. ASSUME MayReturn, frames' = Front(frames)
      PROVE  frames' \in Seq(Frame) /\ Last(frames).saved \in Portals \union {0}
  <2>1. Depth > 0
    <3>1. Base \in 0..Depth /\ Depth > Base /\ Depth \in Nat
      BY <1>1, BaseFacts DEF StmtInv, MayReturn, Base, Types, Depth
    <3> QED
      BY <3>1
  <2>2. frames' \in Seq(Frame) /\ Last(frames) \in Frame
    BY <1>0, <1>1, <2>1, PoppedFrame
  <2> QED
    BY <2>2 DEF Frame
<1>2. CASE ExecutorEnd
  BY <1>0, <1>1, <1>2, PopEffect DEF ExecutorEnd, Types
<1>3. CASE ProcessUtilityReturns
  <2>1. /\ frames' \in Seq(Frame) /\ declaring' \in Portals \union {0}
        /\ UNCHANGED <<trace_all, coreVars, portals, disturbed>>
    BY <1>1, <1>3 DEF ProcessUtilityReturns
  <2>2. CASE Last(frames).toplevel
    <3>1. PopAndFinalize(Depth, 0)
      BY <1>3, <2>2 DEF ProcessUtilityReturns
    <3> QED
      BY <1>0, <2>1, <3>1, PopEffect DEF Types
  <2>3. CASE ~Last(frames).toplevel
    BY <1>0, <1>3, <2>1, <2>3 DEF ProcessUtilityReturns, Types, spanVars
  <2> QED
    BY <2>2, <2>3
<1>4. CASE ExecutorRunReturns
  <2>1. frames' \in Seq(Frame)
    BY <1>1, <1>4 DEF ExecutorRunReturns
  <2>2. Deactivated(Last(frames).act)
    BY <1>4 DEF ExecutorRunReturns
  <2>3. active' \in Seq(ActiveEntry)
    BY <1>0, <2>2, CutType DEF Deactivated, Types
  <2>4. owner' \in [Spans -> 0..MAX_LEVEL]
    BY <1>0, <2>2, EndSpansFacts DEF Deactivated, Types
  <2> QED
    BY <1>0, <1>4, <2>1, <2>3, <2>4 DEF ExecutorRunReturns, Types
<1>5. ASSUME NEW p \in Portals, PortalEnd(p)
      PROVE  Types'
  <2>1. portals' \in [Portals -> Portal]
    <3>1. NoPortal \in Portal
      BY TracingAssumption DEF NoPortal, Portal
    <3> QED
      BY <1>0, <1>5, <3>1 DEF PortalEnd, Types
  <2>2. CASE portals[p].failed
    BY <1>0, <1>5, <2>1, <2>2 DEF PortalEnd, Types, spanVars
  <2>3. CASE ~portals[p].failed
    BY <1>0, <1>5, <2>1, <2>3, PopEffect DEF PortalEnd, Types
  <2> QED
    BY <2>2, <2>3
<1>6. ASSUME NEW p \in Portals, ExecutorRun(p)
      PROVE  Types'
  <2>1. PICK a : /\ a = 0 \/ a = peek_cursor_span(-p)
                 /\ frames' = Append(frames, [ExecFrame EXCEPT
                                !.kind = "run", !.name = p, !.act = a])
                 /\ active' = IF a = 0 THEN active
                       ELSE Append(active, [span |-> a, lev |-> level,
                                            is_activation |-> TRUE])
    BY <1>6 DEF ExecutorRun, Activation
  <2>2. a \in Spans \union {0}
    BY <2>1, PeekType
  <2>3. frames' \in Seq(Frame)
    BY <1>0, <2>1, <2>2, ExecFrameType, PushedFrame
  <2>4. a # 0 => [span |-> a, lev |-> level, is_activation |-> TRUE]
                   \in ActiveEntry
    BY <1>0, <2>2 DEF ActiveEntry, Types
  <2>5. active' \in Seq(ActiveEntry)
    BY <1>0, <2>1, <2>4, PushFacts DEF Types
  <2> QED
    BY <1>0, <1>6, <2>3, <2>5 DEF ExecutorRun, Types
<1>7. CASE OtherPortalStart
  <2>1. PICK f : f \in Frame /\ frames' = Append(frames, f)
    <3>1. [ExecFrame EXCEPT !.kind = "start"] \in Frame
      BY DEF ExecFrame, Frame
    <3> QED
      BY <1>7, <3>1 DEF OtherPortalStart
  <2>2. frames' \in Seq(Frame)
    BY <1>0, <2>1, PushedFrame
  <2> QED
    BY <1>0, <1>7, <2>2 DEF OtherPortalStart, Types, spanVars
<1>8. CASE PortalStartReturns
  <2>1. frames' \in Seq(Frame)
    BY <1>1, <1>8 DEF PortalStartReturns
  <2> QED
    BY <1>0, <1>8, <2>1 DEF PortalStartReturns, Types, spanVars
<1>9. ASSUME MayReturn
      PROVE  Depth > 0
  <2>1. Base \in 0..Depth /\ Depth > Base /\ Depth \in Nat
    BY <1>9, BaseFacts DEF StmtInv, MayReturn, Base, Types, Depth
  <2> QED
    BY <2>1
<1>10. CASE QueryRun
  <2>1. PICK a : /\ a = peek_cursor_span(Depth)
                 /\ frames' = [frames EXCEPT ![Depth].act = a]
                 /\ active' = Append(active, [span |-> a, lev |-> level,
                                              is_activation |-> TRUE])
                 /\ a # 0
    BY <1>10 DEF QueryRun, Activation, Activatable
  <2>2. a \in Spans
    BY <2>1, PeekType
  <2>3. frames' \in Seq(Frame)
    BY <1>0, <1>9, <1>10, <2>1, <2>2, ActChanges DEF QueryRun
  <2>4. [span |-> a, lev |-> level, is_activation |-> TRUE] \in ActiveEntry
    BY <1>0, <2>2 DEF ActiveEntry, Types
  <2>5. active' \in Seq(ActiveEntry)
    BY <1>0, <2>1, <2>4, PushFacts DEF Types
  <2> QED
    BY <1>0, <1>10, <2>3, <2>5 DEF QueryRun, Types
<1>11. CASE QueryRunReturns
  <2>1. /\ MayReturn /\ Deactivated(Last(frames).act)
        /\ frames' = [frames EXCEPT ![Depth].act = 0]
    BY <1>11 DEF QueryRunReturns
  <2>2. frames' \in Seq(Frame)
    BY <1>0, <1>9, <2>1, ActChanges
  <2>3. active' \in Seq(ActiveEntry)
    BY <1>0, <2>1, CutType DEF Deactivated, Types
  <2>4. owner' \in [Spans -> 0..MAX_LEVEL]
    BY <1>0, <2>1, EndSpansFacts DEF Deactivated, Types
  <2> QED
    BY <1>0, <1>11, <2>2, <2>3, <2>4 DEF QueryRunReturns, Types
<1> QED
  BY <1>2, <1>3, <1>4, <1>5, <1>6, <1>7, <1>8, <1>10, <1>11

LEMMA ErrorTypes ==
    ASSUME StmtInv, Error
    PROVE  Types'
<1>0. Types /\ BasesFit /\ OrphansBelow(stmt_stack)
  BY DEF StmtInv
<1>1. /\ declaring' = DeclaringAfter(Base)
      /\ frames' = Prefix(frames, Base)
      /\ failed' \in BOOLEAN
      /\ level > 0 /\ level' = IF Base = 0 THEN level ELSE level - 1
      /\ bases' = IF Base = 0 THEN bases ELSE Front(bases)
      /\ disturbed' = TRUE
      /\ UNCHANGED <<trace_all, leader>>
  BY DEF Error, Base
<1>2. Base \in 0..Depth /\ (Base # 0 => level > 1 /\ Len(bases) = level - 1)
  BY <1>0, BaseFacts DEF Base
<1>3. frames' \in Seq(Frame)
  BY <1>0, <1>1, <1>2, PrefixFacts DEF Types, Depth
<1>4. level' \in 0..MAX_LEVEL
  BY <1>0, <1>1, <1>2, TracingAssumption DEF Types
<1>5. bases' \in Seq(0..MAX_FRAMES)
  <2>1. CASE Base = 0
    BY <1>0, <1>1, <2>1 DEF Types
  <2>2. CASE Base # 0
    <3>1. bases # <<>>
      BY <1>0, <1>2, <2>2 DEF Types
    <3> QED
      BY <1>0, <1>1, <2>2, <3>1, PopFacts DEF Types
  <2> QED
    BY <2>1, <2>2
<1>6. declaring' \in Portals \union {0}
  <2> DEFINE U == Unwound(Base, "util")
             k == CHOOSE k \in U : \A j \in U : k <= j
  <2>1. CASE U = {}
    BY <1>0, <1>1, <2>1 DEF DeclaringAfter, Types
  <2>2. CASE U # {}
    <3>1. U \in SUBSET Nat /\ U \subseteq 1..Depth
      BY <1>0, <1>2 DEF Unwound, Types, Depth
    <3>2. k \in U
      BY <2>2, <3>1, LeastNat
    <3>3. declaring' = frames[k].saved
      BY <1>1, <2>2 DEF DeclaringAfter
    <3> HIDE DEF k, U
    <3> QED
      BY <1>0, <3>1, <3>2, <3>3, FrameFields
  <2> QED
    BY <2>1, <2>2
<1>7. /\ owner' \in [Spans -> 0..MAX_LEVEL]
      /\ active' \in Seq(ActiveEntry)
      /\ portals' \in [Portals -> Portal]
      /\ \E kept, F : ErrorLeaves(kept, F)
  BY <1>0, ErrorEffect
<1>8. /\ stmt_stack' \in Seq(StmtSpanEntry)
      /\ Len(stmt_stack') <= OTEL_STMT_STACK_MAX
  <2>1. PICK kept, F : ErrorLeaves(kept, F)
    BY <1>7
  <2>2. /\ kept \in Seq(StmtSpanEntry) /\ Len(kept) <= Len(stmt_stack)
        /\ stmt_stack' = Survivors(kept, F)
    BY <2>1 DEF ErrorLeaves, Thins
  <2>3. stmt_stack' \in Seq(StmtSpanEntry) /\ Len(stmt_stack') = Len(kept)
    BY <2>2, SurvivorFacts
  <2>4. Len(kept) \in Nat /\ Len(stmt_stack) \in Nat
    BY <1>0, <2>2 DEF Types
  <2> QED
    BY <1>0, <2>2, <2>3, <2>4, TracingAssumption DEF Types
<1> QED
  BY <1>0, <1>1, <1>3, <1>4, <1>5, <1>6, <1>7, <1>8 DEF Types

(* Emptying the bookkeeping stack.                                         *)
LEMMA KeptTypes ==
    ASSUME Types, NEW lev
    PROVE  /\ KeptEntries(stmt_stack, lev) \in Seq(StmtSpanEntry)
           /\ Len(KeptEntries(stmt_stack, lev)) <= OTEL_STMT_STACK_MAX
<1> DEFINE t == KeptEntries(stmt_stack, lev)
<1>1. t \in Seq(StmtSpanEntry) /\ Len(t) <= Len(stmt_stack)
  BY KeepItems DEF KeptEntries, Types
<1> HIDE DEF t
<1>2. Len(t) \in Nat /\ Len(stmt_stack) \in Nat
  BY <1>1 DEF Types
<1>3. Len(t) <= OTEL_STMT_STACK_MAX
  BY <1>1, <1>2, TracingAssumption DEF Types
<1> QED
  BY <1>1, <1>3 DEF t

LEMMA XactTypes ==
    ASSUME StmtInv,
           \/ BeginXact \/ BeginSub \/ CommitSub \/ CommitXact
           \/ RollbackTo \/ Rollback \/ InnerCommit \/ InnerRollback
           \/ MessageM \/ ReadyForQuery \/ UNCHANGED vars
    PROVE  Types'
<1> USE DEF coreVars, spanVars
<1>0. Types /\ level \in Nat /\ MAX_LEVEL \in Nat /\ MAX_LEVEL > 0
      /\ [s \in Spans |-> 0] \in [Spans -> 0..MAX_LEVEL]
      /\ <<>> \in Seq(ActiveEntry) /\ <<>> \in Seq(0..MAX_FRAMES)
  BY TracingAssumption DEF StmtInv, Types
<1>1. CASE BeginXact
  BY <1>0, <1>1 DEF BeginXact, Types
<1>2. CASE BeginSub
  <2>1. Depth \in 0..MAX_FRAMES
    BY <1>0, TracingAssumption DEF StmtInv, BasesFit, Depth, Types
  <2>2. bases' \in Seq(0..MAX_FRAMES)
    BY <1>0, <1>2, <2>1, PushFacts DEF BeginSub, Types
  <2> QED
    BY <1>0, <1>2, <2>2 DEF BeginSub, Types
<1>3. CASE CommitSub
  <2>1. bases' \in Seq(0..MAX_FRAMES)
    <3>1. Len(bases) = level - 1 /\ level > 1
      BY <1>0, <1>3 DEF StmtInv, BasesFit, CommitSub
    <3>2. bases # <<>>
      BY <1>0, <3>1 DEF Types
    <3> QED
      BY <1>0, <1>3, <3>2, PopFacts DEF CommitSub, Types
  <2>2. level > 1 /\ level - 1 \in 0..MAX_LEVEL /\ level' = level - 1
    BY <1>0, <1>3 DEF CommitSub, Types
  <2>3. portals' \in [Portals -> Portal]
    <3>1. \A p \in Portals : /\ portals[p] \in Portal
                             /\ [portals[p] EXCEPT !.lev = level - 1] \in Portal
      BY <1>0, <2>2 DEF Types, Portal
    <3> QED
      BY <1>3, <3>1 DEF CommitSub
  <2>4. owner' \in [Spans -> 0..MAX_LEVEL]
    BY <1>0, <1>3, <2>2 DEF CommitSub, Types
  <2> QED
    BY <1>0, <1>3, <2>1, <2>2, <2>3, <2>4 DEF CommitSub, Types
<1>4. CASE CommitXact
  BY <1>0, <1>4 DEF CommitXact, Types
<1>5. CASE RollbackTo
  BY <1>0, <1>5 DEF RollbackTo, Types
<1>6. CASE Rollback
  <2>1. /\ Aborted(1, owner, active, {})
        /\ stmt_stack' = KeptEntries(stmt_stack, 1)
        /\ level' = 0 /\ bases' = <<>> /\ failed' = FALSE
        /\ UNCHANGED <<declaring, trace_all, frames, leader, disturbed>>
    BY <1>6 DEF Rollback
  <2>2. /\ owner' \in [Spans -> 0..MAX_LEVEL]
        /\ active' \in Seq(ActiveEntry)
        /\ portals' \in [Portals -> Portal]
    BY <1>0, <2>1, AbortEffect DEF Types
  <2>3. /\ stmt_stack' \in Seq(StmtSpanEntry)
        /\ Len(stmt_stack') <= OTEL_STMT_STACK_MAX
    BY <1>0, <2>1, KeptTypes
  <2>4. level' \in 0..MAX_LEVEL /\ failed' \in BOOLEAN
    <3>1. level' = 0
      BY <2>1
    <3>2. failed' = FALSE
      BY <2>1
    <3>3. level' \in 0..MAX_LEVEL
      BY <3>1, TracingAssumption
    <3>4. failed' \in BOOLEAN
      BY <3>2, Zenon
    <3> QED
      BY <3>3, <3>4
  <2>5. bases' \in Seq(0..MAX_FRAMES)
    BY <1>0, <2>1
  <2>6. /\ declaring' \in Portals \union {0} /\ leader' \in Spans \union {0}
        /\ trace_all' \in BOOLEAN /\ frames' \in Seq(Frame)
        /\ disturbed' \in BOOLEAN
    BY <1>0, <2>1 DEF Types
  <2> QED
    BY <2>2, <2>3, <2>4, <2>5, <2>6 DEF Types
<1>7. CASE InnerCommit
  BY <1>0, <1>7 DEF InnerCommit, Types
<1>8. CASE InnerRollback
  <2>1. Aborted(1, owner, active, {})
    BY <1>8 DEF InnerRollback
  <2>2. /\ owner' \in [Spans -> 0..MAX_LEVEL]
        /\ active' \in Seq(ActiveEntry)
        /\ portals' \in [Portals -> Portal]
    BY <1>0, <2>1, AbortEffect DEF Types
  <2> QED
    BY <1>0, <1>8, <2>2, KeptTypes DEF InnerRollback, Types
<1>9. CASE MessageM
  BY <1>0, <1>9 DEF MessageM, Types
<1>10. CASE ReadyForQuery
  <2>1. disturbed' \in BOOLEAN
    BY <1>10 DEF ReadyForQuery
  <2> QED
    BY <1>0, <1>10, <2>1 DEF ReadyForQuery, Types
<1>11. CASE UNCHANGED vars
  BY <1>0, <1>11 DEF vars, Types
<1> QED
  BY <1>1, <1>2, <1>3, <1>4, <1>5, <1>6, <1>7, <1>8, <1>9, <1>10, <1>11

(***************************************************************************)
(* Transactions and the entries.                                           *)
(***************************************************************************)

(* The calls in progress and what they have saved.                         *)
CallsInv == BasesFit /\ DeclaringChain /\ PlainFrames

LEMMA CallsStay ==
    ASSUME StmtInv, UNCHANGED <<frames, level, bases, declaring>>
    PROVE  CallsInv'
  BY DEF StmtInv, CallsInv, BasesFit, DeclaringChain, PlainFrames, Depth

LEMMA CallsAlike ==
    ASSUME StmtInv, UNCHANGED <<level, bases, declaring>>,
           Depth' = Depth, \A k \in 1..Depth : Alike(frames[k], frames'[k])
    PROVE  CallsInv'
<1>1. BasesFit'
  BY DEF StmtInv, BasesFit
<1>2. /\ Depth \in Nat
      /\ \A k \in 1..Depth : /\ frames[k].kind = frames'[k].kind
                             /\ frames[k].name = frames'[k].name
                             /\ frames[k].saved = frames'[k].saved
      /\ IsDeclaring(frames, Depth, declaring)
      /\ \A k \in 1..Depth : frames[k].kind = "util" =>
           IsDeclaring(frames, k - 1, frames[k].saved)
  BY LevelFacts DEF Alike, StmtInv, DeclaringChain
<1>3. DeclaringChain'
  <2>1. \A k \in 1..Depth : frames'[k].kind = "util" =>
           IsDeclaring(frames', k - 1, frames'[k].saved)
    BY <1>2, ChainBelow, ZenonT(30)
  <2>2. IsDeclaring(frames', Depth, declaring)
    BY <1>2, SameCalls
  <2> QED
    BY <2>1, <2>2 DEF DeclaringChain
<1>4. PlainFrames'
  BY DEF StmtInv, PlainFrames, Alike
<1> QED
  BY <1>1, <1>3, <1>4 DEF CallsInv

(* Nesting changes no call and no saved name.                              *)
LEMMA ChainStays ==
    ASSUME StmtInv, UNCHANGED <<frames, declaring>>
    PROVE  DeclaringChain' /\ PlainFrames'
  BY DEF StmtInv, DeclaringChain, PlainFrames, Depth

(* The same calls are in progress, the same spans open or fewer.           *)
LEMMA RunningStay ==
    ASSUME StmtInv, UNCHANGED <<frames, stmt_stack>>,
           \A t \in Spans : owner'[t] > 0 => owner[t] > 0
    PROVE  RunningStatementsKeepEntry'
<1> SUFFICES ASSUME NEW k \in 1..Depth, frames[k].span # 0,
                    owner'[frames[k].span] > 0
             PROVE  \E e \in Items(stmt_stack) :
                      e.key = k /\ e.ref = frames[k].span
  BY DEF RunningStatementsKeepEntry, Depth
<1>1. frames[k].span \in Spans
  BY FrameFields DEF StmtInv
<1>2. owner[frames[k].span] > 0
  BY <1>1
<1> QED
  BY <1>2 DEF StmtInv, RunningStatementsKeepEntry

LEMMA BeginXactInv ==
    ASSUME StmtInv, BeginXact
    PROVE  CallsInv' /\ EntriesInv'
<1>1. /\ level = 0 /\ level' = 1
      /\ UNCHANGED <<bases, declaring, frames, portals, stmt_stack, owner>>
  BY DEF BeginXact, spanVars
<1>2. Len(bases) = 0
  BY <1>1, LevelFacts
<1>3. BasesFit'
  BY <1>1, <1>2, LevelFacts DEF BasesFit, Depth
<1>4. LiveEntries'
  <2> SUFFICES ASSUME NEW e \in Items(stmt_stack), ~e.orphan
               PROVE  LiveEntry(e)'
    BY <1>1, EntryFacts DEF LiveEntries
  <2>1. e \in StmtSpanEntry /\ LiveEntry(e)
    BY EntryFacts
  <2>2. e.subxact_level \in 0..MAX_LEVEL
    BY <2>1, EntryFields
  <2>3. e.subxact_level <= 0 => e.subxact_level <= 1
    BY <2>2, TracingAssumption
  <2> QED
    BY <1>1, <2>1, <2>3 DEF LiveEntry, IsOpen, Depth
<1>5. RunningStatementsKeepEntry' /\ OrphansBelow(stmt_stack)'
  BY <1>1, RunningStay DEF StmtInv
<1> QED
  BY <1>1, <1>3, <1>4, <1>5, ChainStays DEF CallsInv, EntriesInv

LEMMA BeginSubInv ==
    ASSUME StmtInv, BeginSub
    PROVE  CallsInv' /\ EntriesInv'
<1>1. /\ level > 0 /\ level' = level + 1
      /\ bases' = Append(bases, Depth)
      /\ UNCHANGED <<declaring, frames, portals, stmt_stack, owner>>
  BY DEF BeginSub, spanVars
<1>2. /\ Len(bases) = level - 1 /\ level \in Nat /\ Depth \in Nat
      /\ Depth' = Depth /\ Depth <= MAX_FRAMES
  BY <1>1, LevelFacts, TracingAssumption DEF Depth
<1>3. /\ Len(bases') = level
      /\ \A j \in 1..(level - 1) : bases'[j] = bases[j]
      /\ bases'[level] = Depth
  <2>1. Depth \in 0..MAX_FRAMES
    BY LevelFacts
  <2> QED
    BY <1>1, <1>2, <2>1, PushFacts DEF StmtInv, Types
<1>4. BasesFit'
  <2>1. \A j \in 1..level : j \in 1..Len(bases) \/ j = level
    BY <1>2
  <2>2. \A j \in 1..level : bases'[j] <= Depth
    BY <1>2, <1>3, <2>1, LevelFacts
  <2>3. \A i, j \in 1..level : i <= j => bases'[i] <= bases'[j]
    <3> SUFFICES ASSUME NEW i \in 1..level, NEW j \in 1..level, i <= j
                 PROVE  bases'[i] <= bases'[j]
      OBVIOUS
    <3>1. CASE j = level
      BY <1>3, <2>2, <3>1
    <3>2. CASE j # level
      <4>1. i \in 1..Len(bases) /\ j \in 1..Len(bases)
        BY <1>2, <3>2
      <4>2. bases[i] <= bases[j]
        BY <4>1, LevelFacts
      <4> QED
        BY <1>2, <1>3, <4>1, <4>2
    <3> QED
      BY <3>1, <3>2
  <2>4. Len(bases') = IF level' > 0 THEN level' - 1 ELSE 0
    BY <1>1, <1>2, <1>3
  <2> QED
    BY <1>2, <1>3, <2>2, <2>3, <2>4 DEF BasesFit
<1>5. LiveEntries'
  <2> SUFFICES ASSUME NEW e \in Items(stmt_stack), ~e.orphan
               PROVE  LiveEntry(e)'
    BY <1>1, EntryFacts DEF LiveEntries
  <2>1. e \in StmtSpanEntry /\ LiveEntry(e)
    BY EntryFacts
  <2>2. e.subxact_level \in Nat
    BY <2>1, EntryFields, TracingAssumption
  <2>3. ASSUME e.key > 0
        PROVE  /\ e.key <= Depth' /\ frames'[e.key].span = e.ref
               /\ e.detached => Cursored(frames', e.key - 1)
               /\ e.subxact_level <= level'
               /\ \A j \in 1..Len(bases') :
                    e.key <= bases'[j] <=> e.subxact_level <= j
    <3>1. /\ e.key <= Depth /\ frames[e.key].span = e.ref
          /\ e.detached => Cursored(frames, e.key - 1)
          /\ e.subxact_level <= level
          /\ \A j \in 1..(level - 1) :
               e.key <= bases[j] <=> e.subxact_level <= j
      BY <1>2, <2>1, <2>3 DEF LiveEntry
    <3>2. \A j \in 1..level : e.key <= bases'[j] <=> e.subxact_level <= j
      <4> TAKE j \in 1..level
      <4>1. CASE j = level
        BY <1>3, <3>1, <4>1
      <4>2. CASE j # level
        <5>1. j \in 1..(level - 1)
          BY <1>2, <4>2
        <5> QED
          BY <1>3, <3>1, <5>1
      <4> QED
        BY <4>1, <4>2
    <3>3. e.subxact_level <= level'
      BY <1>1, <1>2, <2>2, <3>1
    <3> QED
      BY <1>1, <1>2, <1>3, <3>1, <3>2, <3>3
  <2>4. (e.key < 0 => /\ IsOpen(-e.key) /\ ~portals[-e.key].failed
                      /\ portals[-e.key].span = e.ref
                      /\ portals[-e.key].lev <= e.subxact_level
                      /\ portals[-e.key].declared => e.detached
                      /\ e.detached =>
                         portals[-e.key].declared \/ portals[-e.key].taken)'
    BY <1>1, <2>1 DEF LiveEntry, IsOpen
  <2> QED
    BY <2>3, <2>4 DEF LiveEntry
<1>6. RunningStatementsKeepEntry' /\ OrphansBelow(stmt_stack)'
  BY <1>1, RunningStay DEF StmtInv
<1> QED
  BY <1>1, <1>4, <1>5, <1>6, ChainStays DEF CallsInv, EntriesInv

(* A subtransaction's frame is left: the outer ones fit, and an entry of a *)
(* call below it has a lower level.                                        *)
LEMMA InnerBase ==
    ASSUME StmtInv, level > 1, bases' = Front(bases), level' = level - 1
    PROVE  /\ Len(bases') = level' - 1 /\ level' \in Nat /\ level' > 0
           /\ \A j \in 1..Len(bases') : j \in 1..Len(bases) /\ bases'[j] = bases[j]
           /\ Last(bases) = bases[level - 1] /\ level - 1 \in 1..Len(bases)
           /\ \A e \in Items(stmt_stack) :
                e.key > 0 /\ LiveEntry(e) =>
                  (e.key <= Last(bases) <=> e.subxact_level <= level')
<1>1. Len(bases) = level - 1 /\ level \in Nat
  BY LevelFacts
<1>2. bases # <<>>
  BY <1>1 DEF StmtInv, Types
<1>3. /\ Len(bases') = Len(bases) - 1
      /\ \A j \in 1..(Len(bases) - 1) : bases'[j] = bases[j]
  BY <1>2, PopFacts DEF StmtInv, Types
<1>4. Last(bases) = bases[level - 1] /\ level - 1 \in 1..Len(bases)
  BY <1>1 DEF Last
<1> QED
  BY <1>1, <1>3, <1>4 DEF LiveEntry

LEMMA CommitSubInv ==
    ASSUME StmtInv, CommitSub
    PROVE  CallsInv' /\ EntriesInv'
<1>1. /\ level > 1 /\ level' = level - 1
      /\ Depth = Last(bases) /\ bases' = Front(bases)
      /\ portals' = [p \in Portals |->
                     IF portals[p].lev = level
                     THEN [portals[p] EXCEPT !.lev = level - 1] ELSE portals[p]]
      /\ owner' = [s \in Spans |->
                     IF owner[s] = level THEN level - 1 ELSE owner[s]]
      /\ UNCHANGED <<declaring, frames, stmt_stack>>
  BY DEF CommitSub
<1>2. /\ Len(bases') = level' - 1 /\ level' \in Nat /\ level' > 0
      /\ \A j \in 1..Len(bases') : j \in 1..Len(bases) /\ bases'[j] = bases[j]
      /\ \A e \in Items(stmt_stack) :
           e.key > 0 /\ LiveEntry(e) =>
             (e.key <= Last(bases) <=> e.subxact_level <= level')
  BY <1>1, InnerBase
<1>3. Depth' = Depth /\ Depth <= MAX_FRAMES /\ level \in Nat
  BY <1>1, LevelFacts, TracingAssumption DEF Depth
<1>4. BasesFit'
  BY <1>2, <1>3, LevelFacts DEF BasesFit
<1>5. ASSUME NEW p \in Portals
      PROVE  /\ portals'[p].lev = IF portals[p].lev = level THEN level'
                                  ELSE portals[p].lev
             /\ portals'[p].span = portals[p].span
             /\ portals'[p].declared = portals[p].declared
             /\ portals'[p].taken = portals[p].taken
             /\ portals'[p].failed = portals[p].failed
  BY <1>1, PortalFields DEF StmtInv, Portal
<1>6. LiveEntries'
  <2> SUFFICES ASSUME NEW e \in Items(stmt_stack), ~e.orphan
               PROVE  LiveEntry(e)'
    BY <1>1, EntryFacts DEF LiveEntries
  <2>1. e \in StmtSpanEntry /\ LiveEntry(e)
    BY EntryFacts
  <2>2. e.subxact_level \in Nat
    BY <2>1, EntryFields, TracingAssumption
  <2>3. ASSUME e.key > 0
        PROVE  /\ e.key <= Depth' /\ frames'[e.key].span = e.ref
               /\ e.detached => Cursored(frames', e.key - 1)
               /\ e.subxact_level <= level'
               /\ \A j \in 1..Len(bases') :
                    e.key <= bases'[j] <=> e.subxact_level <= j
    <3>1. /\ e.key <= Depth /\ frames[e.key].span = e.ref
          /\ e.detached => Cursored(frames, e.key - 1)
          /\ \A j \in 1..Len(bases) :
               e.key <= bases[j] <=> e.subxact_level <= j
      BY <2>1, <2>3 DEF LiveEntry
    <3>2. e.subxact_level <= level'
      BY <1>1, <1>2, <2>1, <2>3, <3>1
    <3> QED
      BY <1>1, <1>2, <1>3, <3>1, <3>2
  <2>4. ASSUME e.key < 0
        PROVE  /\ portals'[-e.key].lev > 0 /\ ~portals'[-e.key].failed
               /\ portals'[-e.key].span = e.ref
               /\ portals'[-e.key].lev <= e.subxact_level
               /\ portals'[-e.key].declared => e.detached
               /\ e.detached =>
                    portals'[-e.key].declared \/ portals'[-e.key].taken
    <3>1. -e.key \in Portals
      BY <2>1, <2>4, EntryFields, KeyFacts
    <3>2. /\ portals[-e.key].lev > 0 /\ ~portals[-e.key].failed
          /\ portals[-e.key].span = e.ref
          /\ portals[-e.key].lev <= e.subxact_level
          /\ portals[-e.key].declared => e.detached
          /\ e.detached =>
               portals[-e.key].declared \/ portals[-e.key].taken
      BY <2>1, <2>4 DEF LiveEntry, IsOpen
    <3>3. /\ portals'[-e.key].lev = IF portals[-e.key].lev = level THEN level'
                                    ELSE portals[-e.key].lev
          /\ portals'[-e.key].span = portals[-e.key].span
          /\ portals'[-e.key].declared = portals[-e.key].declared
          /\ portals'[-e.key].taken = portals[-e.key].taken
          /\ portals'[-e.key].failed = portals[-e.key].failed
      BY <1>5, <3>1
    <3>4. portals'[-e.key].lev > 0 /\ portals'[-e.key].lev <= e.subxact_level
      BY <1>1, <1>2, <1>3, <2>2, <3>2, <3>3
    <3> QED
      BY <3>2, <3>3, <3>4
  <2> QED
    BY <2>3, <2>4 DEF LiveEntry, IsOpen
<1>7. RunningStatementsKeepEntry' /\ OrphansBelow(stmt_stack)'
  <2>1. \A t \in Spans : owner'[t] > 0 => owner[t] > 0
    BY <1>1, <1>3
  <2> QED
    BY <1>1, <2>1, RunningStay DEF StmtInv
<1> QED
  BY <1>1, <1>4, <1>6, <1>7, ChainStays DEF CallsInv, EntriesInv

LEMMA CommitXactInv ==
    ASSUME StmtInv, CommitXact
    PROVE  CallsInv' /\ EntriesInv'
<1>1. /\ level = 1 /\ level' = 0 /\ Depth = 0
      /\ \A p \in Portals : ~IsOpen(p)
      /\ owner' = [s \in Spans |-> 0]
      /\ UNCHANGED <<declaring, bases, frames, portals, stmt_stack>>
  BY DEF CommitXact
<1>2. Len(bases) = 0 /\ Depth' = Depth
  BY <1>1, LevelFacts DEF Depth
<1>3. BasesFit'
  BY <1>1, <1>2, LevelFacts DEF BasesFit
<1>4. LiveEntries'
  <2> SUFFICES ASSUME NEW e \in Items(stmt_stack), ~e.orphan
               PROVE  FALSE
    BY <1>1, EntryFacts DEF LiveEntries
  <2>1. e \in StmtSpanEntry /\ LiveEntry(e) /\ e.key \in Int /\ e.key # 0
    BY EntryFacts
  <2>2. CASE e.key > 0
    BY <1>1, <2>1, <2>2 DEF LiveEntry
  <2>3. CASE e.key < 0
    <3>1. -e.key \in Portals
      BY <2>1, <2>3, EntryFields, KeyFacts
    <3> QED
      BY <1>1, <2>1, <2>3, <3>1 DEF LiveEntry
  <2> QED
    BY <2>1, <2>2, <2>3
<1>5. RunningStatementsKeepEntry' /\ OrphansBelow(stmt_stack)'
  <2>1. \A t \in Spans : owner'[t] > 0 => owner[t] > 0
    BY <1>1
  <2> QED
    BY <1>1, <2>1, RunningStay DEF StmtInv
<1> QED
  BY <1>1, <1>3, <1>4, <1>5, ChainStays DEF CallsInv, EntriesInv

LEMMA RollbackInv ==
    ASSUME StmtInv, Rollback \/ InnerRollback
    PROVE  CallsInv' /\ EntriesInv'
<1>1. /\ Aborted(1, owner, active, {})
      /\ stmt_stack' = KeptEntries(stmt_stack, 1)
      /\ UNCHANGED <<declaring, frames>>
  BY DEF Rollback, InnerRollback
<1>2. Types'
  BY XactTypes
<1>3. \A t \in Spans : owner'[t] = 0
  <2>0. /\ Types /\ 1 \in Nat
        /\ owner \in [Spans -> 0..MAX_LEVEL] /\ active \in Seq(ActiveEntry)
    BY DEF StmtInv, Types
  <2>1. \A t \in Spans : owner'[t] = IF owner[t] >= 1 THEN 0 ELSE owner[t]
    BY <1>1, <2>0 DEF Aborted
  <2>2. \A t \in Spans : owner[t] \in 0..MAX_LEVEL
    BY DEF StmtInv, Types
  <2> QED
    BY <2>1, <2>2, TracingAssumption
<1>4. EntriesInv'
  BY <1>1, <1>2, <1>3, EntriesGo DEF StmtInv
<1>5. BasesFit'
  <2>1. CASE Rollback
    <3>1. level' = 0 /\ bases' = <<>> /\ Depth' = Depth
      BY <1>1, <2>1 DEF Rollback, Depth
    <3> QED
      BY <3>1, LevelFacts DEF BasesFit
  <2>2. CASE InnerRollback
    BY <2>2, CallsStay DEF InnerRollback, coreVars, CallsInv
  <2> QED
    BY <2>1, <2>2
<1> QED
  BY <1>1, <1>4, <1>5, ChainStays DEF CallsInv

(***************************************************************************)
(* An ERROR.                                                               *)
(***************************************************************************)

(* Calls that do not declare may return.                                   *)
LEMMA UndeclaringSuffix ==
    ASSUME NEW f, NEW n \in Nat, NEW m \in Nat, n <= m, NEW d,
           IsDeclaring(f, m, d), \A k \in (n + 1)..m : ~IsDeclare(f[k])
    PROVE  IsDeclaring(f, n, d)
<1>1. CASE d = 0 /\ \A k \in 1..m : ~IsDeclare(f[k])
  <2>1. \A k \in 1..n : ~IsDeclare(f[k])
    BY <1>1
  <2> QED
    BY <1>1, <2>1 DEF IsDeclaring
<1>2. CASE ~(d = 0 /\ \A k \in 1..m : ~IsDeclare(f[k]))
  <2>1. PICK k \in 1..m : /\ IsDeclare(f[k]) /\ f[k].name = d
                          /\ \A j \in (k + 1)..m : ~IsDeclare(f[j])
    BY <1>2 DEF IsDeclaring
  <2>2. k \in 1..n
    <3>1. ~(k \in (n + 1)..m)
      BY <2>1
    <3> QED
      BY <3>1
  <2>3. \A j \in (k + 1)..n : ~IsDeclare(f[j])
    BY <2>1
  <2> QED
    BY <2>1, <2>2, <2>3 DEF IsDeclaring
<1> QED
  BY <1>1, <1>2

(* The restores of the calls on the way add up to the outermost one's.     *)
LEMMA ErrorChain ==
    ASSUME StmtInv, frames' = Prefix(frames, Base),
           declaring' = DeclaringAfter(Base)
    PROVE  /\ Depth' = Base /\ \A k \in 1..Base : frames'[k] = frames[k]
           /\ DeclaringChain' /\ PlainFrames'
<1>1. Types /\ Base \in 0..Depth /\ Base \in Nat /\ Depth \in Nat /\ Base <= Depth
  BY BaseFacts, LevelFacts DEF StmtInv
<1>2. Depth' = Base /\ \A k \in 1..Base : frames'[k] = frames[k]
  BY <1>1, PrefixFacts DEF Types, Depth
<1>3. /\ IsDeclaring(frames, Depth, declaring)
      /\ \A k \in 1..Depth : frames[k].kind = "util" =>
           IsDeclaring(frames, k - 1, frames[k].saved)
  BY DEF StmtInv, DeclaringChain
<1> HIDE DEF Base, Depth
<1>4. IsDeclaring(frames, Base, declaring')
  <2> DEFINE U == Unwound(Base, "util")
             n == CHOOSE k \in U : \A j \in U : k <= j
  <2>1. U \in SUBSET Nat
    BY <1>1 DEF Unwound
  <2>2. CASE U = {}
    <3>1. declaring' = declaring
      BY <2>2 DEF DeclaringAfter
    <3>2. \A k \in (Base + 1)..Depth : ~IsDeclare(frames[k])
      BY <2>2 DEF Unwound, IsDeclare
    <3> QED
      BY <1>1, <1>3, <3>1, <3>2, UndeclaringSuffix
  <2>3. CASE U # {}
    <3>1. n \in U /\ \A j \in U : n <= j
      BY <2>1, <2>3, LeastNat
    <3>2. declaring' = frames[n].saved
      BY <2>3 DEF DeclaringAfter
    <3> HIDE DEF n
    <3>3. /\ n \in (Base + 1)..Depth /\ frames[n].kind = "util"
          /\ \A j \in (Base + 1)..(n - 1) : frames[j].kind # "util"
      <4>1. n \in (Base + 1)..Depth /\ frames[n].kind = "util"
        BY <3>1 DEF Unwound
      <4>2. ASSUME NEW j \in (Base + 1)..(n - 1)
            PROVE  frames[j].kind # "util"
        <5>1. j \in (Base + 1)..Depth /\ ~(n <= j)
          BY <1>1, <4>1
        <5> QED
          BY <3>1, <5>1 DEF Unwound
      <4> QED
        BY <4>1, <4>2
    <3>4. IsDeclaring(frames, n - 1, declaring')
      <4>1. n \in 1..Depth
        BY <1>1, <3>3
      <4> QED
        BY <1>3, <3>2, <3>3, <4>1
    <3>5. n - 1 \in Nat /\ Base <= n - 1
      BY <1>1, <3>3
    <3>6. \A k \in (Base + 1)..(n - 1) : ~IsDeclare(frames[k])
      BY <3>3 DEF IsDeclare
    <3> QED
      BY <1>1, <3>4, <3>5, <3>6, UndeclaringSuffix
  <2> QED
    BY <2>2, <2>3
<1>5. IsDeclaring(frames', Base, declaring')
  <2>1. Base \in Base..(Base + 1) /\ Base # Base + 1
    BY <1>1
  <2> QED
    BY <1>1, <1>2, <1>4, <2>1, SameDeclaring
<1>6. \A k \in 1..Base : frames'[k].kind = "util" =>
         IsDeclaring(frames', k - 1, frames'[k].saved)
  <2>1. \A k \in 1..Base : frames[k].kind = "util" =>
           IsDeclaring(frames, k - 1, frames[k].saved)
    BY <1>1, <1>3
  <2> QED
    BY <1>1, <1>2, <2>1, ChainBelow
<1>7. PlainFrames'
  BY <1>1, <1>2 DEF StmtInv, PlainFrames
<1> QED
  BY <1>2, <1>5, <1>6, <1>7 DEF DeclaringChain

LEMMA ErrorInv ==
    ASSUME StmtInv, Error
    PROVE  CallsInv' /\ EntriesInv'
<1>1. /\ declaring' = DeclaringAfter(Base)
      /\ frames' = Prefix(frames, Base)
      /\ level > 0 /\ level' = IF Base = 0 THEN level ELSE level - 1
      /\ bases' = IF Base = 0 THEN bases ELSE Front(bases)
  BY DEF Error, Base
<1>2. /\ Types /\ Base \in 0..Depth /\ level \in Nat /\ Depth \in Nat
      /\ Base \in Nat
      /\ \A j \in 1..Len(bases) : bases[j] \in Nat /\ bases[j] <= Base
      /\ Base # 0 => level > 1
      /\ level > 1 => Base = Last(bases)
  BY BaseFacts, LevelFacts DEF StmtInv, Base
<1>3. /\ Depth' = Base /\ \A k \in 1..Base : frames'[k] = frames[k]
      /\ DeclaringChain' /\ PlainFrames'
  BY <1>1, ErrorChain
<1>4. Base # 0 =>
        /\ Len(bases') = level' - 1 /\ level' \in Nat /\ level' > 0
        /\ \A j \in 1..Len(bases') : j \in 1..Len(bases) /\ bases'[j] = bases[j]
  BY <1>1, <1>2, InnerBase
<1>5. BasesFit'
  <2>1. Base <= MAX_FRAMES
    BY <1>2, LevelFacts, TracingAssumption
  <2>2. CASE Base = 0
    BY <1>1, <1>2, <1>3, <2>1, <2>2, LevelFacts DEF BasesFit
  <2>3. CASE Base # 0
    BY <1>1, <1>2, <1>3, <1>4, <2>1, <2>3, LevelFacts DEF BasesFit
  <2> QED
    BY <2>2, <2>3
<1>6. /\ \E kept, F : ErrorLeaves(kept, F)
      /\ \A t \in Spans : owner'[t] \in {0, owner[t]}
  BY ErrorEffect DEF StmtInv
<1>7. PICK kept, F : ErrorLeaves(kept, F)
  BY <1>6
<1>8. /\ kept \in Seq(StmtSpanEntry) /\ Thins(kept, stmt_stack)
      /\ Items(kept) \subseteq Items(stmt_stack)
      /\ stmt_stack' = Survivors(kept, F)
      /\ F = {frames[k].name : k \in Unwound(Base, "run")}
  BY <1>7 DEF ErrorLeaves, Thins
<1>9. /\ Len(stmt_stack') = Len(kept) /\ stmt_stack' \in Seq(StmtSpanEntry)
      /\ \A k \in 1..Len(kept) :
           LET e == stmt_stack'[k]
           IN /\ e.key = kept[k].key /\ e.ref = kept[k].ref
              /\ e.subxact_level = kept[k].subxact_level
              /\ e.detached = kept[k].detached
              /\ e.orphan = (kept[k].orphan \/ \E p \in F : kept[k].key = -p)
  BY <1>8, SurvivorFacts
<1>10. \A p \in F : p \in Nat
  <2>1. \A k \in Unwound(Base, "run") : k \in 1..Depth
    BY <1>2 DEF Unwound
  <2> QED
    <3> SUFFICES ASSUME NEW p \in F
                 PROVE  p \in Nat
      OBVIOUS
    <3>1. PICK k \in Unwound(Base, "run") : p = frames[k].name
      BY <1>8
    <3>2. p \in Portals \union {0}
      BY <1>2, <2>1, <3>1, FrameFields
    <3> QED
      BY <3>2, TracingAssumption
(* Entries of calls that go on are the ones kept.                          *)
<1>11. ASSUME NEW e \in Items(stmt_stack), LiveEntry(e), e.key > 0, level > 1
       PROVE  e.key <= Base <=> e.subxact_level < level
  <2>1. e.subxact_level \in Nat
    BY EntryFacts, EntryFields, TracingAssumption
  <2>2. /\ Len(bases) = level - 1 /\ level - 1 \in 1..Len(bases)
        /\ Base = bases[level - 1]
    BY <1>2, <1>11, BaseFacts DEF StmtInv
  <2>3. e.key <= bases[level - 1] <=> e.subxact_level <= level - 1
    BY <1>11, <2>2 DEF LiveEntry
  <2> QED
    BY <1>2, <2>1, <2>2, <2>3
<1>12. LiveEntries'
  <2> SUFFICES ASSUME NEW x \in Items(stmt_stack')
               PROVE  IF x.orphan THEN x.key < 0 ELSE LiveEntry(x)'
    BY DEF LiveEntries
  <2>1. PICK k \in 1..Len(kept) : x = stmt_stack'[k]
    BY <1>9 DEF Items
  <2>2. PICK e \in Items(stmt_stack) :
           /\ x.key = e.key /\ x.ref = e.ref
           /\ x.subxact_level = e.subxact_level /\ x.detached = e.detached
           /\ x.orphan = (e.orphan \/ \E p \in F : e.key = -p)
           /\ level > 1 /\ e.subxact_level < level
    <3>1. kept[k] \in Items(kept)
      BY DEF Items
    <3> QED
      BY <1>7, <1>8, <1>9, <2>1, <3>1 DEF ErrorLeaves
  <2>3. e \in StmtSpanEntry /\ e.key \in Int /\ e.key # 0
    BY EntryFacts
  <2>4. CASE x.orphan
    <3>1. e.orphan => e.key < 0
      BY EntryFacts
    <3>2. ASSUME NEW p \in F, e.key = -p
          PROVE  e.key < 0
      BY <1>10, <2>3, <3>2
    <3>3. x.key < 0
      BY <2>2, <2>4, <3>1, <3>2
    <3> QED
      BY <2>4, <3>3
  <2>5. CASE ~x.orphan
    <3>1. LiveEntry(e) /\ \A p \in F : e.key # -p
      BY <2>2, <2>5, EntryFacts
    <3>2. ASSUME x.key > 0
          PROVE  /\ x.key <= Depth' /\ frames'[x.key].span = x.ref
                 /\ x.detached => Cursored(frames', x.key - 1)
                 /\ x.subxact_level <= level'
                 /\ \A j \in 1..Len(bases') :
                      x.key <= bases'[j] <=> x.subxact_level <= j
      <4>1. e.key > 0 /\ e.key <= Base
        BY <1>11, <2>2, <3>1, <3>2
      <4>2. Base # 0 /\ e.key \in 1..Base
        BY <1>2, <2>3, <4>1
      <4>3. /\ frames[e.key].span = e.ref
            /\ e.detached => Cursored(frames, e.key - 1)
            /\ \A j \in 1..Len(bases) :
                 e.key <= bases[j] <=> e.subxact_level <= j
        BY <3>1, <4>1 DEF LiveEntry
      <4>4. frames'[e.key] = frames[e.key]
        BY <1>3, <4>2
      <4>5. e.subxact_level <= level'
        <5>1. e.subxact_level \in Nat
          BY <2>3, EntryFields, TracingAssumption
        <5> QED
          BY <1>1, <1>2, <2>2, <4>2, <5>1
      <4>6. \A j \in 1..Len(bases') :
               e.key <= bases'[j] <=> e.subxact_level <= j
        BY <1>4, <4>2, <4>3
      <4>7. Cursored(frames, e.key - 1) => Cursored(frames', e.key - 1)
        <5>1. \A i \in 1..(e.key - 1) : frames'[i] = frames[i]
          BY <1>2, <1>3, <2>3, <4>2
        <5>2. \A i \in 1..(e.key - 1) : Alike(frames[i], frames'[i])
          BY <5>1 DEF Alike
        <5> QED
          BY <5>2, CursoredStays
      <4> QED
        BY <1>3, <2>2, <4>1, <4>3, <4>4, <4>5, <4>6, <4>7
    <3>3. ASSUME x.key < 0
          PROVE  /\ portals'[-x.key].lev > 0 /\ ~portals'[-x.key].failed
                 /\ portals'[-x.key].span = x.ref
                 /\ portals'[-x.key].lev <= x.subxact_level
                 /\ portals'[-x.key].declared => x.detached
                 /\ x.detached =>
                      portals'[-x.key].declared \/ portals'[-x.key].taken
      <4>1. -e.key \in Portals /\ e.key < 0
        BY <2>2, <2>3, <3>3, EntryFields, KeyFacts
      <4>2. PICK q \in Portals : q = -e.key
        BY <4>1
      <4>3. /\ portals[q].lev > 0 /\ ~portals[q].failed
            /\ portals[q].span = e.ref
            /\ portals[q].lev <= e.subxact_level
            /\ portals[q].declared => e.detached
            /\ e.detached => portals[q].declared \/ portals[q].taken
        BY <3>1, <4>1, <4>2 DEF LiveEntry, IsOpen
      <4>4. portals[q].lev \in Nat /\ e.subxact_level \in Nat
        BY <1>2, <2>3, EntryFields, PortalFields, TracingAssumption
      <4>5. ~(portals[q].lev >= level)
        BY <1>2, <2>2, <4>3, <4>4
      <4>6. q \notin F
        <5>1. e.key = -q
          BY <2>3, <4>2
        <5> QED
          BY <3>1, <5>1
      <4>7. portals'[q] = [portals[q] EXCEPT !.failed = @ \/ q \in F]
        BY <1>7, <4>5 DEF ErrorLeaves
      <4>8. /\ portals'[q].lev = portals[q].lev
            /\ portals'[q].span = portals[q].span
            /\ portals'[q].declared = portals[q].declared
            /\ portals'[q].taken = portals[q].taken
            /\ portals'[q].failed = (portals[q].failed \/ q \in F)
        <5>1. portals[q] \in Portal
          BY <1>2, PortalFields
        <5> QED
          BY <4>7, <5>1 DEF Portal
      <4> QED
        BY <2>2, <4>2, <4>3, <4>6, <4>8
    <3> QED
      BY <2>5, <3>2, <3>3 DEF LiveEntry, IsOpen
  <2> QED
    BY <2>4, <2>5
<1>13. OrphansBelow(stmt_stack')
  <2>1. OrphansBelow(kept)
    BY <1>8, ThinnedOrphans DEF StmtInv
  <2> QED
    BY <1>9, <2>1 DEF OrphansBelow
<1>14. RunningStatementsKeepEntry'
  <2> SUFFICES ASSUME NEW k \in 1..Base, frames'[k].span # 0,
                      owner'[frames'[k].span] > 0
               PROVE  \E x \in Items(stmt_stack') :
                        x.key = k /\ x.ref = frames'[k].span
    BY <1>3 DEF RunningStatementsKeepEntry
  <2>1. k \in 1..Depth /\ frames'[k] = frames[k] /\ k > 0 /\ k <= Base
        /\ level > 1 /\ Base > 0
    BY <1>2, <1>3
  <2>2. frames[k].span \in Spans
    BY <1>2, <2>1, FrameFields
  <2>3. owner[frames[k].span] > 0
    BY <1>6, <2>1, <2>2
  <2>4. PICK e \in Items(stmt_stack) : e.key = k /\ e.ref = frames[k].span
    BY <2>1, <2>3 DEF StmtInv, RunningStatementsKeepEntry
  <2>5. LiveEntry(e)
    BY <2>1, <2>4, EntryFacts
  <2>6. e.subxact_level < level
    BY <1>11, <2>1, <2>4, <2>5
  <2>7. e \in Items(kept)
    BY <1>7, <2>1, <2>6 DEF ErrorLeaves
  <2>8. PICK i \in 1..Len(kept) : kept[i] = e
    BY <2>7 DEF Items
  <2>9. /\ stmt_stack'[i].key = e.key /\ stmt_stack'[i].ref = e.ref
        /\ stmt_stack'[i] \in Items(stmt_stack')
    BY <1>9, <2>8 DEF Items
  <2> QED
    BY <2>1, <2>4, <2>9
<1> QED
  BY <1>3, <1>5, <1>12, <1>13, <1>14 DEF CallsInv, EntriesInv

(***************************************************************************)
(* The invariant is inductive.                                             *)
(***************************************************************************)

LEMMA InvParts == StmtInv' <=> Types' /\ CallsInv' /\ EntriesInv'
  BY DEF StmtInv, CallsInv, EntriesInv

(* Nothing on the stack has the key of a call that has no span.            *)
LEMMA UnspannedReturns ==
    ASSUME StmtInv, Depth > 0, frames' = Front(frames), frames[Depth].span = 0,
           UNCHANGED <<level, bases, portals, stmt_stack>>,
           \A t \in Spans : owner'[t] \in {0, owner[t]}
    PROVE  EntriesInv'
<1>1. Depth \in Nat
  BY LevelFacts
<1>2. ASSUME NEW e \in Items(stmt_stack), e.key = Depth
      PROVE  FALSE
  <2>1. LiveEntry(e) /\ e.key > 0 /\ e.ref # 0
    BY <1>2, EntryFacts, TracingAssumption
  <2> QED
    BY <1>2, <2>1 DEF LiveEntry
<1>3. OrphansBelow(stmt_stack')
  BY DEF StmtInv
<1> QED
  BY <1>2, <1>3, CallReturns

(* The end of a statement finds its entry.                                 *)
LEMMA StatementEnds ==
    ASSUME StmtInv, Depth > 0, frames' = Front(frames),
           PopAndFinalize(Depth, 0), UNCHANGED <<level, bases, portals>>
    PROVE  EntriesInv'
<1>1. /\ Depth \in Nat /\ Types /\ OrphansBelow(stmt_stack)
      /\ stmt_stack \in Seq(StmtSpanEntry)
  BY LevelFacts DEF StmtInv, Types
<1>2. /\ stmt_stack' = Popped(stmt_stack, Depth)
      /\ \A t \in Spans : owner'[t] \in {0, owner[t]}
  BY <1>1, PopEffect
<1>3. /\ Thins(Popped(stmt_stack, Depth), stmt_stack)
      /\ OrphansBelow(Popped(stmt_stack, Depth))
      /\ \A e \in Items(stmt_stack) :
           e.key # Depth => e \in Items(Popped(stmt_stack, Depth))
      /\ \A e \in Items(Popped(stmt_stack, Depth)) : e.key = Depth => e.orphan
  BY <1>1, PoppedFacts
<1>4. Items(stmt_stack') \subseteq Items(stmt_stack)
  BY <1>2, <1>3 DEF Thins
<1>5. ASSUME NEW e \in Items(stmt_stack'), e.key = Depth
      PROVE  FALSE
  <2>1. e.orphan /\ e \in Items(stmt_stack)
    BY <1>2, <1>3, <1>4, <1>5
  <2>2. e.key < 0
    BY <2>1, EntryFacts
  <2> QED
    BY <1>1, <1>5, <2>2
<1> QED
  BY <1>2, <1>3, <1>4, <1>5, CallReturns

LEMMA HookInv ==
    ASSUME StmtInv, NEW c, NEW s \in Startable,
           \/ ExecutorStart(c, s)
           \/ \E d \in Portals \union {0} : ProcessUtility(c, s, d)
           \/ \E p \in Portals, d \in BOOLEAN : PortalStart(p, c, s, d)
    PROVE  StmtInv'
<1> USE DEF coreVars
<1>1. Types' /\ s \in Spans \union {0} /\ Depth \in Nat
  <2>1. Types'
    BY HookTypes, Zenon
  <2> QED
    BY <2>1, LevelFacts DEF Startable, Unused
<1>2. CASE ExecutorStart(c, s)
  <2>1. PICK f : f = [ExecFrame EXCEPT !.span = s]
    OBVIOUS
  <2>2. f \in Frame /\ f.kind = "exec" /\ f.span = s
    BY <1>1, <2>1, ExecFrameType DEF ExecFrame
  <2>3. /\ level > 0 /\ Depth < MAX_FRAMES
        /\ frames' = Append(frames, f)
        /\ StartAndPush(Depth + 1, c, s, is_declaring_cursor(ActivePortal))
        /\ UNCHANGED <<level, bases, portals>> /\ declaring' = declaring
    BY <1>2, <2>1 DEF ExecutorStart
  <2>4. CallsInv'
    BY <2>2, <2>3, FrameBegins DEF CallsInv
  <2>6. PICK detached \in BOOLEAN :
           /\ StartAndPush(Depth + 1, c, s, detached)
           /\ detached => Cursored(frames, Depth)
    BY <2>3, NestedDetached DEF is_declaring_cursor
  <2>7. PICK key : key = Depth + 1 /\ StartAndPush(key, c, s, detached)
    BY <2>6
  <2>5. EntriesInv'
    BY <2>2, <2>3, <2>6, <2>7, StatementStarts
  <2> QED
    BY <1>1, <2>4, <2>5, InvParts
<1>3. ASSUME NEW d \in Portals \union {0}, ProcessUtility(c, s, d)
      PROVE  StmtInv'
  <2>1. PICK f : f = [kind |-> "util", span |-> s, toplevel |-> (Depth = 0),
                      name |-> d, saved |-> declaring, act |-> 0]
    OBVIOUS
  <2>2. /\ f \in Frame /\ f.kind = "util" /\ f.span = s /\ f.name = d
        /\ f.toplevel = (Depth = 0) /\ f.saved = declaring
    BY <1>1, <2>1 DEF Frame, StmtInv, Types
  <2>3. /\ level > 0 /\ Depth < MAX_FRAMES
        /\ frames' = Append(frames, f)
        /\ declaring' = IF d # 0 THEN d ELSE declaring
        /\ Depth = 0 => StartAndPush(1, c, s, FALSE)
        /\ Depth # 0 => s = 0 /\ UNCHANGED <<stmt_stack, owner>>
        /\ UNCHANGED <<level, bases, portals>>
    BY <1>3, <2>1 DEF ProcessUtility, spanVars
  <2>4. CallsInv'
    BY <2>2, <2>3, FrameBegins DEF CallsInv
  <2>5. CASE Depth = 0
    <3>1. StartAndPush(1, c, s, FALSE)
      BY <2>3, <2>5, Zenon
    <3>2. 1 = Depth + 1
      BY <2>5
    <3>3. /\ level > 0 /\ Depth < MAX_FRAMES
          /\ frames' = Append(frames, f)
          /\ UNCHANGED <<level, bases, portals>>
      BY <2>3
    <3>4. EntriesInv'
      <4>1. FALSE \in BOOLEAN /\ (FALSE => Cursored(frames, Depth))
        OBVIOUS
      <4> QED
        BY <2>2, <3>1, <3>2, <3>3, <4>1, StatementStarts
    <3> QED
      BY <1>1, <2>4, <3>4, InvParts
  <2>6. CASE Depth # 0
    <3>1. EntriesInv'
      BY <2>2, <2>3, <2>6, UnspannedStarts
    <3> QED
      BY <1>1, <2>4, <3>1, InvParts
  <2> QED
    BY <2>5, <2>6
<1>4. ASSUME NEW p \in Portals, NEW d \in BOOLEAN, PortalStart(p, c, s, d)
      PROVE  StmtInv'
  <2>3. PICK f : /\ f = [ExecFrame EXCEPT !.kind = "start", !.name = p]
                 /\ frames' = Append(frames, f)
    BY <1>4 DEF PortalStart
  <2>4. f \in Frame /\ f.kind = "start" /\ f.span = 0
    BY <2>3 DEF ExecFrame, Frame
  <2>5. /\ Depth < MAX_FRAMES /\ declaring' = declaring
        /\ UNCHANGED <<level, bases>>
    BY <1>4 DEF PortalStart
  <2>1. CallsInv'
    BY <2>3, <2>4, <2>5, FrameBegins DEF CallsInv
  <2>2. EntriesInv'
    BY <1>4, PortalStarts
  <2> QED
    BY <1>1, <2>1, <2>2, InvParts
<1> QED
  BY <1>2, <1>3, <1>4

LEMMA ReturnInv ==
    ASSUME StmtInv,
           \/ ExecutorEnd \/ ProcessUtilityReturns \/ ExecutorRunReturns
           \/ OtherPortalStart \/ PortalStartReturns
           \/ QueryRun \/ QueryRunReturns
           \/ \E p \in Portals : PortalEnd(p) \/ ExecutorRun(p)
    PROVE  StmtInv'
<1> USE DEF coreVars
<1>1. Types'
  BY ReturnTypes
<1>2. ASSUME MayReturn, frames' = Front(frames), UNCHANGED <<level, bases>>,
             declaring' = IF Last(frames).kind = "util"
                          THEN Last(frames).saved ELSE declaring
      PROVE  /\ CallsInv' /\ Depth > 0 /\ Last(frames) = frames[Depth]
             /\ Depth \in 1..Depth
  <2>1. CallsInv' /\ Depth > 0
    BY <1>2, FrameReturns DEF CallsInv
  <2> QED
    BY <2>1, LevelFacts DEF Last, Depth
<1>3. CASE ExecutorEnd
  <2>1. CallsInv' /\ Depth > 0
    BY <1>2, <1>3 DEF ExecutorEnd
  <2>2. EntriesInv'
    BY <1>3, <2>1, StatementEnds DEF ExecutorEnd
  <2> QED
    BY <1>1, <2>1, <2>2, InvParts
<1>4. CASE ProcessUtilityReturns
  <2>1. /\ CallsInv' /\ Depth > 0 /\ Last(frames) = frames[Depth]
        /\ Depth \in 1..Depth
    BY <1>2, <1>4 DEF ProcessUtilityReturns
  <2>2. CASE Last(frames).toplevel
    <3>1. EntriesInv'
      BY <1>4, <2>1, <2>2, StatementEnds DEF ProcessUtilityReturns
    <3> QED
      BY <1>1, <2>1, <3>1, InvParts
  <2>3. CASE ~Last(frames).toplevel
    <3>1. /\ frames' = Front(frames)
          /\ UNCHANGED <<level, bases, portals, stmt_stack, owner>>
          /\ Last(frames).kind = "util"
      BY <1>4, <2>3 DEF ProcessUtilityReturns, spanVars
    <3>2. frames[Depth].span = 0
      BY <2>1, <2>3, <3>1 DEF StmtInv, PlainFrames
    <3>3. EntriesInv'
      BY <2>1, <3>1, <3>2, UnspannedReturns
    <3> QED
      BY <1>1, <2>1, <3>3, InvParts
  <2> QED
    BY <2>2, <2>3
<1>5. CASE ExecutorRunReturns
  <2>1. /\ CallsInv' /\ Depth > 0 /\ Last(frames) = frames[Depth]
        /\ Depth \in 1..Depth
    BY <1>2, <1>5 DEF ExecutorRunReturns
  <2>2. /\ frames' = Front(frames)
        /\ UNCHANGED <<level, bases, portals, stmt_stack>>
        /\ Last(frames).kind = "run"
        /\ Deactivated(Last(frames).act)
    BY <1>5 DEF ExecutorRunReturns
  <2>3. \A t \in Spans : owner'[t] \in {0, owner[t]}
    BY <2>2, EndSpansFacts DEF Deactivated, StmtInv, Types
  <2>4. frames[Depth].span = 0
    BY <2>1, <2>2 DEF StmtInv, PlainFrames
  <2>5. EntriesInv'
    BY <2>1, <2>2, <2>3, <2>4, UnspannedReturns
  <2> QED
    BY <1>1, <2>1, <2>5, InvParts
<1>6. ASSUME NEW p \in Portals, PortalEnd(p)
      PROVE  StmtInv'
  <2>1. CallsInv'
    BY <1>6, CallsStay DEF PortalEnd
  <2>2. EntriesInv'
    BY <1>6, PortalEnds
  <2> QED
    BY <1>1, <2>1, <2>2, InvParts
<1>7. ASSUME NEW p \in Portals, ExecutorRun(p)
      PROVE  StmtInv'
  <2>1. PICK a, f : /\ a = 0 \/ a = peek_cursor_span(-p)
                    /\ f = [ExecFrame EXCEPT !.kind = "run", !.name = p, !.act = a]
                    /\ frames' = Append(frames, f)
    BY <1>7 DEF ExecutorRun
  <2>2. f \in Frame /\ f.kind = "run" /\ f.span = 0
    BY <2>1, ExecFrameType, PeekType DEF ExecFrame
  <2>3. /\ Depth < MAX_FRAMES /\ declaring' = declaring
        /\ UNCHANGED <<level, bases, portals, stmt_stack, owner>>
    BY <1>7 DEF ExecutorRun
  <2>4. CallsInv'
    BY <2>1, <2>2, <2>3, FrameBegins DEF CallsInv
  <2>5. EntriesInv'
    BY <2>1, <2>2, <2>3, UnspannedStarts
  <2> QED
    BY <1>1, <2>4, <2>5, InvParts
<1>8. CASE OtherPortalStart
  <2>1. PICK f : /\ f = [ExecFrame EXCEPT !.kind = "start"]
                 /\ frames' = Append(frames, f)
    BY <1>8 DEF OtherPortalStart
  <2>2. f \in Frame /\ f.kind = "start" /\ f.span = 0
    BY <2>1 DEF ExecFrame, Frame
  <2>3. /\ Depth < MAX_FRAMES /\ declaring' = declaring
        /\ UNCHANGED <<level, bases, portals, stmt_stack, owner>>
    BY <1>8 DEF OtherPortalStart, spanVars
  <2>4. CallsInv'
    BY <2>1, <2>2, <2>3, FrameBegins DEF CallsInv
  <2>5. EntriesInv'
    BY <2>1, <2>2, <2>3, UnspannedStarts
  <2> QED
    BY <1>1, <2>4, <2>5, InvParts
<1>9. CASE PortalStartReturns
  <2>1. /\ CallsInv' /\ Depth > 0 /\ Last(frames) = frames[Depth]
        /\ Depth \in 1..Depth
    BY <1>2, <1>9 DEF PortalStartReturns
  <2>2. /\ frames' = Front(frames)
        /\ UNCHANGED <<level, bases, portals, stmt_stack, owner>>
        /\ Last(frames).kind = "start"
    BY <1>9 DEF PortalStartReturns, spanVars
  <2>4. frames[Depth].span = 0
    BY <2>1, <2>2 DEF StmtInv, PlainFrames
  <2>5. EntriesInv'
    BY <2>1, <2>2, <2>4, UnspannedReturns
  <2> QED
    BY <1>1, <2>1, <2>5, InvParts
<1>10. CASE QueryRun \/ QueryRunReturns
  <2>1. PICK a : /\ frames' = [frames EXCEPT ![Depth].act = a]
                 /\ a \in Spans \union {0}
    <3>1. peek_cursor_span(Depth) \in Spans \union {0}
      BY PeekType
    <3> QED
      BY <1>10, <3>1 DEF QueryRun, QueryRunReturns
  <2>2. MayReturn /\ UNCHANGED <<level, bases, portals, stmt_stack, declaring>>
    BY <1>10 DEF QueryRun, QueryRunReturns
  <2>3. Depth > 0
    BY <2>2, BaseFacts, LevelFacts DEF StmtInv, MayReturn, Base
  <2>4. Depth' = Depth /\ \A k \in 1..Depth : Alike(frames[k], frames'[k])
    BY <2>1, <2>3, ActChanges DEF StmtInv
  <2>5. \A t \in Spans : owner'[t] \in {0, owner[t]}
    <3>1. CASE QueryRun
      BY <3>1 DEF QueryRun
    <3>2. CASE QueryRunReturns
      BY <3>2, EndSpansFacts DEF QueryRunReturns, Deactivated, StmtInv, Types
    <3> QED
      BY <1>10, <3>1, <3>2
  <2>6. CallsInv'
    BY <2>2, <2>4, CallsAlike
  <2>7. EntriesInv'
    BY <2>2, <2>4, <2>5, EntriesAlike
  <2> QED
    BY <1>1, <2>6, <2>7, InvParts
<1> QED
  BY <1>3, <1>4, <1>5, <1>6, <1>7, <1>8, <1>9, <1>10

LEMMA XactInv ==
    ASSUME StmtInv,
           \/ BeginXact \/ BeginSub \/ CommitSub \/ CommitXact
           \/ RollbackTo \/ Rollback \/ InnerCommit \/ InnerRollback
           \/ MessageM \/ ReadyForQuery \/ UNCHANGED vars
    PROVE  StmtInv'
<1>1. Types'
  BY XactTypes
<1>2. CASE BeginXact \/ BeginSub \/ CommitSub \/ CommitXact \/ Rollback
           \/ InnerRollback
  BY <1>1, <1>2, BeginXactInv, BeginSubInv, CommitSubInv, CommitXactInv,
     RollbackInv, InvParts
<1>3. CASE RollbackTo \/ InnerCommit \/ MessageM \/ ReadyForQuery
           \/ UNCHANGED vars
  <2>1. UNCHANGED <<stmt_stack, frames, level, bases, portals, declaring>>
    BY <1>3 DEF RollbackTo, InnerCommit, MessageM, ReadyForQuery, vars,
                coreVars, spanVars
  <2>2. owner' = owner \/ owner' = [t \in Spans |-> 0]
    BY <1>3 DEF RollbackTo, InnerCommit, MessageM, ReadyForQuery, vars, spanVars
  <2>3. \A t \in Spans : owner'[t] \in {0, owner[t]}
    BY <2>2
  <2> QED
    BY <1>1, <2>1, <2>3, CallsStay, EntriesStay, InvParts
<1> QED
  BY <1>2, <1>3

LEMMA InitInv == Init => StmtInv
<1> SUFFICES ASSUME Init
             PROVE  StmtInv
  OBVIOUS
<1> USE DEF Init
<1>1. Types
  <2>1. /\ NoPortal \in Portal /\ 0 \in 0..MAX_LEVEL
        /\ OTEL_STMT_STACK_MAX \in Nat
    BY TracingAssumption DEF NoPortal, Portal
  <2>2. portals \in [Portals -> Portal] /\ owner \in [Spans -> 0..MAX_LEVEL]
    BY <2>1
  <2>3. Len(stmt_stack) <= OTEL_STMT_STACK_MAX
    BY <2>1
  <2>4. /\ stmt_stack \in Seq(StmtSpanEntry) /\ bases \in Seq(0..MAX_FRAMES)
        /\ frames \in Seq(Frame) /\ active \in Seq(ActiveEntry)
    OBVIOUS
  <2>5. /\ declaring \in Portals \union {0} /\ leader \in Spans \union {0}
        /\ trace_all \in BOOLEAN
    OBVIOUS
  <2>6. failed \in BOOLEAN /\ disturbed \in BOOLEAN
    BY Zenon
  <2>7. level \in 0..MAX_LEVEL
    BY <2>1
  <2> QED
    BY <2>2, <2>3, <2>4, <2>5, <2>6, <2>7 DEF Types
<1>2. Depth = 0 /\ Items(stmt_stack) = {}
  BY DEF Depth, Items
<1>3. BasesFit /\ DeclaringChain /\ PlainFrames
  BY <1>2, TracingAssumption
     DEF BasesFit, DeclaringChain, PlainFrames, IsDeclaring
<1>4. LiveEntries /\ RunningStatementsKeepEntry
  BY <1>2 DEF LiveEntries, RunningStatementsKeepEntry
<1>5. OrphansBelow(stmt_stack)
  BY DEF OrphansBelow
<1> QED
  BY <1>1, <1>3, <1>4, <1>5 DEF StmtInv

LEMMA NextInv == StmtInv /\ [Next]_vars => StmtInv'
<1> SUFFICES ASSUME StmtInv, [Next]_vars
             PROVE  StmtInv'
  OBVIOUS
<1>1. ASSUME NEW c \in Comments, NEW s \in Startable,
             \/ ExecutorStart(c, s)
             \/ \E d \in Portals \union {0} : ProcessUtility(c, s, d)
             \/ \E p \in Portals, d \in BOOLEAN : PortalStart(p, c, s, d)
      PROVE  StmtInv'
  BY <1>1, HookInv
<1>2. CASE \/ ExecutorEnd \/ ProcessUtilityReturns \/ ExecutorRunReturns
           \/ OtherPortalStart \/ PortalStartReturns
           \/ QueryRun \/ QueryRunReturns
           \/ \E p \in Portals : PortalEnd(p) \/ ExecutorRun(p)
  BY <1>2, ReturnInv
<1>3. CASE \/ BeginXact \/ BeginSub \/ CommitSub \/ CommitXact
           \/ RollbackTo \/ Rollback \/ InnerCommit \/ InnerRollback
           \/ MessageM \/ ReadyForQuery \/ UNCHANGED vars
  BY <1>3, XactInv
<1>4. CASE Error
  BY <1>4, ErrorTypes, ErrorInv, InvParts
<1> QED
  BY <1>1, <1>2, <1>3, <1>4 DEF Next

LEMMA StmtInvariant == Spec => []StmtInv
  BY InitInv, NextInv, PTL DEF Spec

(***************************************************************************)
(* Theorems.                                                               *)
(***************************************************************************)

(* No entry of otel_trace.c's bookkeeping stack outlives what it stands    *)
(* for, whatever fails at whatever depth, but that of a cursor that failed *)
(* in a younger subtransaction: an entry is a running call's or an open    *)
(* portal's, with that one's span, and its only one.                       *)
THEOREM NoEntryOutlivesItsStatement == Spec => []EntriesAreLive
<1>1. StmtInv => EntriesAreLive
  <2> SUFFICES ASSUME StmtInv, NEW k \in 1..Len(stmt_stack),
                      ~stmt_stack[k].orphan
               PROVE  /\ IF stmt_stack[k].key > 0
                         THEN /\ stmt_stack[k].key <= Depth
                              /\ frames[stmt_stack[k].key].span = stmt_stack[k].ref
                         ELSE /\ IsOpen(-stmt_stack[k].key)
                              /\ portals[-stmt_stack[k].key].span
                                 = stmt_stack[k].ref
                      /\ \A j \in 1..Len(stmt_stack) :
                           ~stmt_stack[j].orphan
                           /\ stmt_stack[j].key = stmt_stack[k].key => j = k
    BY DEF EntriesAreLive
  <2>0. PICK e : e = stmt_stack[k]
    OBVIOUS
  <2>1. e \in Items(stmt_stack) /\ Len(stmt_stack) \in Nat
    BY <2>0 DEF Items, StmtInv, Types
  <2>2. LiveEntry(e) /\ e.key \in Int /\ e.key # 0
    BY <2>0, <2>1, EntryFacts
  <2>3. IF e.key > 0 THEN e.key <= Depth /\ frames[e.key].span = e.ref
        ELSE IsOpen(-e.key) /\ portals[-e.key].span = e.ref
    BY <2>2 DEF LiveEntry
  <2>4. ASSUME NEW j \in 1..Len(stmt_stack), ~stmt_stack[j].orphan,
               stmt_stack[j].key = stmt_stack[k].key, j # k
        PROVE  FALSE
    <3>1. j < k \/ k < j
      BY <2>1, <2>4
    <3> QED
      BY <2>4, <3>1 DEF StmtInv, OrphansBelow
  <2>5. \A j \in 1..Len(stmt_stack) :
           ~stmt_stack[j].orphan
           /\ stmt_stack[j].key = stmt_stack[k].key => j = k
    BY <2>4
  <2> QED
    BY <2>0, <2>3, <2>5
<1> QED
  BY <1>1, StmtInvariant, PTL

(* A statement that is still running when others end or fail is found      *)
(* again by its own end: no abort and no pop of otel_trace.c takes its     *)
(* entry away while its span is open.                                      *)
THEOREM EndsFindTheirSpan == Spec => []RunningStatementsKeepEntry
<1>1. StmtInv => RunningStatementsKeepEntry
  BY DEF StmtInv
<1> QED
  BY <1>1, StmtInvariant, PTL

(* otel_declaring_cursor_name and ActivePortal tell a declared cursor's    *)
(* ExecutorStart from others, however calls nest and whatever an ERROR     *)
(* unwinds: its span is detached.  Of the others only those are that core  *)
(* runs while the portal a DECLARE in progress names, or a portal SPI      *)
(* opened under that name, is being started or run.                        *)
THEOREM OnlyDeclaredIsDetached == Spec => []DetachedIffDeclared
<1>1. StmtInv => DetachedIffDeclared
  <2> SUFFICES ASSUME StmtInv, NEW e \in Items(stmt_stack), ~e.orphan
               PROVE  IF e.key < 0
                      THEN /\ portals[-e.key].declared => e.detached
                           /\ e.detached => \/ portals[-e.key].declared
                                            \/ portals[-e.key].taken
                      ELSE e.detached => Cursored(frames, e.key - 1)
    BY DEF DetachedIffDeclared, Cursored
  <2>1. e.key \in Int /\ e.key # 0 /\ LiveEntry(e)
    BY EntryFacts
  <2> QED
    BY <2>1 DEF LiveEntry
<1> QED
  BY <1>1, StmtInvariant, PTL

(***************************************************************************)
(* The refinement of RootContext.                                          *)
(***************************************************************************)

(* A context a comment gave is one; an aborted block is one.               *)
RootFits ==
    /\ root_ctx.from_comment => root_ctx.is_set /\ Ctx # {}
    /\ failed => level > 0

InXact == level > 1 \/ (level = 1 /\ ~failed)

(* A hook that leaves the context alone, in a request that was already     *)
(* being processed or not, is a statement's end with nothing to reset or,  *)
(* under a comment's context, a statement's start with nothing to apply.   *)
LEMMA QuietStep ==
    ASSUME RootFits, ready' = FALSE, UNCHANGED <<rootVars, m_seen>>,
           InXact' = InXact
    PROVE  RC!Next
<1>1. UNCHANGED <<guc, undo, otel_ctx_from_M_header, m_seen, root_ctx>>
  BY DEF rootVars
<1>2. (level > 1 \/ (level = 1 /\ ~failed))' = (level > 1 \/ (level = 1 /\ ~failed))
  BY DEF InXact
<1>3. CASE ~root_ctx.from_comment
  <2>1. RC!StatementEnds
    BY <1>1, <1>2, <1>3 DEF RC!StatementEnds, RC!Uncommented
  <2> QED
    BY <2>1 DEF RC!Next
<1>4. CASE root_ctx.from_comment
  <2>1. PICK c : c \in Ctx
    BY <1>4 DEF RootFits
  <2>2. root_ctx' = RC!Commented(root_ctx, c)
    BY <1>1, <1>4 DEF RootFits, RC!Commented
  <2>3. RC!StatementStarts
    BY <1>1, <1>2, <2>1, <2>2 DEF RC!StatementStarts
  <2> QED
    BY <2>3 DEF RC!Next
<1> QED
  BY <1>3, <1>4

(* A statement that starts offers its comment's context.                   *)
LEMMA OfferStep ==
    ASSUME RootFits, NEW c \in Comments, root_ctx' = RC!Commented(root_ctx, c),
           UNCHANGED <<guc, undo, otel_ctx_from_M_header, m_seen>>,
           ready' = FALSE, InXact' = InXact
    PROVE  RC!Next
<1>1. CASE c \in Ctx
  <2>1. (level > 1 \/ (level = 1 /\ ~failed))'
        = (level > 1 \/ (level = 1 /\ ~failed))
    BY DEF InXact
  <2>2. RC!StatementStarts
    BY <1>1, <2>1 DEF RC!StatementStarts
  <2> QED
    BY <2>2 DEF RC!Next
<1>2. CASE c \notin Ctx
  <2>1. c = None
    BY <1>2 DEF Comments
  <2>2. root_ctx' = root_ctx
    BY <2>1 DEF RC!Commented
  <2> QED
    BY <2>2, QuietStep DEF rootVars
<1> QED
  BY <1>1, <1>2

(* One that ends resets a comment's context, if it had a span.             *)
LEMMA ResetStep ==
    ASSUME RootFits, NEW key, NEW held, PopAndFinalize(key, held),
           UNCHANGED m_seen, ready' = FALSE, InXact' = InXact
    PROVE  RC!Next
<1> DEFINE s == PoppedRef(stmt_stack, key)
<1>1. /\ root_ctx' = ContextAfter(s)
      /\ UNCHANGED <<guc, undo, otel_ctx_from_M_header>>
  BY DEF PopAndFinalize
<1> HIDE DEF s
<1>2. CASE s = 0
  BY <1>1, <1>2, QuietStep DEF ContextAfter, rootVars
<1>3. CASE s # 0
  <2>1. (level > 1 \/ (level = 1 /\ ~failed))'
        = (level > 1 \/ (level = 1 /\ ~failed))
    BY DEF InXact
  <2>2. RC!StatementEnds
    BY <1>1, <1>3, <2>1 DEF RC!StatementEnds, ContextAfter
  <2> QED
    BY <2>2 DEF RC!Next
<1> QED
  BY <1>2, <1>3

LEMMA XactEndStep ==
    ASSUME RC!GucAtCommit \/ RC!GucAtAbort, InXact, InXact' \in BOOLEAN,
           UNCHANGED <<otel_ctx_from_M_header, m_seen>>, ready' = FALSE
    PROVE  RC!Next
<1>1. (level > 1 \/ (level = 1 /\ ~failed))' \in BOOLEAN
  BY Zenon DEF InXact
<1>2. level > 1 \/ (level = 1 /\ ~failed)
  BY DEF InXact
<1>3. RC!EndXact
  BY <1>1, <1>2 DEF RC!EndXact
<1> QED
  BY <1>3 DEF RC!Next

(* Every step of the statement tracer is a step of the root context's, or  *)
(* leaves everything of it as it is.                                       *)
LEMMA RootSteps ==
    ASSUME Types, RootFits, [Next]_vars
    PROVE  [RC!Next]_RC!rcVars
<1>0. level \in Nat /\ failed \in BOOLEAN
  BY TracingAssumption DEF Types
<1>1. ASSUME NEW c \in Comments, NEW s \in Startable,
             \/ ExecutorStart(c, s)
             \/ \E d \in Portals \union {0} : ProcessUtility(c, s, d)
             \/ \E p \in Portals, d \in BOOLEAN : PortalStart(p, c, s, d)
      PROVE  RC!Next
  <2>1. /\ ready' = FALSE /\ m_seen' = m_seen
        /\ UNCHANGED coreVars
        /\ \/ UNCHANGED rootVars
           \/ \E key, d : StartAndPush(key, c, s, d)
    BY <1>1 DEF ExecutorStart, ProcessUtility, PortalStart
  <2>2. InXact' = InXact
    BY <2>1 DEF InXact, coreVars
  <2>3. CASE UNCHANGED rootVars
    BY <2>1, <2>2, <2>3, QuietStep
  <2>4. CASE \E key, d : StartAndPush(key, c, s, d)
    <3>1. /\ root_ctx' = RC!Commented(root_ctx, c)
          /\ UNCHANGED <<guc, undo, otel_ctx_from_M_header>>
      BY <2>4 DEF StartAndPush
    <3> QED
      BY <2>1, <2>2, <3>1, OfferStep
  <2> QED
    BY <2>1, <2>3, <2>4
<1>2. CASE \/ ExecutorEnd \/ ProcessUtilityReturns \/ ExecutorRunReturns
           \/ OtherPortalStart \/ PortalStartReturns
           \/ QueryRun \/ QueryRunReturns
           \/ \E p \in Portals : PortalEnd(p) \/ ExecutorRun(p)
  <2>1. /\ ready' = FALSE /\ m_seen' = m_seen
        /\ UNCHANGED coreVars
        /\ \/ UNCHANGED rootVars
           \/ \E key, held : PopAndFinalize(key, held)
    BY <1>2 DEF ExecutorEnd, ProcessUtilityReturns, ExecutorRunReturns,
                OtherPortalStart, PortalStartReturns, QueryRun,
                QueryRunReturns, PortalEnd, ExecutorRun
  <2>2. InXact' = InXact
    BY <2>1 DEF InXact, coreVars
  <2>3. CASE UNCHANGED rootVars
    BY <2>1, <2>2, <2>3, QuietStep
  <2>4. CASE \E key, held : PopAndFinalize(key, held)
    BY <2>1, <2>2, <2>4, ResetStep
  <2> QED
    BY <2>1, <2>3, <2>4
<1>3. CASE BeginXact
  <2>1. ~InXact /\ InXact'
    BY <1>0, <1>3 DEF BeginXact, RootFits, InXact
  <2>2. /\ ~(level > 1 \/ (level = 1 /\ ~failed))
        /\ (level > 1 \/ (level = 1 /\ ~failed))'
    BY <2>1 DEF InXact
  <2>3. RC!Begin
    BY <1>3, <2>2, Zenon DEF BeginXact, RC!Begin, rootVars, RC!rootVars, RC!gucVars
  <2> QED
    BY <2>3 DEF RC!Next
<1>4. CASE BeginSub \/ CommitSub \/ RollbackTo
  <2>1. /\ ready' = FALSE /\ UNCHANGED <<rootVars, m_seen>>
    BY <1>4 DEF BeginSub, CommitSub, RollbackTo
  <2>2. InXact /\ InXact'
    BY <1>0, <1>4 DEF BeginSub, CommitSub, RollbackTo, InXact
  <2> QED
    BY <2>1, <2>2, QuietStep
<1>5. CASE CommitXact \/ InnerCommit \/ InnerRollback
  <2>1. /\ RC!GucAtCommit \/ RC!GucAtAbort
        /\ UNCHANGED <<otel_ctx_from_M_header, m_seen>> /\ ready' = FALSE
    BY <1>5 DEF CommitXact, InnerCommit, InnerRollback
  <2>2. InXact
    BY <1>0, <1>5 DEF CommitXact, InnerCommit, InnerRollback, InProcedure, InXact
  <2>3. InXact' \in BOOLEAN
    BY Zenon DEF InXact
  <2> QED
    BY <2>1, <2>2, <2>3, XactEndStep
<1>6. CASE Error
  <2>1. /\ level > 0 /\ ~failed
        /\ IF level = 1 THEN RC!GucAtAbort ELSE UNCHANGED <<guc, undo, root_ctx>>
        /\ level' = IF Base = 0 THEN level ELSE level - 1
        /\ ready' = FALSE
        /\ UNCHANGED <<otel_ctx_from_M_header, m_seen>>
    BY <1>6 DEF Error, Base
  <2>2. failed' = (Base = 0)
    BY <1>6 DEF Error, Base
  <2>3. InXact
    BY <1>0, <2>1 DEF InXact
  <2>4. InXact' \in BOOLEAN
    BY Zenon DEF InXact
  <2>5. CASE level = 1
    BY <2>1, <2>3, <2>4, <2>5, XactEndStep
  <2>6. CASE level # 1
    <3>1. InXact'
      BY <1>0, <2>1, <2>2, <2>6 DEF InXact
    <3> QED
      BY <2>1, <2>3, <2>6, <3>1, QuietStep DEF rootVars
  <2> QED
    BY <2>5, <2>6
<1>7. CASE Rollback
  <2>1. /\ failed /\ level' = 0 /\ ready' = FALSE
        /\ IF level = 1 THEN UNCHANGED <<guc, undo, root_ctx>> ELSE RC!GucAtAbort
        /\ UNCHANGED <<otel_ctx_from_M_header, m_seen>>
    BY <1>7 DEF Rollback
  <2>2. ~InXact' /\ (InXact <=> level # 1)
    BY <1>0, <2>1 DEF InXact, RootFits
  <2>3. InXact' \in BOOLEAN
    BY Zenon DEF InXact
  <2>4. CASE level = 1
    <3>1. InXact' = InXact
      BY <2>2, <2>4 DEF InXact
    <3> QED
      BY <2>1, <2>4, <3>1, QuietStep DEF rootVars
  <2>5. CASE level # 1
    BY <2>1, <2>2, <2>3, <2>5, XactEndStep
  <2> QED
    BY <2>4, <2>5
<1>8. CASE MessageM
  <2>1. /\ \/ \E c \in Ctx \union {None} : RC!trace_context_apply(RC!MValue(c))
           \/ RC!trace_context_rejected
        /\ ready' = FALSE /\ m_seen' = TRUE
    BY <1>8 DEF MessageM
  <2>2. (level > 1 \/ (level = 1 /\ ~failed))'
        = (level > 1 \/ (level = 1 /\ ~failed))
    BY <1>8 DEF MessageM, coreVars
  <2>3. RC!MessageM
    BY <2>1, <2>2 DEF RC!MessageM
  <2> QED
    BY <2>3 DEF RC!Next
<1>9. CASE ReadyForQuery
  <2>1. ~ready /\ RC!trace_context_clear /\ ready' = TRUE /\ m_seen' = FALSE
    BY <1>9 DEF ReadyForQuery
  <2>2. (level > 1 \/ (level = 1 /\ ~failed))'
        = (level > 1 \/ (level = 1 /\ ~failed))
    BY <1>9 DEF ReadyForQuery, coreVars
  <2>3. RC!ReadyForQuery
    BY <2>1, <2>2 DEF RC!ReadyForQuery
  <2> QED
    BY <2>3 DEF RC!Next
<1>10. CASE UNCHANGED vars
  BY <1>10 DEF vars, rootVars, coreVars, RC!rcVars, RC!rootVars, RC!gucVars
<1> QED
  BY <1>1, <1>2, <1>3, <1>4, <1>5, <1>6, <1>7, <1>8, <1>9, <1>10 DEF Next

(* A context is a comment's only after a statement gave one, and an        *)
(* assign hook's is not a comment's.                                       *)
LEMMA RootFitsNext ==
    ASSUME Types, RootFits, [Next]_vars
    PROVE  RootFits'
<1>1. [RC!Next]_RC!rcVars
  BY RootSteps
<1>2. (root_ctx.from_comment => root_ctx.is_set /\ Ctx # {})'
  <2>1. ASSUME NEW v, RC!assign_traceparent(v)
        PROVE  ~root_ctx'.from_comment
    BY <2>1 DEF RC!assign_traceparent, RC!Assigned, RC!ResetCtx
  <2>2. ASSUME NEW v, RC!Restored(v)
        PROVE  UNCHANGED root_ctx \/ ~root_ctx'.from_comment
    BY <2>1, <2>2 DEF RC!Restored
  <2>3. ASSUME NEW c \in Ctx, root_ctx' = RC!Commented(root_ctx, c)
        PROVE  (root_ctx.from_comment => root_ctx.is_set /\ Ctx # {})'
    <3>1. Ctx # {}
      OBVIOUS
    <3> QED
      BY <2>3, <3>1 DEF RC!Commented, RootFits
  <2>4. CASE RC!GucAtCommit \/ RC!GucAtAbort
    <3>1. UNCHANGED root_ctx \/ \E v : RC!Restored(v)
      BY <2>4 DEF RC!GucAtCommit, RC!GucAtAbort
    <3> QED
      BY <2>2, <3>1 DEF RootFits
  <2>5. CASE RC!MessageM \/ RC!SetStatement
    <3>1. \/ UNCHANGED root_ctx
          \/ \E v : RC!assign_traceparent(v)
      BY <2>5 DEF RC!MessageM, RC!SetStatement, RC!trace_context_apply,
                  RC!trace_context_rejected, RC!SetConfig, RC!gucVars
    <3> QED
      BY <2>1, <3>1 DEF RootFits
  <2>6. CASE RC!Begin \/ UNCHANGED RC!rcVars
    BY <2>6 DEF RC!Begin, RC!rcVars, RC!rootVars, RC!gucVars, RootFits
  <2>7. CASE RC!StatementStarts
    BY <2>3, <2>7 DEF RC!StatementStarts
  <2>8. CASE RC!StatementEnds
    BY <2>8 DEF RC!StatementEnds, RC!Uncommented, RC!ResetCtx, RootFits
  <2>9. CASE RC!EndXact
    BY <2>4, <2>9 DEF RC!EndXact
  <2>10. CASE RC!ReadyForQuery
    BY <2>10 DEF RC!ReadyForQuery, RC!trace_context_clear, RC!ResetCtx, RootFits
  <2> QED
    BY <1>1, <2>5, <2>6, <2>7, <2>8, <2>9, <2>10 DEF RC!Next
<1>3. (failed => level > 0)'
  <2>0. level \in Nat
    BY TracingAssumption DEF Types
  <2>1. CASE Error
    <3>1. /\ level > 0
          /\ level' = IF Base = 0 THEN level ELSE level - 1
      BY <2>1 DEF Error, Base
    <3>2. failed' = (Base = 0)
      BY <2>1 DEF Error, Base
    <3> QED
      BY <3>1, <3>2
  <2>2. CASE ~Error
    <3>1. failed' => failed
      BY <2>2 DEF Next, vars, ExecutorStart, ProcessUtility, PortalStart,
         ExecutorEnd, ProcessUtilityReturns, ExecutorRunReturns, PortalEnd,
         OtherPortalStart, PortalStartReturns, QueryRun, QueryRunReturns,
         ExecutorRun, BeginXact, BeginSub, CommitSub, CommitXact, RollbackTo,
         Rollback, InnerCommit, InnerRollback, MessageM, ReadyForQuery, coreVars
    <3>2. failed /\ failed' => level' = level
      <4>1. CASE BeginXact \/ BeginSub \/ CommitSub \/ CommitXact
                 \/ RollbackTo \/ Rollback \/ InnerCommit \/ InnerRollback
        BY <2>0, <4>1 DEF RootFits, BeginXact, BeginSub, CommitSub, CommitXact,
           RollbackTo, Rollback, InnerCommit, InnerRollback, coreVars
      <4>2. CASE \/ \E c \in Comments, s \in Startable :
                      \/ ExecutorStart(c, s)
                      \/ \E d \in Portals \union {0} : ProcessUtility(c, s, d)
                      \/ \E p \in Portals, d \in BOOLEAN : PortalStart(p, c, s, d)
                 \/ MessageM \/ ReadyForQuery \/ UNCHANGED vars
        BY <4>2 DEF ExecutorStart, ProcessUtility, PortalStart, MessageM,
           ReadyForQuery, vars, coreVars
      <4>3. CASE \/ ExecutorEnd \/ ProcessUtilityReturns \/ ExecutorRunReturns
                 \/ OtherPortalStart \/ PortalStartReturns
                 \/ QueryRun \/ QueryRunReturns
                 \/ \E p \in Portals : PortalEnd(p) \/ ExecutorRun(p)
        BY <4>3 DEF ExecutorEnd, ProcessUtilityReturns, ExecutorRunReturns,
           OtherPortalStart, PortalStartReturns, QueryRun, QueryRunReturns,
           PortalEnd, ExecutorRun, coreVars
      <4> QED
        BY <2>2, <4>1, <4>2, <4>3 DEF Next
    <3> QED
      BY <3>1, <3>2 DEF RootFits
  <2> QED
    BY <2>1, <2>2
<1> QED
  BY <1>2, <1>3 DEF RootFits

(* The hooks of the statement tracer use the root context of otel.c only   *)
(* as RootContext describes: a transaction's end, a message, a comment     *)
(* offered, a comment's context dropped.  Whatever is true of the root     *)
(* context by itself is so under the hooks.                                *)
THEOREM HooksDriveRootContext == Spec => DrivesRootContext
<1>1. Init => RC!Init /\ RootFits
  <2> SUFFICES ASSUME Init
               PROVE  RC!Init /\ RootFits
    OBVIOUS
  <2>1. RC!Init
    BY DEF Init
  <2>2. ~root_ctx.from_comment /\ ~failed
    BY DEF Init, RC!Init, RC!ResetCtx
  <2> QED
    BY <2>1, <2>2 DEF RootFits
<1>2. StmtInv /\ RootFits /\ [Next]_vars => RootFits' /\ [RC!Next]_RC!rcVars
  BY RootSteps, RootFitsNext DEF StmtInv
<1> QED
  BY <1>1, <1>2, StmtInvariant, PTL DEF Spec, DrivesRootContext, RC!Spec

(* The root context stays well typed through the steps of RootContext.     *)
LEMMA RootTypes ==
    ASSUME RC!TypeOK, [RC!Next]_RC!rcVars
    PROVE  RC!TypeOK'
<1> DEFINE Good == root_ctx.is_set <=> root_ctx.ctx # None
<1>1. /\ guc \in RC!GucValue /\ undo \in RC!Undo
      /\ root_ctx \in RC!RootCtx /\ Good
      /\ otel_ctx_from_M_header \in BOOLEAN /\ InXact \in BOOLEAN
      /\ ready \in BOOLEAN /\ m_seen \in BOOLEAN
  BY DEF RC!TypeOK, InXact
<1>2. /\ RC!RESET_VAL \in RC!GucValue /\ RC!NoUndo \in RC!Undo
      /\ RC!ResetCtx \in RC!RootCtx
      /\ ~RC!ResetCtx.is_set /\ RC!ResetCtx.ctx = None
  BY DEF RC!RESET_VAL, RC!GucValue, RC!NoUndo, RC!Undo, RC!ResetCtx,
         RC!RootCtx, RC!Origin
<1>3. ASSUME NEW v \in RC!GucValue, RC!assign_traceparent(v)
      PROVE  guc' \in RC!GucValue /\ root_ctx' \in RC!RootCtx /\ Good'
  <2>1. v.ctx \in Ctx \union {None} /\ v.by \in {"reset", "set", "M"}
    BY <1>3 DEF RC!GucValue
  <2>2. RC!Assigned(v) \in RC!RootCtx
    BY <1>2, <2>1 DEF RC!Assigned, RC!RootCtx, RC!Origin
  <2>3. RC!Assigned(v).is_set <=> RC!Assigned(v).ctx # None
    BY <1>2 DEF RC!Assigned
  <2> QED
    BY <1>3, <2>2, <2>3 DEF RC!assign_traceparent
<1>4. ASSUME NEW v \in RC!GucValue, RC!Restored(v)
      PROVE  guc' \in RC!GucValue /\ root_ctx' \in RC!RootCtx /\ Good'
  BY <1>1, <1>3, <1>4 DEF RC!Restored
<1>5. ASSUME NEW v \in RC!GucValue, NEW l \in BOOLEAN, RC!SetConfig(v, l)
      PROVE  /\ undo' \in RC!Undo
             /\ guc' \in RC!GucValue /\ root_ctx' \in RC!RootCtx /\ Good'
  <2>1. undo' = RC!Undone(l) /\ RC!assign_traceparent(v)
    BY <1>5 DEF RC!SetConfig
  <2>2. RC!Undone(l) \in RC!Undo
    BY <1>1, <1>2 DEF RC!Undone, RC!Undo, RC!NoUndo
  <2> QED
    BY <1>3, <2>1, <2>2
<1>6. CASE RC!MessageM \/ RC!SetStatement
  <2>1. ASSUME NEW c \in Ctx \union {None}
        PROVE  /\ RC!MValue(c) \in RC!GucValue
               /\ [ctx |-> c, by |-> "set"] \in RC!GucValue
    BY <1>2 DEF RC!MValue, RC!GucValue
  <2>2. \/ \E v \in RC!GucValue, l \in BOOLEAN : RC!SetConfig(v, l)
        \/ UNCHANGED <<guc, undo, root_ctx>>
    BY <1>2, <1>6, <2>1 DEF RC!MessageM, RC!SetStatement, RC!trace_context_apply,
       RC!trace_context_rejected, RC!gucVars
  <2>3. undo' \in RC!Undo /\ guc' \in RC!GucValue /\ root_ctx' \in RC!RootCtx /\ Good'
    BY <1>1, <1>5, <2>2
  <2>4. otel_ctx_from_M_header' \in BOOLEAN
    BY <1>1, <1>6, Zenon DEF RC!MessageM, RC!SetStatement, RC!trace_context_apply,
       RC!trace_context_rejected
  <2>5. (level > 1 \/ (level = 1 /\ ~failed))' \in BOOLEAN
    BY Zenon
  <2>6. ready' \in BOOLEAN /\ m_seen' \in BOOLEAN
    BY <1>1, <1>6 DEF RC!MessageM, RC!SetStatement
  <2> QED
    BY <2>3, <2>4, <2>5, <2>6 DEF RC!TypeOK
<1>7. CASE RC!EndXact \/ RC!Begin
  <2>1. \/ undo' = RC!NoUndo /\ \E v \in RC!GucValue : RC!Restored(v)
        \/ undo' \in {undo, RC!NoUndo} /\ UNCHANGED <<guc, root_ctx>>
    BY <1>1, <1>7 DEF RC!EndXact, RC!Begin, RC!GucAtCommit, RC!GucAtAbort,
       RC!rootVars, RC!gucVars, RC!Undo
  <2>2. undo' \in RC!Undo /\ guc' \in RC!GucValue /\ root_ctx' \in RC!RootCtx /\ Good'
    BY <1>1, <1>2, <1>4, <2>1
  <2>3. (level > 1 \/ (level = 1 /\ ~failed))' \in BOOLEAN
    BY Zenon
  <2>4. /\ otel_ctx_from_M_header' \in BOOLEAN
        /\ ready' \in BOOLEAN /\ m_seen' \in BOOLEAN
    BY <1>1, <1>7 DEF RC!EndXact, RC!Begin, RC!rootVars
  <2> QED
    BY <2>2, <2>3, <2>4 DEF RC!TypeOK
<1>8. CASE RC!StatementStarts \/ RC!StatementEnds \/ RC!ReadyForQuery
           \/ UNCHANGED RC!rcVars
  <2>1. ASSUME NEW c \in Ctx
        PROVE  LET rc == RC!Commented(root_ctx, c)
               IN rc \in RC!RootCtx /\ (rc.is_set <=> rc.ctx # None)
    BY <1>1, <2>1, ContextsAssumption DEF RC!Commented, RC!RootCtx, RC!Origin
  <2>2. root_ctx' \in RC!RootCtx /\ Good'
    BY <1>1, <1>2, <1>8, <2>1 DEF RC!StatementStarts, RC!StatementEnds,
       RC!ReadyForQuery, RC!trace_context_clear, RC!Uncommented, RC!rcVars,
       RC!rootVars, RC!gucVars
  <2>3. UNCHANGED <<guc, undo>>
    BY <1>8 DEF RC!StatementStarts, RC!StatementEnds,
       RC!ReadyForQuery, RC!trace_context_clear, RC!rcVars,
       RC!rootVars, RC!gucVars
  <2>4. (level > 1 \/ (level = 1 /\ ~failed))' \in BOOLEAN
    BY Zenon
  <2>5. /\ otel_ctx_from_M_header' \in BOOLEAN
        /\ ready' \in BOOLEAN /\ m_seen' \in BOOLEAN
    BY <1>1, <1>8 DEF RC!StatementStarts, RC!StatementEnds,
       RC!ReadyForQuery, RC!trace_context_clear, RC!rcVars, RC!rootVars
  <2> QED
    BY <1>1, <2>2, <2>3, <2>4, <2>5 DEF RC!TypeOK
<1> QED
  BY <1>6, <1>7, <1>8 DEF RC!Next

(* The statement tracer is well typed; in particular push_stmt_span never  *)
(* writes past the end of the fixed-size stmt_stack.                       *)
THEOREM StackIsNotOverrun == Spec => []TypeOK
<1>1. Init => RC!TypeOK
  <2> SUFFICES ASSUME Init
               PROVE  RC!TypeOK
    OBVIOUS
  <2>1. /\ RC!RESET_VAL \in RC!GucValue /\ RC!NoUndo \in RC!Undo
        /\ RC!ResetCtx \in RC!RootCtx
        /\ ~RC!ResetCtx.is_set /\ RC!ResetCtx.ctx = None
    BY DEF RC!RESET_VAL, RC!GucValue, RC!NoUndo, RC!Undo, RC!ResetCtx,
           RC!RootCtx, RC!Origin
  <2>2. (level > 1 \/ (level = 1 /\ ~failed)) \in BOOLEAN
    BY Zenon
  <2> QED
    BY <2>1, <2>2 DEF Init, RC!Init, RC!TypeOK
<1>2. RC!TypeOK /\ [RC!Next]_RC!rcVars => RC!TypeOK'
  BY RootTypes
<1>3. StmtInv /\ RC!TypeOK => TypeOK
  BY DEF StmtInv, Types, TypeOK
<1> QED
  BY <1>1, <1>2, <1>3, StmtInvariant, HooksDriveRootContext, PTL
     DEF Spec, DrivesRootContext, RC!Spec

-----------------------------------------------------------------------------
(***************************************************************************)
(* The spans of statements: which are open, and which the active stack has.*)
(***************************************************************************)

(* A span on the active stack is open, or activated for a run.             *)
ActiveHeld ==
    \A e \in Items(active) :
        owner[e.span] > 0 \/ \E m \in 1..Depth : frames[m].act = e.span

(* No span is on the active stack twice.                                   *)
Distinct(act) ==
    \A j, k \in 1..Len(act) : j < k => act[j].span # act[k].span

(* Above the entry of a call there are only those of calls within it: what *)
(* its end takes along is of statements that have ended.                   *)
NestedActive ==
    \A k, m \in 1..Depth : \A i, j \in 1..Len(active) :
        /\ i < j /\ ~active[j].is_activation
        /\ active[j].span = frames[k].span
        /\ active[i].span \in {frames[m].span, frames[m].act}
        => m < k

(* A declared cursor's span is on the active stack only as activated, for  *)
(* a run of that cursor.                                                   *)
DeclaredActive ==
    \A p \in Portals : \A e \in Items(active) :
        portals[p].declared /\ e.span = portals[p].span =>
            /\ e.is_activation
            /\ \E m \in 1..Depth : /\ frames[m].kind = "run" /\ frames[m].name = p
                                   /\ frames[m].act = e.span

(* Every call and every cursor has a span of its own.                      *)
SpansDiffer ==
    /\ \A m, k \in 1..Depth :
         m # k /\ frames[m].span # 0 => frames[m].span # frames[k].span
    /\ \A m \in 1..Depth : \A p \in Portals :
         frames[m].span # 0 => frames[m].span # portals[p].span
    /\ \A p, q \in Portals :
         p # q /\ portals[p].span # 0 => portals[p].span # portals[q].span

(* The entry a failed cursor leaves is not that of an open span.           *)
OrphansEnded == \A e \in Items(stmt_stack) : e.orphan => owner[e.ref] = 0

(* Runs of portals activate a span, and of queries their own.              *)
RunFrames ==
    \A m \in 1..Depth :
        IF frames[m].kind = "run" THEN frames[m].name \in Portals
        ELSE frames[m].act # 0 =>
               frames[m].kind = "exec" /\ frames[m].act = frames[m].span

-----------------------------------------------------------------------------
(* t is what is left of s when entries are taken off the active stack.     *)
Shrinks(t, s) ==
    /\ t \in Seq(ActiveEntry)
    /\ Items(t) \subseteq Items(s)
    /\ \A j, k \in 1..Len(t) : j < k =>
         \E a, b \in 1..Len(s) : a < b /\ s[a] = t[j] /\ s[b] = t[k]

LEMMA ShrinksTwice ==
    ASSUME NEW r, NEW s, NEW t, Shrinks(s, r), Shrinks(t, s)
    PROVE  Shrinks(t, r)
<1>1. ASSUME NEW j \in 1..Len(t), NEW k \in 1..Len(t), j < k
      PROVE  \E a, b \in 1..Len(r) : a < b /\ r[a] = t[j] /\ r[b] = t[k]
  <2>1. PICK a, b \in 1..Len(s) : a < b /\ s[a] = t[j] /\ s[b] = t[k]
    BY <1>1 DEF Shrinks
  <2>2. PICK c, d \in 1..Len(r) : c < d /\ r[c] = s[a] /\ r[d] = s[b]
    BY <2>1 DEF Shrinks
  <2> QED
    BY <2>1, <2>2
<1> QED
  BY <1>1 DEF Shrinks

LEMMA KeepShrinks ==
    ASSUME NEW s \in Seq(ActiveEntry), NEW S
    PROVE  /\ Shrinks(Keep(s, S), s)
           /\ Items(Keep(s, S)) = Items(s) \intersect S
<1>1. PICK t : t = Keep(s, S)
  OBVIOUS
<1>2. t \in Seq(ActiveEntry) /\ Items(t) = Items(s) \intersect S
  BY <1>1, KeepItems
<1>3. ASSUME NEW j \in 1..Len(t), NEW k \in 1..Len(t), j < k
      PROVE  \E a, b \in 1..Len(s) : a < b /\ s[a] = t[j] /\ s[b] = t[k]
  <2>1. PICK at : Picks(at, Len(s), s, S, t)
    BY <1>1, KeepPicks
  <2>2. /\ at[j] \in 1..Len(s) /\ s[at[j]] = t[j]
        /\ at[k] \in 1..Len(s) /\ s[at[k]] = t[k]
        /\ at[j] < at[k]
    BY <1>3, <2>1 DEF Picks
  <2> QED
    BY <2>2
<1> QED
  BY <1>1, <1>2, <1>3 DEF Shrinks

LEMMA ActiveFields ==
    ASSUME NEW act \in Seq(ActiveEntry), NEW e \in Items(act)
    PROVE  /\ e \in ActiveEntry /\ e.span \in Spans /\ e.span # 0
           /\ e.is_activation \in BOOLEAN /\ e.lev \in 0..MAX_LEVEL
<1>1. e \in ActiveEntry
  BY ItemFacts
<1> QED
  BY <1>1, TracingAssumption DEF ActiveEntry

(* What a cut at a's entry leaves is below it: neither b nor above b, if b *)
(* is not below a.                                                         *)
LEMMA CutBelow ==
    ASSUME NEW act \in Seq(ActiveEntry), Distinct(act), NEW a, NEW b,
           PosIn(act, a) # {},
           \A i \in PosIn(act, a), j \in PosIn(act, b) : i <= j
    PROVE  /\ Shrinks(Cut(act, a), act)
           /\ \A e \in Items(Cut(act, a)) : e.span # b /\ e.span \notin Above(act, b)
<1>1. PICK n \in 1..Len(act) :
         n \in PosIn(act, a) /\ Cut(act, a) = Prefix(act, n - 1)
  <2>1. (CHOOSE k \in PosIn(act, a) : TRUE) \in PosIn(act, a)
    OBVIOUS
  <2>2. PosIn(act, a) \subseteq 1..Len(act)
    BY DEF PosIn
  <2>3. Cut(act, a) = Prefix(act, (CHOOSE k \in PosIn(act, a) : TRUE) - 1)
    BY DEF Cut
  <2> QED
    BY <2>1, <2>2, <2>3
<1>2. PICK t : t = Cut(act, a)
  OBVIOUS
<1>3. /\ t \in Seq(ActiveEntry) /\ Len(t) = n - 1 /\ Len(act) \in Nat
      /\ \A k \in 1..(n - 1) : t[k] = act[k]
      /\ Items(t) \subseteq Items(act)
  <2>1. n - 1 \in 0..Len(act)
    OBVIOUS
  <2> QED
    BY <1>1, <1>2, <2>1, PrefixFacts
<1>4. Shrinks(t, act)
  <2>1. ASSUME NEW j \in 1..Len(t), NEW k \in 1..Len(t), j < k
        PROVE  \E c, d \in 1..Len(act) : c < d /\ act[c] = t[j] /\ act[d] = t[k]
    BY <1>3, <2>1, SMTT(30)
  <2> QED
    BY <1>3, <2>1 DEF Shrinks
<1>5. ASSUME NEW e \in Items(t)
      PROVE  e.span # b /\ e.span \notin Above(act, b)
  <2>1. PICK i \in 1..(n - 1) : e = act[i]
    BY <1>3 DEF Items
  <2>2. i \in 1..Len(act) /\ i < n
    OBVIOUS
  <2>3. ASSUME NEW j \in 1..Len(act), act[j].span = e.span
        PROVE  j = i
    <3>1. i < j \/ j < i \/ j = i
      BY <1>3, <2>2
    <3> QED
      BY <2>1, <2>2, <2>3, <3>1 DEF Distinct
  <2>4. e.span # b
    <3>1. SUFFICES ASSUME e.span = b
                   PROVE  FALSE
      OBVIOUS
    <3>2. i \in PosIn(act, b)
      BY <2>1, <2>2, <3>1 DEF PosIn
    <3> QED
      BY <1>1, <2>2, <3>2
  <2>5. e.span \notin Above(act, b)
    <3>1. SUFFICES ASSUME e.span \in Above(act, b)
                   PROVE  FALSE
      OBVIOUS
    <3>2. PICK j \in 1..Len(act) :
             /\ act[j].span = e.span
             /\ \E k \in PosIn(act, b) : j > k
      BY <3>1 DEF Above
    <3>3. j = i
      BY <2>3, <3>2
    <3>4. PICK k \in PosIn(act, b) : j > k
      BY <3>2
    <3>5. n <= k /\ k \in 1..Len(act)
      BY <1>1, <3>4 DEF PosIn
    <3> QED
      BY <2>2, <3>3, <3>4, <3>5
  <2> QED
    BY <2>4, <2>5
<1> QED
  BY <1>2, <1>4, <1>5

LEMMA ShrinksSelf ==
    ASSUME NEW act \in Seq(ActiveEntry)
    PROVE  Shrinks(act, act)
  BY DEF Shrinks

LEMMA CutFacts ==
    ASSUME NEW act \in Seq(ActiveEntry), Distinct(act), NEW a
    PROVE  /\ Shrinks(Cut(act, a), act)
           /\ \A e \in Items(Cut(act, a)) : e.span # a /\ e.span \notin Above(act, a)
<1>1. CASE PosIn(act, a) = {}
  <2>1. Cut(act, a) = act
    BY <1>1 DEF Cut
  <2>2. Above(act, a) = {}
    BY <1>1 DEF Above
  <2>3. ASSUME NEW e \in Items(act)
        PROVE  e.span # a
    BY <1>1, <2>3 DEF PosIn, Items
  <2> QED
    BY <2>1, <2>2, <2>3, ShrinksSelf
<1>2. CASE PosIn(act, a) # {}
  <2>1. ASSUME NEW i \in PosIn(act, a), NEW j \in PosIn(act, a)
        PROVE  i <= j
    <3>1. /\ i \in 1..Len(act) /\ j \in 1..Len(act) /\ Len(act) \in Nat
          /\ act[i].span = act[j].span
      BY <2>1 DEF PosIn
    <3>2. ~(j < i)
      BY <3>1 DEF Distinct
    <3> QED
      BY <3>1, <3>2
  <2> QED
    BY <1>2, <2>1, CutBelow
<1> QED
  BY <1>1, <1>2

-----------------------------------------------------------------------------
(* When calls return or are unwound, portals close or fail, and entries go *)
(* from the active stack, with any span activated by a call that is gone.  *)
PortalsSame ==
    \A p \in Portals :
        \/ portals'[p].span = 0 /\ ~portals'[p].declared
        \/ /\ portals'[p].span = portals[p].span
           /\ portals'[p].declared = portals[p].declared

ActiveInv ==
    /\ ActiveHeld
    /\ Distinct(active)
    /\ NestedActive
    /\ DeclaredActive
    /\ SpansDiffer
    /\ RunFrames

LEMMA SpansThin ==
    ASSUME Types, ActiveInv, NEW n \in 0..Depth,
           Depth' = n,
           \A k \in 1..n : /\ Alike(frames[k], frames'[k])
                           /\ frames'[k].act \in {0, frames[k].act},
           PortalsSame,
           Shrinks(active', active),
           \A e \in Items(active') : owner[e.span] > 0 => owner'[e.span] > 0,
           \A e \in Items(active') : \A m \in 1..Depth :
               frames[m].act = e.span =>
                 m \in 1..n /\ frames'[m].act = frames[m].act
    PROVE  ActiveInv'
<1>0. /\ active \in Seq(ActiveEntry) /\ active' \in Seq(ActiveEntry)
      /\ Items(active') \subseteq Items(active)
      /\ Depth \in Nat /\ n \in Nat
  BY DEF Shrinks, Types, Depth
<1>1. \A e \in Items(active') : e.span \in Spans /\ e.span # 0
  BY <1>0, ActiveFields
<1>a. \A k \in 1..n : /\ k \in 1..Depth
                      /\ frames'[k].kind = frames[k].kind
                      /\ frames'[k].name = frames[k].name
                      /\ frames'[k].span = frames[k].span
                      /\ frames'[k].act \in {0, frames[k].act}
  BY <1>0 DEF Alike
<1>3. ActiveHeld'
  <2> SUFFICES ASSUME NEW e \in Items(active')
               PROVE  owner'[e.span] > 0 \/ \E m \in 1..n : frames'[m].act = e.span
    BY DEF ActiveHeld
  <2>1. owner[e.span] > 0 \/ \E m \in 1..Depth : frames[m].act = e.span
    BY <1>0 DEF ActiveInv, ActiveHeld
  <2>2. CASE owner[e.span] > 0
    BY <2>2
  <2>3. CASE \E m \in 1..Depth : frames[m].act = e.span
    BY <2>3
  <2> QED
    BY <2>1, <2>2, <2>3
<1>4. Distinct(active')
  BY SMTT(30) DEF Shrinks, ActiveInv, Distinct
<1>5. NestedActive'
  <2> SUFFICES ASSUME NEW k \in 1..n, NEW m \in 1..n,
                      NEW i \in 1..Len(active'), NEW j \in 1..Len(active'),
                      i < j, ~active'[j].is_activation,
                      active'[j].span = frames'[k].span,
                      active'[i].span \in {frames'[m].span, frames'[m].act}
               PROVE  m < k
    BY DEF NestedActive
  <2>1. PICK a, b \in 1..Len(active) :
           a < b /\ active[a] = active'[i] /\ active[b] = active'[j]
    BY DEF Shrinks
  <2>2. k \in 1..Depth /\ m \in 1..Depth
    BY <1>0
  <2>3. active'[i].span # 0
    BY <1>1 DEF Items
  <2>4. /\ active[b].span = frames[k].span
        /\ active[a].span \in {frames[m].span, frames[m].act}
    BY <1>a, <2>1, <2>3
  <2>5. ~active[b].is_activation
    BY <2>1
  <2> QED
    BY <2>1, <2>2, <2>4, <2>5, Zenon DEF ActiveInv, NestedActive
<1>6. DeclaredActive'
  <2> SUFFICES ASSUME NEW p \in Portals, NEW e \in Items(active'),
                      portals'[p].declared, e.span = portals'[p].span
               PROVE  /\ e.is_activation
                      /\ \E m \in 1..n : /\ frames'[m].kind = "run"
                                         /\ frames'[m].name = p
                                         /\ frames'[m].act = e.span
    BY DEF DeclaredActive
  <2>1. e \in Items(active)
    BY <1>0
  <2>2. portals[p].declared /\ e.span = portals[p].span
    BY DEF PortalsSame
  <2>3. /\ e.is_activation
        /\ \E m \in 1..Depth : /\ frames[m].kind = "run" /\ frames[m].name = p
                               /\ frames[m].act = e.span
    BY <2>1, <2>2 DEF ActiveInv, DeclaredActive
  <2>4. PICK m \in 1..Depth : /\ frames[m].kind = "run" /\ frames[m].name = p
                              /\ frames[m].act = e.span
    BY <2>3
  <2>5. m \in 1..n /\ frames'[m].act = e.span
    BY <2>4
  <2> QED
    BY <1>a, <2>3, <2>4, <2>5
<1>7. SpansDiffer'
  <2>2. \A p \in Portals : portals'[p].span \in {0, portals[p].span}
    BY DEF PortalsSame
  <2>3. \A m, k \in 1..n :
           m # k /\ frames'[m].span # 0 => frames'[m].span # frames'[k].span
    BY <1>a DEF ActiveInv, SpansDiffer
  <2>4. \A m \in 1..n : \A p \in Portals :
           frames'[m].span # 0 => frames'[m].span # portals'[p].span
    BY <1>a, <2>2 DEF ActiveInv, SpansDiffer
  <2>5. \A p, q \in Portals :
           p # q /\ portals'[p].span # 0 => portals'[p].span # portals'[q].span
    BY <2>2 DEF ActiveInv, SpansDiffer
  <2> QED
    BY <2>3, <2>4, <2>5 DEF SpansDiffer
<1>8. RunFrames'
  <2> SUFFICES ASSUME NEW m \in 1..n
               PROVE  IF frames'[m].kind = "run" THEN frames'[m].name \in Portals
                      ELSE frames'[m].act # 0 =>
                             /\ frames'[m].kind = "exec"
                             /\ frames'[m].act = frames'[m].span
    BY DEF RunFrames
  <2> QED
    BY <1>a DEF ActiveInv, RunFrames
<1> QED
  BY <1>3, <1>4, <1>5, <1>6, <1>7, <1>8 DEF ActiveInv

LEMMA SpansShrink ==
    ASSUME Types, ActiveInv, NEW n \in 0..Depth,
           Depth' = n, \A k \in 1..n : frames'[k] = frames[k],
           PortalsSame,
           Shrinks(active', active),
           \A e \in Items(active') : owner[e.span] > 0 => owner'[e.span] > 0,
           \A e \in Items(active') : \A m \in (n + 1)..Depth :
               frames[m].act # e.span
    PROVE  ActiveInv'
<1>1. Depth \in Nat /\ n \in Nat
  BY DEF Types, Depth
<1>2. \A k \in 1..n : /\ Alike(frames[k], frames'[k])
                      /\ frames'[k].act \in {0, frames[k].act}
  BY DEF Alike
<1>3. ASSUME NEW e \in Items(active'), NEW m \in 1..Depth, frames[m].act = e.span
      PROVE  m \in 1..n /\ frames'[m].act = frames[m].act
  <2>1. ~(m \in (n + 1)..Depth)
    BY <1>3
  <2>2. m \in 1..n
    BY <1>1, <2>1
  <2> QED
    BY <2>2
<1> QED
  BY <1>2, <1>3, SpansThin

(* A fresh id is not on the active stack.                                  *)
LEMMA UnusedInactive ==
    ASSUME Types, ActiveHeld, NEW s \in Unused, NEW e \in Items(active)
    PROVE  e.span # s
  BY UnusedFacts DEF ActiveHeld

(* Something starts: a call with its span, or a portal with it; the span   *)
(* may come to nothing, and may be put on the active stack.                *)
SpanStarted(s) ==
    \/ UNCHANGED <<owner, active>>
    \/ /\ \A t \in Spans : owner'[t] = IF t = s THEN level ELSE owner[t]
       /\ \/ UNCHANGED active
          \/ active' = Append(active, [span |-> s, lev |-> level,
                                       is_activation |-> FALSE])

LEMMA StartedActive ==
    ASSUME Types, level > 0, ActiveInv, NEW s,
           s \in Unused \/ (s = 0 /\ UNCHANGED <<owner, active>>),
           SpanStarted(s)
    PROVE  /\ active' \in Seq(ActiveEntry)
           /\ \A e \in Items(active') :
                e \in Items(active) \/ e.span = s
           /\ \A e \in Items(active') : e.span = s => owner'[s] > 0
           /\ \A e \in Items(active) : owner'[e.span] = owner[e.span]
           /\ Distinct(active')
           /\ \A i, j \in 1..Len(active') : i < j =>
                /\ i \in 1..Len(active) /\ active'[i] = active[i]
                /\ \/ j \in 1..Len(active) /\ active'[j] = active[j]
                   \/ active'[j].span = s
<1>0. /\ s # 0 => s \in Spans
      /\ level \in 0..MAX_LEVEL /\ active \in Seq(ActiveEntry)
      /\ Len(active) \in Nat
  BY UnusedFacts DEF Types
<1>1. /\ \A e \in Items(active) : e.span # s /\ e.span \in Spans
      /\ \A k \in 1..Len(active) : active[k] \in Items(active)
      /\ Distinct(active)
  <2>1. active \in Seq(ActiveEntry) /\ ActiveHeld /\ Distinct(active)
    BY DEF ActiveInv, Types
  <2>2. \A e \in Items(active) : e.span \in Spans /\ e.span # 0
    BY <2>1, ActiveFields
  <2>3. \A e \in Items(active) : e.span # s
    BY <2>1, <2>2, UnusedInactive
  <2>4. \A k \in 1..Len(active) : active[k] \in Items(active)
    BY DEF Items
  <2> QED
    BY <2>1, <2>2, <2>3, <2>4
<1>2. \A e \in Items(active) : owner'[e.span] = owner[e.span]
  BY <1>1 DEF SpanStarted
<1>3. CASE UNCHANGED active
  BY <1>0, <1>1, <1>2, <1>3
<1>4. CASE active # active'
  <2>1. PICK x : x = [span |-> s, lev |-> level, is_activation |-> FALSE]
    OBVIOUS
  <2>2. s \in Spans
    BY <1>0, <1>4, UnusedFacts
  <2>7. x \in ActiveEntry /\ x.span = s
    BY <1>0, <2>1, <2>2 DEF ActiveEntry
  <2>3. active' = Append(active, x) /\ owner'[s] = level
    BY <1>0, <1>4, <2>1, <2>2 DEF SpanStarted
  <2>4. /\ active' \in Seq(ActiveEntry) /\ Len(active') = Len(active) + 1
        /\ \A k \in 1..Len(active) : active'[k] = active[k]
        /\ active'[Len(active) + 1] = x
        /\ Items(active') = Items(active) \union {x}
    BY <1>0, <2>3, <2>7, PushFacts
  <2>5. ASSUME NEW i \in 1..Len(active'), NEW j \in 1..Len(active'), i < j
        PROVE  /\ i \in 1..Len(active) /\ active'[i] = active[i]
               /\ \/ j \in 1..Len(active) /\ active'[j] = active[j]
                  \/ active'[j].span = s
               /\ active'[i].span # active'[j].span
    <3>1. i \in 1..Len(active) /\ active'[i] = active[i] /\ active[i].span # s
      BY <1>0, <1>1, <2>4, <2>5
    <3>2. CASE j \in 1..Len(active)
      BY <1>1, <2>4, <2>5, <3>1, <3>2 DEF Distinct
    <3>3. CASE j = Len(active) + 1
      BY <2>4, <2>7, <3>1, <3>3
    <3> QED
      BY <1>0, <2>4, <3>2, <3>3
  <2>6. Distinct(active')
    BY <2>5 DEF Distinct
  <2> QED
    BY <1>0, <1>2, <2>2, <2>3, <2>4, <2>5, <2>6, <2>7
<1> QED
  BY <1>3, <1>4

(* A call starts.                                                          *)
LEMMA CallStarts ==
    ASSUME Types, level > 0, ActiveInv,
           NEW f \in Frame, frames' = Append(frames, f),
           f.kind # "run", f.act = 0,
           f.span \in Unused \/ (f.span = 0 /\ UNCHANGED <<owner, active>>),
           SpanStarted(f.span), UNCHANGED portals
    PROVE  ActiveInv'
<1> DEFINE s == f.span
<1>0. /\ Depth' = Depth + 1 /\ Depth \in Nat
      /\ \A k \in 1..Depth : frames'[k] = frames[k]
      /\ frames'[Depth + 1] = f
  BY PushedFrame
<1>1. ASSUME NEW k \in 1..(Depth + 1), k \notin 1..Depth
      PROVE  k = Depth + 1
  BY <1>0, <1>1
<1>2. s # 0 => /\ \A k \in 1..Depth : frames[k].span # s /\ frames[k].act # s
               /\ \A p \in Portals : portals[p].span # s
  BY UnusedFacts
<1>3. /\ active' \in Seq(ActiveEntry)
      /\ \A e \in Items(active') : e \in Items(active) \/ e.span = s
      /\ \A e \in Items(active') : e.span = s => owner'[s] > 0
      /\ \A e \in Items(active) : owner'[e.span] = owner[e.span]
      /\ Distinct(active')
      /\ \A i, j \in 1..Len(active') : i < j =>
           /\ i \in 1..Len(active) /\ active'[i] = active[i]
           /\ \/ j \in 1..Len(active) /\ active'[j] = active[j]
              \/ active'[j].span = s
  BY StartedActive
<1>4. \A e \in Items(active') : e.span # 0
  BY <1>3, ActiveFields
<1>5. \A e \in Items(active) : e.span # s /\ e.span # 0
  <2>1. active \in Seq(ActiveEntry) /\ ActiveHeld
    BY DEF Types, ActiveInv
  <2>2. \A e \in Items(active) : e.span # 0
    BY <2>1, ActiveFields
  <2> QED
    BY <2>1, <2>2, UnusedInactive
<1> HIDE DEF s
<1>6. f.span = s
  BY DEF s
<1>7. ActiveHeld'
  <2> SUFFICES ASSUME NEW e \in Items(active')
               PROVE  owner'[e.span] > 0 \/ \E m \in 1..(Depth + 1) : frames'[m].act = e.span
    BY <1>0 DEF ActiveHeld
  <2>1. CASE e.span = s
    BY <1>3, <2>1
  <2>2. CASE e \in Items(active)
    <3>1. owner[e.span] > 0 \/ \E m \in 1..Depth : frames[m].act = e.span
      BY <2>2 DEF ActiveInv, ActiveHeld
    <3>2. \A m \in 1..Depth : m \in 1..(Depth + 1)
      BY <1>0
    <3> QED
      BY <1>0, <1>3, <2>2, <3>1, <3>2
  <2> QED
    BY <1>3, <2>1, <2>2
<1>8. NestedActive'
  <2> SUFFICES ASSUME NEW k \in 1..Depth', NEW m \in 1..Depth',
                      NEW i \in 1..Len(active'), NEW j \in 1..Len(active'),
                      i < j, ~active'[j].is_activation,
                      active'[j].span = frames'[k].span,
                      active'[i].span \in {frames'[m].span, frames'[m].act}
               PROVE  m < k
    BY DEF NestedActive
  <2>0. k \in 1..(Depth + 1) /\ m \in 1..(Depth + 1)
    BY <1>0
  <2>1. /\ i \in 1..Len(active) /\ active'[i] = active[i]
        /\ active[i] \in Items(active)
    BY <1>3 DEF Items
  <2>2. m \in 1..Depth
    <3>1. SUFFICES ASSUME m = Depth + 1
                   PROVE  FALSE
      BY <1>1, <2>0
    <3> QED
      BY <1>0, <1>5, <1>6, <2>1, <3>1
  <2>3. CASE k = Depth + 1
    BY <1>0, <2>2, <2>3
  <2>4. CASE k \in 1..Depth
    <3>1. active'[j].span # 0 /\ active'[j] \in Items(active')
      BY <1>4 DEF Items
    <3>2. active'[j].span # s
      BY <1>0, <1>2, <2>4, <3>1
    <3>3. j \in 1..Len(active) /\ active'[j] = active[j]
      BY <1>3, <3>2
    <3> QED
      BY <1>0, <2>1, <2>2, <2>4, <3>3 DEF ActiveInv, NestedActive
  <2> QED
    BY <1>1, <2>0, <2>3, <2>4
<1>9. DeclaredActive'
  <2> SUFFICES ASSUME NEW p \in Portals, NEW e \in Items(active'),
                      portals[p].declared, e.span = portals[p].span
               PROVE  /\ e.is_activation
                      /\ \E m \in 1..Depth' :
                           /\ frames'[m].kind = "run" /\ frames'[m].name = p
                           /\ frames'[m].act = e.span
    BY DEF DeclaredActive
  <2>1. e \in Items(active)
    BY <1>2, <1>3, <1>4
  <2>2. /\ e.is_activation
        /\ \E m \in 1..Depth : /\ frames[m].kind = "run" /\ frames[m].name = p
                               /\ frames[m].act = e.span
    BY <2>1 DEF ActiveInv, DeclaredActive
  <2>3. \A m \in 1..Depth : m \in 1..Depth'
    BY <1>0
  <2> QED
    BY <1>0, <2>2, <2>3, ZenonT(30)
<1>10. SpansDiffer'
  <2>1. \A m, k \in 1..(Depth + 1) :
           m # k /\ frames'[m].span # 0 => frames'[m].span # frames'[k].span
    <3> SUFFICES ASSUME NEW m \in 1..(Depth + 1), NEW k \in 1..(Depth + 1),
                        m # k, frames'[m].span # 0
                 PROVE  frames'[m].span # frames'[k].span
      BY ZenonT(30)
    <3>1. CASE m \in 1..Depth /\ k \in 1..Depth
      <4>1. frames'[m] = frames[m] /\ frames'[k] = frames[k]
        BY <1>0, <3>1
      <4>2. SpansDiffer
        BY DEF ActiveInv
      <4> QED
        BY <3>1, <4>1, <4>2, Zenon DEF SpansDiffer
    <3>2. CASE m \notin 1..Depth
      <4>1. m = Depth + 1 /\ k \in 1..Depth
        BY <1>1, <3>2
      <4>2. frames'[m].span = s /\ s # 0 /\ frames'[k].span = frames[k].span
        BY <1>0, <1>6, <4>1
      <4> QED
        BY <1>2, <4>1, <4>2
    <3>3. CASE k \notin 1..Depth
      <4>1. k = Depth + 1 /\ m \in 1..Depth
        BY <1>1, <3>3
      <4>2. frames'[k].span = s /\ frames'[m].span = frames[m].span
        BY <1>0, <1>6, <4>1
      <4> QED
        BY <1>2, <4>1, <4>2
    <3> QED
      BY <3>1, <3>2, <3>3
  <2>2. ASSUME NEW m \in 1..(Depth + 1), NEW p \in Portals,
               frames'[m].span # 0
        PROVE  frames'[m].span # portals[p].span
    <3>1. CASE m \in 1..Depth
      <4>1. frames'[m] = frames[m]
        BY <1>0, <3>1
      <4>2. SpansDiffer
        BY DEF ActiveInv
      <4> QED
        BY <2>2, <3>1, <4>1, <4>2, Zenon DEF SpansDiffer
    <3>2. CASE m = Depth + 1
      BY <1>0, <1>2, <1>6, <2>2, <3>2
    <3> QED
      BY <1>1, <3>1, <3>2
  <2>3. \A m \in 1..Depth' : m \in 1..(Depth + 1)
    BY <1>0
  <2>4. \A p, q \in Portals :
           p # q /\ portals[p].span # 0 => portals[p].span # portals[q].span
    BY DEF ActiveInv, SpansDiffer
  <2> QED
    BY <2>1, <2>2, <2>3, <2>4, ZenonT(30) DEF SpansDiffer
<1>11. RunFrames'
  <2> SUFFICES ASSUME NEW m \in 1..(Depth + 1)
               PROVE  IF frames'[m].kind = "run" THEN frames'[m].name \in Portals
                      ELSE frames'[m].act # 0 =>
                             /\ frames'[m].kind = "exec"
                             /\ frames'[m].act = frames'[m].span
    BY <1>0 DEF RunFrames
  <2> QED
    BY <1>0, <1>1 DEF ActiveInv, RunFrames
<1> QED
  BY <1>3, <1>7, <1>8, <1>9, <1>10, <1>11 DEF ActiveInv

(* A portal is opened; a declared one's span is not put on the active      *)
(* stack.                                                                  *)
LEMMA PortalOpens ==
    ASSUME Types, level > 0, ActiveInv, NEW p \in Portals, NEW r,
           portals' = [portals EXCEPT ![p] = r],
           r.span \in Unused \/ (r.span = 0 /\ UNCHANGED <<owner, active>>),
           SpanStarted(r.span), r.declared => UNCHANGED active,
           NEW f \in Frame, frames' = Append(frames, f),
           f.kind = "start", f.span = 0, f.act = 0
    PROVE  ActiveInv'
<1>0. PICK s : s = r.span
  OBVIOUS
<1>1. /\ portals'[p] = r
      /\ \A q \in Portals : q # p => portals'[q] = portals[q]
  BY DEF Types
<1>2. s # 0 => /\ \A k \in 1..Depth : frames[k].span # s /\ frames[k].act # s
               /\ \A q \in Portals : portals[q].span # s
  BY <1>0, UnusedFacts
<1>3. /\ active' \in Seq(ActiveEntry)
      /\ \A e \in Items(active') : e \in Items(active) \/ e.span = s
      /\ \A e \in Items(active') : e.span = s => owner'[s] > 0
      /\ \A e \in Items(active) : owner'[e.span] = owner[e.span]
      /\ Distinct(active')
      /\ \A i, j \in 1..Len(active') : i < j =>
           /\ i \in 1..Len(active) /\ active'[i] = active[i]
           /\ \/ j \in 1..Len(active) /\ active'[j] = active[j]
              \/ active'[j].span = s
  BY <1>0, StartedActive
<1>4. \A e \in Items(active') : e.span # 0
  BY <1>3, ActiveFields
<1>5. \A e \in Items(active) : e.span # s /\ e.span # 0
  <2>1. active \in Seq(ActiveEntry) /\ ActiveHeld
    BY DEF Types, ActiveInv
  <2>2. \A e \in Items(active) : e.span # 0
    BY <2>1, ActiveFields
  <2> QED
    BY <1>0, <2>1, <2>2, UnusedInactive
<1>6. /\ Depth' = Depth + 1 /\ Depth \in Nat
      /\ \A k \in 1..Depth : frames'[k] = frames[k]
      /\ frames'[Depth + 1] = f
  BY PushedFrame
<1>a. \A k \in 1..Depth' : \/ k \in 1..Depth /\ frames'[k] = frames[k]
                           \/ k = Depth + 1 /\ frames'[k] = f
  <2>1. \A k \in 1..(Depth + 1) : k \in 1..Depth \/ k = Depth + 1
    BY <1>6
  <2> QED
    BY <1>6, <2>1
<1>b. \A k \in 1..Depth : k \in 1..Depth'
  BY <1>6
<1>7. ActiveHeld'
  <2> SUFFICES ASSUME NEW e \in Items(active')
               PROVE  owner'[e.span] > 0 \/ \E m \in 1..Depth' : frames'[m].act = e.span
    BY DEF ActiveHeld
  <2>1. CASE e.span = s
    BY <1>3, <2>1
  <2>2. CASE e \in Items(active)
    <3>1. owner[e.span] > 0 \/ \E m \in 1..Depth : frames[m].act = e.span
      BY <2>2 DEF ActiveInv, ActiveHeld
    <3> QED
      BY <1>3, <1>6, <1>b, <2>2, <3>1
  <2> QED
    BY <1>3, <2>1, <2>2
<1>8. NestedActive'
  <2> SUFFICES ASSUME NEW k \in 1..Depth', NEW m \in 1..Depth',
                      NEW i \in 1..Len(active'), NEW j \in 1..Len(active'),
                      i < j, ~active'[j].is_activation,
                      active'[j].span = frames'[k].span,
                      active'[i].span \in {frames'[m].span, frames'[m].act}
               PROVE  m < k
    BY DEF NestedActive
  <2>2. i \in 1..Len(active) /\ active'[i] = active[i]
    BY <1>3
  <2>3. active'[j].span # 0 /\ active'[i].span # 0
    BY <1>4 DEF Items
  <2>1. /\ k \in 1..Depth /\ frames'[k] = frames[k]
        /\ m \in 1..Depth /\ frames'[m] = frames[m]
    BY <1>a, <2>3
  <2>4. active'[j].span # s
    BY <1>2, <2>1, <2>3
  <2>5. j \in 1..Len(active) /\ active'[j] = active[j]
    BY <1>3, <2>4
  <2> QED
    BY <2>1, <2>2, <2>5 DEF ActiveInv, NestedActive
<1>9. DeclaredActive'
  <2> SUFFICES ASSUME NEW q \in Portals, NEW e \in Items(active'),
                      portals'[q].declared, e.span = portals'[q].span
               PROVE  /\ e.is_activation
                      /\ \E m \in 1..Depth' :
                           /\ frames'[m].kind = "run" /\ frames'[m].name = q
                           /\ frames'[m].act = e.span
    BY DEF DeclaredActive
  <2>1. q # p
    <3>1. SUFFICES ASSUME q = p
                   PROVE  FALSE
      OBVIOUS
    <3>2. e \in Items(active) /\ e.span = s
      BY <1>0, <1>1, <3>1
    <3> QED
      BY <1>5, <3>2
  <2>2. portals[q].declared /\ e.span = portals[q].span
    BY <1>1, <2>1
  <2>3. e \in Items(active)
    BY <1>2, <1>3, <1>4, <2>2
  <2>4. /\ e.is_activation
        /\ \E m \in 1..Depth : /\ frames[m].kind = "run" /\ frames[m].name = q
                               /\ frames[m].act = e.span
    BY <2>2, <2>3 DEF ActiveInv, DeclaredActive
  <2> QED
    BY <1>6, <1>b, <2>4
<1>10. SpansDiffer'
  <2>1. SpansDiffer
    BY DEF ActiveInv
  <2>2. \A m, k \in 1..Depth :
           m # k /\ frames[m].span # 0 => frames[m].span # frames[k].span
    BY <2>1, Zenon DEF SpansDiffer
  <2>3. ASSUME NEW m \in 1..Depth, NEW q \in Portals, frames[m].span # 0
        PROVE  frames[m].span # portals'[q].span
    <3>1. CASE q = p
      BY <1>0, <1>1, <1>2, <2>3, <3>1
    <3>2. CASE q # p
      <4>1. portals'[q] = portals[q]
        BY <1>1, <3>2
      <4> QED
        BY <2>1, <2>3, <4>1, Zenon DEF SpansDiffer
    <3> QED
      BY <3>1, <3>2
  <2>4. ASSUME NEW q \in Portals, NEW o \in Portals, q # o, portals'[q].span # 0
        PROVE  portals'[q].span # portals'[o].span
    <3>1. CASE q # p /\ o # p
      <4>1. portals'[q] = portals[q] /\ portals'[o] = portals[o]
        BY <1>1, <3>1
      <4> QED
        BY <2>1, <2>4, <4>1, Zenon DEF SpansDiffer
    <3>2. CASE q = p
      <4>1. portals'[q].span = s /\ portals'[o] = portals[o] /\ s # 0
        BY <1>0, <1>1, <2>4, <3>2
      <4> QED
        BY <1>2, <4>1
    <3>3. CASE o = p
      <4>1. portals'[o].span = s /\ portals'[q] = portals[q]
        BY <1>0, <1>1, <2>4, <3>3
      <4> QED
        BY <1>2, <2>4, <4>1
    <3> QED
      BY <3>1, <3>2, <3>3
  <2>5. \A m, k \in 1..Depth' :
           m # k /\ frames'[m].span # 0 => frames'[m].span # frames'[k].span
    <3> SUFFICES ASSUME NEW m \in 1..Depth', NEW k \in 1..Depth', m # k,
                        frames'[m].span # 0
                 PROVE  frames'[m].span # frames'[k].span
      BY ZenonT(30)
    <3>1. m \in 1..Depth /\ frames'[m] = frames[m]
      BY <1>a
    <3>2. CASE k \in 1..Depth /\ frames'[k] = frames[k]
      BY <2>2, <3>1, <3>2
    <3>3. CASE frames'[k] = f
      BY <3>3
    <3> QED
      BY <1>a, <3>2, <3>3
  <2>6. ASSUME NEW m \in 1..Depth', NEW q \in Portals, frames'[m].span # 0
        PROVE  frames'[m].span # portals'[q].span
    <3>1. m \in 1..Depth /\ frames'[m] = frames[m]
      BY <1>a, <2>6
    <3> QED
      BY <2>3, <2>6, <3>1
  <2> QED
    BY <2>4, <2>5, <2>6 DEF SpansDiffer
<1>11. RunFrames'
  <2>1. RunFrames
    BY DEF ActiveInv
  <2> QED
    BY <1>a, <2>1 DEF RunFrames
<1> QED
  BY <1>3, <1>7, <1>8, <1>9, <1>10, <1>11 DEF ActiveInv

-----------------------------------------------------------------------------
(* What a portal's run finds of its cursor: an open span is the cursor's.  *)
LEMMA PeekedEntry ==
    ASSUME StmtInv, OrphansEnded, NEW key, NEW s,
           s = peek_cursor_span(key), s # 0, owner[s] > 0
    PROVE  /\ s \in Spans
           /\ \E e \in Items(stmt_stack) :
                e.key = key /\ e.ref = s /\ LiveEntry(e)
<1>1. PICK n : n = FoundAt(stmt_stack, key)
  OBVIOUS
<1>2. /\ Found(stmt_stack, key) # {} /\ stmt_stack[n].detached
      /\ s = stmt_stack[n].ref
  BY <1>1 DEF peek_cursor_span, PoppedRef
<1>3. n \in 1..Len(stmt_stack) /\ stmt_stack[n].key = key
  BY <1>1, <1>2, FoundAtFacts DEF StmtInv, Types
<1>4. PICK e : e = stmt_stack[n]
  OBVIOUS
<1>5. e \in Items(stmt_stack)
  BY <1>3, <1>4 DEF Items
<1>6. /\ e \in StmtSpanEntry /\ e.key \in Int /\ e.ref \in Spans
      /\ ~e.orphan => LiveEntry(e)
  BY <1>5, EntryFacts
<1>7. ~e.orphan
  <2>1. owner[e.ref] > 0
    BY <1>2, <1>4
  <2> QED
    BY <1>5, <2>1 DEF OrphansEnded
<1> QED
  BY <1>2, <1>3, <1>4, <1>5, <1>6, <1>7

LEMMA PeekedIsPortals ==
    ASSUME StmtInv, OrphansEnded, NEW p \in Portals, NEW s,
           s = peek_cursor_span(-p), s # 0, owner[s] > 0
    PROVE  s \in Spans /\ portals[p].span = s
<1>1. PICK e \in Items(stmt_stack) : e.key = -p /\ e.ref = s /\ LiveEntry(e)
  BY PeekedEntry
<1>2. e.key < 0 /\ -e.key = p
  BY <1>1, TracingAssumption
<1> QED
  BY <1>1, <1>2, PeekedEntry DEF LiveEntry

(* ... and a query's run, of a query taken for its cursor's: its own.      *)
LEMMA PeekedIsQuerys ==
    ASSUME StmtInv, OrphansEnded, Depth > 0, NEW s,
           s = peek_cursor_span(Depth), s # 0, owner[s] > 0
    PROVE  s \in Spans /\ frames[Depth].span = s
<1>1. PICK e \in Items(stmt_stack) : e.key = Depth /\ e.ref = s /\ LiveEntry(e)
  BY PeekedEntry
<1> QED
  BY <1>1, PeekedEntry DEF LiveEntry

(* A span is activated that is not on the active stack.                    *)
LEMMA Activates ==
    ASSUME Types, Distinct(active), NEW a \in Spans, PosIn(active, a) = {},
           active' = Append(active, Activation(a))
    PROVE  /\ active' \in Seq(ActiveEntry)
           /\ Distinct(active')
           /\ \A e \in Items(active') :
                e \in Items(active) \/ (e.span = a /\ e.is_activation)
           /\ \A i, j \in 1..Len(active') : i < j =>
                /\ i \in 1..Len(active) /\ active'[i] = active[i]
                /\ \/ j \in 1..Len(active) /\ active'[j] = active[j]
                   \/ active'[j].is_activation
<1>1. active \in Seq(ActiveEntry) /\ Len(active) \in Nat
  BY DEF Types
<1>2. \A e \in Items(active) : e.span # a
  BY DEF PosIn, Items
<1>3. PICK x : x = Activation(a)
  OBVIOUS
<1>4. x \in ActiveEntry /\ x.span = a /\ x.is_activation
  BY <1>3 DEF ActiveEntry, Activation, Types
<1>5. /\ active' \in Seq(ActiveEntry) /\ Len(active') = Len(active) + 1
      /\ \A k \in 1..Len(active) : active'[k] = active[k]
      /\ active'[Len(active) + 1] = x
      /\ Items(active') = Items(active) \union {x}
  BY <1>1, <1>3, <1>4, PushFacts
<1>6. ASSUME NEW i \in 1..Len(active'), NEW j \in 1..Len(active'), i < j
      PROVE  /\ i \in 1..Len(active) /\ active'[i] = active[i]
             /\ \/ j \in 1..Len(active) /\ active'[j] = active[j]
                \/ active'[j].is_activation
             /\ active'[i].span # active'[j].span
  <2>1. i \in 1..Len(active) /\ active'[i] = active[i]
        /\ active[i] \in Items(active)
    BY <1>1, <1>5, <1>6 DEF Items
  <2>2. CASE j \in 1..Len(active)
    <3>1. active'[j] = active[j]
      BY <1>5, <2>2
    <3> QED
      BY <1>6, <2>1, <2>2, <3>1 DEF Distinct
  <2>3. CASE j = Len(active) + 1
    BY <1>2, <1>4, <1>5, <2>1, <2>3
  <2> QED
    BY <1>1, <1>5, <2>2, <2>3
<1>7. Distinct(active')
  BY <1>6 DEF Distinct
<1> QED
  BY <1>4, <1>5, <1>6, <1>7

(* A run of a portal starts.                                               *)
LEMMA RunStarts ==
    ASSUME StmtInv, ActiveInv, OrphansEnded, NEW p \in Portals, ExecutorRun(p)
    PROVE  ActiveInv'
<1>0. PICK s : s = peek_cursor_span(-p)
  OBVIOUS
<1>1. PICK a : a = IF Activatable(s) THEN s ELSE 0
  OBVIOUS
<1>2. PICK f : f = [ExecFrame EXCEPT !.kind = "run", !.name = p, !.act = a]
  OBVIOUS
<1>3. /\ frames' = Append(frames, f)
      /\ active' = IF a = 0 THEN active ELSE Append(active, Activation(a))
      /\ UNCHANGED <<portals, owner>>
  BY <1>0, <1>1, <1>2 DEF ExecutorRun
<1>4. /\ a # 0 => /\ a \in Spans /\ portals[p].span = a /\ owner[a] > 0
                  /\ PosIn(active, a) = {}
      /\ a \in Spans \union {0}
  BY <1>0, <1>1, PeekedIsPortals DEF Activatable
<1>5. f \in Frame /\ f.span = 0 /\ f.kind = "run" /\ f.name = p /\ f.act = a
  BY <1>2, <1>4 DEF ExecFrame, Frame
<1>6. /\ Depth' = Depth + 1 /\ Depth \in Nat
      /\ \A k \in 1..Depth : frames'[k] = frames[k]
      /\ frames'[Depth + 1] = f
  BY <1>3, <1>5, PushedFrame DEF StmtInv
<1>7. \A k \in 1..Depth' : k \in 1..Depth \/ k = Depth + 1
  BY <1>6
<1>8. \A k \in 1..Depth : k \in 1..Depth'
  BY <1>6
<1>9. active \in Seq(ActiveEntry) /\ Len(active) \in Nat
  BY DEF StmtInv, Types
<1>10. \A e \in Items(active) : e.span # 0 /\ (a # 0 => e.span # a)
  BY <1>4, <1>9, ActiveFields DEF PosIn, Items
<1>11. /\ active' \in Seq(ActiveEntry)
       /\ Distinct(active')
       /\ \A e \in Items(active') :
            e \in Items(active) \/ (a # 0 /\ e.span = a /\ e.is_activation)
       /\ \A i, j \in 1..Len(active') : i < j =>
            /\ i \in 1..Len(active) /\ active'[i] = active[i]
            /\ \/ j \in 1..Len(active) /\ active'[j] = active[j]
               \/ active'[j].is_activation
  <2>1. Types /\ Distinct(active)
    BY DEF StmtInv, ActiveInv
  <2>2. CASE a = 0
    BY <1>3, <1>9, <2>1, <2>2
  <2>3. CASE a # 0
    <3>1. a \in Spans /\ PosIn(active, a) = {}
          /\ active' = Append(active, Activation(a))
      BY <1>3, <1>4, <2>3
    <3> QED
      BY <2>1, <2>3, <3>1, Activates
  <2> QED
    BY <2>2, <2>3
<1>12. ActiveHeld'
  <2> SUFFICES ASSUME NEW e \in Items(active')
               PROVE  owner'[e.span] > 0 \/ \E m \in 1..Depth' : frames'[m].act = e.span
    BY DEF ActiveHeld
  <2>1. CASE a # 0 /\ e.span = a
    BY <1>3, <1>4, <2>1
  <2>2. CASE e \in Items(active)
    <3>1. owner[e.span] > 0 \/ \E m \in 1..Depth : frames[m].act = e.span
      BY <2>2 DEF ActiveInv, ActiveHeld
    <3> QED
      BY <1>3, <1>6, <1>8, <3>1
  <2> QED
    BY <1>11, <2>1, <2>2
<1>13. NestedActive'
  <2> SUFFICES ASSUME NEW k \in 1..Depth', NEW m \in 1..Depth',
                      NEW i \in 1..Len(active'), NEW j \in 1..Len(active'),
                      i < j, ~active'[j].is_activation,
                      active'[j].span = frames'[k].span,
                      active'[i].span \in {frames'[m].span, frames'[m].act}
               PROVE  m < k
    BY DEF NestedActive
  <2>1. /\ i \in 1..Len(active) /\ active'[i] = active[i]
        /\ j \in 1..Len(active) /\ active'[j] = active[j]
    BY <1>11
  <2>2. active[i] \in Items(active) /\ active[j] \in Items(active)
    BY <2>1 DEF Items
  <2>3. m # Depth + 1
    <3>1. SUFFICES ASSUME m = Depth + 1
                   PROVE  FALSE
      OBVIOUS
    <3>2. active[i].span \in {0, a}
      BY <1>5, <1>6, <2>1, <3>1
    <3> QED
      BY <1>10, <2>2, <3>2
  <2>4. k # Depth + 1
    <3>1. SUFFICES ASSUME k = Depth + 1
                   PROVE  FALSE
      OBVIOUS
    <3>2. active[j].span = 0
      BY <1>5, <1>6, <2>1, <3>1
    <3> QED
      BY <1>10, <2>2, <3>2
  <2>5. /\ k \in 1..Depth /\ m \in 1..Depth
        /\ frames'[k] = frames[k] /\ frames'[m] = frames[m]
    BY <1>6, <1>7, <2>3, <2>4
  <2> QED
    BY <2>1, <2>5 DEF ActiveInv, NestedActive
<1>14. DeclaredActive'
  <2> SUFFICES ASSUME NEW q \in Portals, NEW e \in Items(active'),
                      portals'[q].declared, e.span = portals'[q].span
               PROVE  /\ e.is_activation
                      /\ \E m \in 1..Depth' :
                           /\ frames'[m].kind = "run" /\ frames'[m].name = q
                           /\ frames'[m].act = e.span
    BY DEF DeclaredActive
  <2>1. portals[q].declared /\ e.span = portals[q].span
    BY <1>3
  <2>2. CASE e \in Items(active)
    <3>1. /\ e.is_activation
          /\ \E m \in 1..Depth : /\ frames[m].kind = "run" /\ frames[m].name = q
                                 /\ frames[m].act = e.span
      BY <2>1, <2>2 DEF ActiveInv, DeclaredActive
    <3> QED
      BY <1>6, <1>8, <3>1
  <2>3. CASE a # 0 /\ e.span = a /\ e.is_activation
    <3>1. q = p
      <4>1. SpansDiffer
        BY DEF ActiveInv
      <4>2. portals[q].span # 0 /\ portals[q].span = portals[p].span
        BY <1>4, <2>1, <2>3
      <4> QED
        BY <4>1, <4>2, Zenon DEF SpansDiffer
    <3>2. Depth + 1 \in 1..Depth'
      BY <1>6
    <3> QED
      BY <1>5, <1>6, <2>3, <3>1, <3>2
  <2> QED
    BY <1>11, <2>2, <2>3
<1>15. SpansDiffer'
  <2>1. SpansDiffer
    BY DEF ActiveInv
  <2>2. ASSUME NEW m \in 1..Depth', frames'[m].span # 0
        PROVE  m \in 1..Depth /\ frames'[m] = frames[m]
    BY <1>5, <1>6, <1>7, <2>2
  <2>3. ASSUME NEW m \in 1..Depth', NEW k \in 1..Depth', m # k,
               frames'[m].span # 0
        PROVE  frames'[m].span # frames'[k].span
    <3>1. m \in 1..Depth /\ frames'[m] = frames[m]
      BY <2>2, <2>3
    <3>2. CASE frames'[k].span = 0
      BY <2>3, <3>2
    <3>3. CASE frames'[k].span # 0
      <4>1. k \in 1..Depth /\ frames'[k] = frames[k]
        BY <2>2, <3>3
      <4> QED
        BY <2>1, <2>3, <3>1, <4>1, Zenon DEF SpansDiffer
    <3> QED
      BY <3>2, <3>3
  <2>4. ASSUME NEW m \in 1..Depth', NEW q \in Portals, frames'[m].span # 0
        PROVE  frames'[m].span # portals'[q].span
    <3>1. m \in 1..Depth /\ frames'[m] = frames[m] /\ portals' = portals
      BY <1>3, <2>2, <2>4
    <3> QED
      BY <2>1, <2>4, <3>1, Zenon DEF SpansDiffer
  <2>5. \A q, o \in Portals :
           q # o /\ portals'[q].span # 0 => portals'[q].span # portals'[o].span
    BY <1>3, <2>1, Zenon DEF SpansDiffer
  <2> QED
    BY <2>3, <2>4, <2>5 DEF SpansDiffer
<1>16. RunFrames'
  <2> SUFFICES ASSUME NEW m \in 1..Depth'
               PROVE  IF frames'[m].kind = "run" THEN frames'[m].name \in Portals
                      ELSE frames'[m].act # 0 =>
                             /\ frames'[m].kind = "exec"
                             /\ frames'[m].act = frames'[m].span
    BY DEF RunFrames
  <2> QED
    BY <1>5, <1>6, <1>7 DEF ActiveInv, RunFrames
<1> QED
  BY <1>11, <1>12, <1>13, <1>14, <1>15, <1>16 DEF ActiveInv

(* A query taken for its cursor's is run.                                  *)
LEMMA QueryRuns ==
    ASSUME StmtInv, ActiveInv, OrphansEnded, QueryRun
    PROVE  ActiveInv'
<1>0. PICK s : s = peek_cursor_span(Depth)
  OBVIOUS
<1>1. /\ MayReturn /\ Last(frames).kind = "exec" /\ Last(frames).act = 0
      /\ s # 0 /\ owner[s] > 0 /\ PosIn(active, s) = {}
      /\ frames' = [frames EXCEPT ![Depth].act = s]
      /\ active' = Append(active, Activation(s))
      /\ UNCHANGED <<portals, owner>>
  BY <1>0 DEF QueryRun, Activatable
<1>2. Types /\ Distinct(active) /\ active \in Seq(ActiveEntry)
  BY DEF StmtInv, ActiveInv, Types
<1>3. Depth \in Nat \ {0} /\ Last(frames) = frames[Depth]
  <2>1. Base \in 0..Depth /\ Depth > Base /\ Depth \in Nat
    BY <1>1, BaseFacts DEF StmtInv, MayReturn, Base, Types, Depth
  <2> QED
    BY <2>1 DEF Last, Depth
<1>4. s \in Spans /\ frames[Depth].span = s
  BY <1>0, <1>1, <1>3, PeekedIsQuerys
<1>5. /\ Depth' = Depth
      /\ \A k \in 1..Depth : Alike(frames[k], frames'[k])
      /\ \A k \in 1..Depth : k # Depth => frames'[k] = frames[k]
      /\ frames'[Depth].act = s
  <2>1. /\ Depth' = Depth /\ frames'[Depth].act = s
        /\ \A k \in 1..Depth : Alike(frames[k], frames'[k])
        /\ \A k \in 1..(Depth - 1) : frames'[k] = frames[k]
    <3>1. Depth > 0 /\ s \in Spans \union {0}
      BY <1>3, <1>4
    <3> QED
      BY <1>1, <1>2, <3>1, ActChanges
  <2>2. \A k \in 1..Depth : k # Depth => k \in 1..(Depth - 1)
    BY <1>3
  <2> QED
    BY <2>1, <2>2
<1>6. /\ active' \in Seq(ActiveEntry) /\ Distinct(active')
      /\ \A e \in Items(active') :
           e \in Items(active) \/ (e.span = s /\ e.is_activation)
      /\ \A i, j \in 1..Len(active') : i < j =>
           /\ i \in 1..Len(active) /\ active'[i] = active[i]
           /\ \/ j \in 1..Len(active) /\ active'[j] = active[j]
              \/ active'[j].is_activation
  BY <1>1, <1>2, <1>4, Activates
<1>7. \A e \in Items(active) : e.span # 0 /\ e.span # s
  BY <1>1, <1>2, ActiveFields DEF PosIn, Items
<1>8. \A k \in 1..Depth : /\ frames'[k].kind = frames[k].kind
                          /\ frames'[k].name = frames[k].name
                          /\ frames'[k].span = frames[k].span
  BY <1>5 DEF Alike
<1>9. \A k \in 1..Depth : frames'[k].act = frames[k].act \/ k = Depth
  BY <1>5
<1>10. ActiveHeld'
  <2> SUFFICES ASSUME NEW e \in Items(active')
               PROVE  owner'[e.span] > 0 \/ \E m \in 1..Depth' : frames'[m].act = e.span
    BY DEF ActiveHeld
  <2>1. CASE e.span = s
    BY <1>1, <2>1
  <2>2. CASE e \in Items(active)
    <3>1. owner[e.span] > 0 \/ \E m \in 1..Depth : frames[m].act = e.span
      BY <2>2 DEF ActiveInv, ActiveHeld
    <3>2. frames[Depth].act # e.span
      BY <1>1, <1>3, <1>7, <2>2
    <3> QED
      BY <1>1, <1>5, <1>9, <3>1, <3>2
  <2> QED
    BY <1>6, <2>1, <2>2
<1>11. NestedActive'
  <2> SUFFICES ASSUME NEW k \in 1..Depth', NEW m \in 1..Depth',
                      NEW i \in 1..Len(active'), NEW j \in 1..Len(active'),
                      i < j, ~active'[j].is_activation,
                      active'[j].span = frames'[k].span,
                      active'[i].span \in {frames'[m].span, frames'[m].act}
               PROVE  m < k
    BY DEF NestedActive
  <2>1. /\ i \in 1..Len(active) /\ active'[i] = active[i]
        /\ j \in 1..Len(active) /\ active'[j] = active[j]
    BY <1>6
  <2>2. active[i] \in Items(active)
    BY <2>1 DEF Items
  <2>3. k \in 1..Depth /\ m \in 1..Depth
    BY <1>5
  <2>4. active[i].span \in {frames[m].span, frames[m].act}
    <3>1. active[i].span # s
      BY <1>7, <2>2
    <3> QED
      BY <1>5, <1>8, <1>9, <2>1, <2>3, <3>1
  <2>5. active[j].span = frames[k].span /\ ~active[j].is_activation
    BY <1>8, <2>1, <2>3
  <2>6. NestedActive
    BY DEF ActiveInv
  <2> QED
    BY <2>1, <2>3, <2>4, <2>5, <2>6 DEF NestedActive
<1>12. SpansDiffer
  BY DEF ActiveInv
<1>13. DeclaredActive'
  <2> SUFFICES ASSUME NEW q \in Portals, NEW e \in Items(active'),
                      portals'[q].declared, e.span = portals'[q].span
               PROVE  /\ e.is_activation
                      /\ \E m \in 1..Depth' :
                           /\ frames'[m].kind = "run" /\ frames'[m].name = q
                           /\ frames'[m].act = e.span
    BY DEF DeclaredActive
  <2>1. portals[q].declared /\ e.span = portals[q].span
    BY <1>1
  <2>2. e.span # s
    <3>1. Depth \in 1..Depth /\ frames[Depth].span # 0
      BY <1>1, <1>3, <1>4
    <3>2. frames[Depth].span # portals[q].span
      BY <1>12, <3>1, Zenon DEF SpansDiffer
    <3> QED
      BY <1>4, <2>1, <3>2
  <2>3. e \in Items(active)
    BY <1>6, <2>2
  <2>4. e.is_activation
    BY <2>1, <2>3 DEF ActiveInv, DeclaredActive
  <2>5. PICK m \in 1..Depth : /\ frames[m].kind = "run" /\ frames[m].name = q
                              /\ frames[m].act = e.span
    BY <2>1, <2>3 DEF ActiveInv, DeclaredActive
  <2>6. m # Depth
    BY <1>1, <1>3, <2>5
  <2>7. m \in 1..Depth' /\ frames'[m] = frames[m]
    BY <1>5, <2>6
  <2> QED
    BY <2>4, <2>5, <2>7
<1>14. SpansDiffer'
  <2>1. ASSUME NEW m \in 1..Depth', NEW k \in 1..Depth', m # k,
               frames'[m].span # 0
        PROVE  frames'[m].span # frames'[k].span
    <3>1. m \in 1..Depth /\ k \in 1..Depth
      BY <1>5
    <3>2. frames'[m].span = frames[m].span /\ frames'[k].span = frames[k].span
      BY <1>8, <3>1
    <3>3. frames[m].span # frames[k].span
      BY <1>12, <2>1, <3>1, <3>2, Zenon DEF SpansDiffer
    <3> QED
      BY <3>2, <3>3
  <2>2. ASSUME NEW m \in 1..Depth', NEW q \in Portals, frames'[m].span # 0
        PROVE  frames'[m].span # portals'[q].span
    <3>1. m \in 1..Depth /\ frames'[m].span = frames[m].span /\ portals' = portals
      BY <1>1, <1>5, <1>8
    <3> QED
      BY <1>12, <2>2, <3>1, Zenon DEF SpansDiffer
  <2>3. \A q, o \in Portals :
           q # o /\ portals'[q].span # 0 => portals'[q].span # portals'[o].span
    BY <1>1, <1>12, Zenon DEF SpansDiffer
  <2> QED
    BY <2>1, <2>2, <2>3 DEF SpansDiffer
<1>15. RunFrames'
  <2> SUFFICES ASSUME NEW m \in 1..Depth
               PROVE  IF frames'[m].kind = "run" THEN frames'[m].name \in Portals
                      ELSE frames'[m].act # 0 =>
                             /\ frames'[m].kind = "exec"
                             /\ frames'[m].act = frames'[m].span
    BY <1>5 DEF RunFrames
  <2>1. CASE m = Depth
    BY <1>1, <1>3, <1>4, <1>5, <1>8, <2>1
  <2>2. CASE m # Depth
    BY <1>5, <2>2 DEF ActiveInv, RunFrames
  <2> QED
    BY <2>1, <2>2
<1> QED
  BY <1>6, <1>10, <1>11, <1>13, <1>14, <1>15 DEF ActiveInv

(* ... and its run returns.                                                *)
LEMMA QueryRunEnds ==
    ASSUME StmtInv, ActiveInv, Depth > 0,
           frames' = [frames EXCEPT ![Depth].act = 0],
           UNCHANGED portals, Shrinks(active', active),
           \A e \in Items(active') :
               owner'[e.span] = owner[e.span] /\ frames[Depth].act # e.span
    PROVE  ActiveInv'
<1>1. Types /\ Depth \in Nat
  BY LevelFacts DEF StmtInv, Depth
<1>2. /\ Depth' = Depth
      /\ \A k \in 1..Depth : Alike(frames[k], frames'[k])
      /\ \A k \in 1..Depth : k # Depth => frames'[k] = frames[k]
      /\ frames'[Depth].act = 0
  <2>1. /\ Depth' = Depth /\ frames'[Depth].act = 0
        /\ \A k \in 1..Depth : Alike(frames[k], frames'[k])
        /\ \A k \in 1..(Depth - 1) : frames'[k] = frames[k]
    BY <1>1, ActChanges
  <2>2. \A k \in 1..Depth : k # Depth => k \in 1..(Depth - 1)
    BY <1>1
  <2> QED
    BY <2>1, <2>2
<1>3. \A k \in 1..Depth : frames'[k].act \in {0, frames[k].act}
  BY <1>2
<1>4. ASSUME NEW e \in Items(active'), NEW m \in 1..Depth, frames[m].act = e.span
      PROVE  m \in 1..Depth /\ frames'[m].act = frames[m].act
  <2>1. m # Depth
    BY <1>4
  <2> QED
    BY <1>2, <2>1
<1>5. PICK n \in 0..Depth : n = Depth
  BY <1>1
<1>6. PortalsSame
  BY DEF PortalsSame
<1> QED
  BY <1>1, <1>2, <1>3, <1>4, <1>5, <1>6, SpansThin

-----------------------------------------------------------------------------
(* What an end, a deactivation or an abort takes off the active stack, and *)
(* which spans it ends.                                                    *)

LEMMA PopActive ==
    ASSUME Types, Distinct(active), NEW key, NEW held, PopAndFinalize(key, held)
    PROVE  /\ Shrinks(active', active)
           /\ \A e \in Items(active') : owner'[e.span] = owner[e.span]
           /\ \A t \in Spans :
                LET s == PoppedRef(stmt_stack, key)
                IN \/ owner'[t] = owner[t]
                   \/ t = held
                   \/ s # 0 /\ owner[s] > 0 /\ (t = s \/ t \in Above(active, s))
<1>0. PICK s : s = PoppedRef(stmt_stack, key)
  OBVIOUS
<1>1. PICK own : own = IF s # 0 /\ owner[s] > 0
                       THEN EndSpans(owner, {s} \union Above(active, s))
                       ELSE owner
  OBVIOUS
<1>2. PICK act : act = IF s # 0 /\ owner[s] > 0 THEN Cut(active, s) ELSE active
  OBVIOUS
<1>3. /\ owner' = EndSpans(own, {held})
      /\ active' = Keep(act, {e \in Items(act) : e.span # held})
  BY <1>0, <1>1, <1>2 DEF PopAndFinalize
<1>4. active \in Seq(ActiveEntry) /\ owner \in [Spans -> 0..MAX_LEVEL]
  BY DEF Types
<1>5. /\ own \in [Spans -> 0..MAX_LEVEL]
      /\ \A t \in Spans :
           \/ own[t] = owner[t]
           \/ s # 0 /\ owner[s] > 0 /\ (t = s \/ t \in Above(active, s))
  <2>1. CASE s # 0 /\ owner[s] > 0
    <3>1. PICK S : S = {s} \union Above(active, s)
      OBVIOUS
    <3>2. own = EndSpans(owner, S)
      BY <1>1, <2>1, <3>1
    <3>3. /\ own \in [Spans -> 0..MAX_LEVEL]
          /\ \A t \in Spans : t \notin S => own[t] = owner[t]
      BY <1>4, <3>2, EndSpansFacts
    <3> QED
      BY <2>1, <3>1, <3>3
  <2>2. CASE ~(s # 0 /\ owner[s] > 0)
    BY <1>1, <1>4, <2>2
  <2> QED
    BY <2>1, <2>2
<1>6. /\ Shrinks(act, active)
      /\ \A e \in Items(act) : own[e.span] = owner[e.span]
  <2>1. CASE s # 0 /\ owner[s] > 0
    <3>1. /\ Shrinks(act, active)
          /\ \A e \in Items(act) : e.span # s /\ e.span \notin Above(active, s)
      BY <1>2, <1>4, <2>1, CutFacts
    <3>2. \A e \in Items(act) : e.span \in Spans
      BY <3>1, ActiveFields DEF Shrinks
    <3> QED
      BY <1>5, <3>1, <3>2
  <2>2. CASE ~(s # 0 /\ owner[s] > 0)
    BY <1>1, <1>2, <1>4, <2>2, ShrinksSelf
  <2> QED
    BY <2>1, <2>2
<1>7. act \in Seq(ActiveEntry)
  BY <1>6 DEF Shrinks
<1>8. /\ Shrinks(active', act)
      /\ \A e \in Items(active') : e \in Items(act) /\ e.span # held
  BY <1>3, <1>7, KeepShrinks
<1>9. \A t \in Spans : t # held => owner'[t] = own[t]
  BY <1>3, <1>5, EndSpansFacts
<1>10. ASSUME NEW e \in Items(active')
       PROVE  owner'[e.span] = owner[e.span]
  <2>1. e \in Items(act) /\ e.span # held
    BY <1>8
  <2>2. e.span \in Spans
    BY <1>7, <2>1, ActiveFields
  <2> QED
    BY <1>6, <1>9, <2>1, <2>2
<1>11. Shrinks(active', active)
  BY <1>6, <1>8, ShrinksTwice
<1> QED
  BY <1>0, <1>5, <1>9, <1>10, <1>11

LEMMA DeactivatedActive ==
    ASSUME Types, Distinct(active), NEW a, Deactivated(a)
    PROVE  /\ Shrinks(active', active)
           /\ \A e \in Items(active') :
                owner'[e.span] = owner[e.span] /\ e.span # a
           /\ owner' \in [Spans -> 0..MAX_LEVEL]
           /\ \A t \in Spans : \/ owner'[t] = owner[t]
                               \/ owner'[t] = 0 /\ t \in Above(active, a)
<1>1. active \in Seq(ActiveEntry) /\ owner \in [Spans -> 0..MAX_LEVEL]
  BY DEF Types
<1>2. /\ Shrinks(active', active)
      /\ \A e \in Items(active') : e.span # a /\ e.span \notin Above(active, a)
  BY <1>1, CutFacts DEF Deactivated
<1>3. /\ owner' \in [Spans -> 0..MAX_LEVEL]
      /\ \A t \in Spans : \/ owner'[t] = owner[t]
                          \/ owner'[t] = 0 /\ t \in Above(active, a)
  BY <1>1, EndSpansFacts DEF Deactivated
<1>4. \A e \in Items(active') : e.span \in Spans
  BY <1>2, ActiveFields DEF Shrinks
<1> QED
  BY <1>2, <1>3, <1>4

LEMMA AbortedActive ==
    ASSUME Types, NEW lev \in Nat, NEW own \in [Spans -> 0..MAX_LEVEL],
           NEW act \in Seq(ActiveEntry), NEW F, Aborted(lev, own, act, F)
    PROVE  /\ Shrinks(active', act)
           /\ \A e \in Items(active') :
                own[e.span] < lev /\ owner'[e.span] = own[e.span]
<1>1. /\ Shrinks(active', act)
      /\ \A e \in Items(active') : e \in Items(act) /\ own[e.span] < lev
  BY KeepShrinks DEF Aborted
<1>2. \A s \in Spans : owner'[s] = IF own[s] >= lev THEN 0 ELSE own[s]
  BY AbortEffect
<1>3. ASSUME NEW e \in Items(active')
      PROVE  owner'[e.span] = own[e.span]
  <2>1. e.span \in Spans
    BY <1>1, ActiveFields
  <2>2. own[e.span] \in 0..MAX_LEVEL
    BY <2>1
  <2> QED
    BY <1>1, <1>2, <2>1, <2>2, TracingAssumption
<1> QED
  BY <1>1, <1>3

(* The portals whose runs an ERROR leaves.                                 *)
LeftRuns == Unwound(Base, "run")
LostPortals == {frames[k].name : k \in LeftRuns}

LEMMA ErrorActive ==
    ASSUME Types, BasesFit, ActiveInv, Error
    PROVE  /\ Shrinks(active', active)
           /\ \A e \in Items(active') : owner'[e.span] = owner[e.span]
           /\ \A e \in Items(active') : \A m \in (Base + 1)..Depth :
                frames[m].act # e.span
           /\ \A t \in Spans :
                \/ owner'[t] = owner[t]
                \/ \E m \in (Base + 1)..Depth : t \in Above(active, frames[m].act)
                \/ \E p \in LostPortals : p \in Portals /\ t = portals[p].span
                \/ owner[t] >= level
           /\ \A p \in LostPortals : p \in Portals /\
                (portals[p].span # 0 => owner'[portals[p].span] = 0)
<1>0. PICK acts : acts = {a \in {frames[k].act : k \in (Base + 1)..Depth} :
                            PosIn(active, a) # {}}
  OBVIOUS
<1>1. PICK low : low = {a \in acts : \A b \in acts :
               \A i \in PosIn(active, a), j \in PosIn(active, b) : i <= j}
  OBVIOUS
<1>2. PICK ends : ends = UNION {Above(active, a) : a \in low}
  OBVIOUS
<1>3. PICK act : act = IF low = {} THEN active
                       ELSE Cut(active, CHOOSE a \in low : TRUE)
  OBVIOUS
<1>4. PICK lost : lost = {portals[p].span : p \in LostPortals} \ {0}
  OBVIOUS
<1>5. PICK own : own = EndSpans(owner, ends)
  OBVIOUS
<1>6. PICK own2 : own2 = [s \in Spans |-> IF s \in lost THEN level ELSE own[s]]
  OBVIOUS
<1>7. Aborted(level, own2, act, LostPortals) /\ level > 0
  BY <1>0, <1>1, <1>2, <1>3, <1>4, <1>5, <1>6, ZenonT(30)
     DEF Error, Base, LeftRuns, LostPortals
<1>8. /\ active \in Seq(ActiveEntry) /\ owner \in [Spans -> 0..MAX_LEVEL]
      /\ level \in 0..MAX_LEVEL /\ Distinct(active) /\ RunFrames
  BY DEF Types, ActiveInv
<1>9. /\ own \in [Spans -> 0..MAX_LEVEL]
      /\ \A t \in Spans : /\ own[t] \in {0, owner[t]}
                          /\ t \notin ends => own[t] = owner[t]
  BY <1>5, <1>8, EndSpansFacts
<1>10. /\ own2 \in [Spans -> 0..MAX_LEVEL]
       /\ \A t \in Spans : own2[t] = IF t \in lost THEN level ELSE own[t]
  BY <1>6, <1>8, <1>9
<1>11. /\ LeftRuns \subseteq 1..Depth
       /\ \A k \in LeftRuns : frames[k].kind = "run"
       /\ \A k \in (Base + 1)..Depth : k \in 1..Depth
       /\ \A k \in (Base + 1)..Depth :
            frames[k].kind = "run" => k \in LeftRuns
  <2>1. Base \in 0..Depth /\ Depth \in Nat
    BY BaseFacts DEF Types, Depth
  <2> QED
    BY <2>1 DEF LeftRuns, Unwound
<1>12. \A p \in LostPortals : p \in Portals
  BY <1>8, <1>11 DEF LostPortals, RunFrames
<1>13. ASSUME acts # {}
       PROVE  low # {}
  <2> DEFINE At == {i \in 1..Len(active) : active[i].span \in acts}
  <2>1. At \in SUBSET Nat /\ At # {}
    <3>1. PICK a \in acts : TRUE
      BY <1>13
    <3>2. PICK i \in 1..Len(active) : active[i].span = a
      BY <1>0, <3>1 DEF PosIn
    <3> QED
      BY <3>1, <3>2
  <2>2. PICK i \in At : \A j \in At : i <= j
    BY <2>1, LeastNat
  <2>3. PICK a : a = active[i].span
    OBVIOUS
  <2>4. a \in acts
    BY <2>2, <2>3
  <2>5. ASSUME NEW b \in acts, NEW k \in PosIn(active, a), NEW j \in PosIn(active, b)
        PROVE  k <= j
    <3>1. /\ k \in 1..Len(active) /\ active[k].span = a
          /\ j \in 1..Len(active) /\ active[j].span = b
          /\ i \in 1..Len(active) /\ active[i].span = a
      BY <2>2, <2>3, <2>5 DEF PosIn
    <3>2. j \in At
      BY <2>5, <3>1
    <3>3. k = i
      <4>1. ~(k < i) /\ ~(i < k) /\ k \in Int /\ i \in Int
        BY <1>8, <3>1 DEF Distinct
      <4> QED
        BY <4>1
    <3> QED
      BY <2>2, <3>2, <3>3
  <2>6. a \in low
    BY <1>1, <2>4, <2>5
  <2> QED
    BY <2>6
<1>14. /\ Shrinks(act, active)
       /\ \A b \in acts : \A e \in Items(act) :
            e.span # b /\ e.span \notin Above(active, b)
  <2>1. CASE low = {}
    <3>1. acts = {} /\ act = active
      BY <1>3, <1>13, <2>1
    <3> QED
      BY <1>8, <3>1, ShrinksSelf
  <2>2. CASE low # {}
    <3>1. PICK a \in low : a = CHOOSE c \in low : TRUE
      BY <2>2
    <3>2. act = Cut(active, a)
      BY <1>3, <2>2, <3>1
    <3>3. /\ a \in acts /\ PosIn(active, a) # {}
          /\ \A b \in acts : \A i \in PosIn(active, a), j \in PosIn(active, b) : i <= j
      <4>1. /\ a \in acts
            /\ \A b \in acts : \A i \in PosIn(active, a), j \in PosIn(active, b) :
                 i <= j
        BY <1>1, <3>1, SMTT(30)
      <4>2. PosIn(active, a) # {}
        BY <1>0, <4>1
      <4> QED
        BY <4>1, <4>2
    <3>4. ASSUME NEW b \in acts
          PROVE  /\ Shrinks(act, active)
                 /\ \A e \in Items(act) : e.span # b /\ e.span \notin Above(active, b)
      <4>1. \A i \in PosIn(active, a), j \in PosIn(active, b) : i <= j
        BY <3>3
      <4> QED
        BY <1>8, <3>2, <3>3, <4>1, CutBelow
    <3> QED
      BY <3>3, <3>4
  <2> QED
    BY <2>1, <2>2
<1>15. act \in Seq(ActiveEntry) /\ Items(act) \subseteq Items(active)
  BY <1>14 DEF Shrinks
<1>16. level \in Nat
  BY <1>8, TracingAssumption
<1>17. /\ Shrinks(active', act)
       /\ \A e \in Items(active') :
            own2[e.span] < level /\ owner'[e.span] = own2[e.span]
  BY <1>7, <1>10, <1>15, <1>16, AbortedActive
<1>18. Items(active') \subseteq Items(act)
  BY <1>17 DEF Shrinks
<1>19. ASSUME NEW e \in Items(active')
       PROVE  owner'[e.span] = owner[e.span]
  <2>1. e.span \in Spans /\ e \in Items(act)
    BY <1>15, <1>18, ActiveFields
  <2>2. e.span \notin lost
    BY <1>10, <1>16, <1>17, <2>1
  <2>3. e.span \notin ends
    BY <1>1, <1>2, <1>14, <2>1
  <2> QED
    BY <1>9, <1>10, <1>17, <2>1, <2>2, <2>3
<1>20. ASSUME NEW e \in Items(active'), NEW m \in (Base + 1)..Depth
       PROVE  frames[m].act # e.span
  <2>1. e \in Items(act) /\ e \in Items(active)
    BY <1>15, <1>18
  <2>2. e.span # 0
    BY <1>8, <2>1, ActiveFields
  <2>3. SUFFICES ASSUME frames[m].act = e.span
                 PROVE  FALSE
    OBVIOUS
  <2>4. PosIn(active, e.span) # {}
    BY <2>1 DEF PosIn, Items
  <2>5. e.span \in acts
    BY <1>0, <2>3, <2>4
  <2> QED
    BY <1>14, <2>1, <2>5
<1>21. \A s \in Spans : owner'[s] = IF own2[s] >= level THEN 0 ELSE own2[s]
  BY <1>7, <1>10, <1>15, <1>16, AbortEffect
<1>22. ASSUME NEW t \in Spans
       PROVE  \/ owner'[t] = owner[t]
              \/ \E m \in (Base + 1)..Depth : t \in Above(active, frames[m].act)
              \/ \E p \in LostPortals : p \in Portals /\ t = portals[p].span
              \/ owner[t] >= level
  <2>1. CASE t \in lost
    BY <1>4, <1>12, <2>1
  <2>2. CASE t \in ends
    BY <1>0, <1>1, <1>2, <2>2
  <2>3. CASE t \notin lost /\ t \notin ends
    BY <1>9, <1>10, <1>21, <2>3
  <2> QED
    BY <2>1, <2>2, <2>3
<1>23. ASSUME NEW p \in LostPortals, portals[p].span # 0
       PROVE  owner'[portals[p].span] = 0
  <2>1. portals[p].span \in lost
    BY <1>4, <1>23
  <2>2. portals[p].span \in Spans
    BY <1>12, <1>23, PortalFields
  <2> QED
    BY <1>10, <1>16, <1>21, <2>1, <2>2
<1>24. Shrinks(active', active)
  BY <1>14, <1>17, ShrinksTwice
<1> QED
  BY <1>12, <1>19, <1>20, <1>22, <1>23, <1>24

-----------------------------------------------------------------------------
(* The steps.                                                              *)

LEMMA OrphansStay ==
    ASSUME Types, OrphansEnded,
           \A e \in Items(stmt_stack') : e.orphan => e \in Items(stmt_stack),
           \A t \in Spans : t \in Unused \/ owner'[t] = 0 \/ owner[t] > 0
    PROVE  OrphansEnded'
<1> SUFFICES ASSUME NEW e \in Items(stmt_stack'), e.orphan
             PROVE  owner'[e.ref] = 0
  BY DEF OrphansEnded
<1>1. e \in Items(stmt_stack)
  OBVIOUS
<1>2. e.ref \in Spans /\ owner[e.ref] = 0
  BY <1>1, ItemFacts, EntryFields DEF Types, OrphansEnded
<1>3. e.ref \notin Unused
  BY <1>1, UnusedFacts
<1> QED
  BY <1>2, <1>3

(* Ends, aborts and commits of subtransactions open no span.               *)
LEMMA OrphansKeep ==
    ASSUME Types, OrphansEnded,
           \A e \in Items(stmt_stack') : e.orphan => e \in Items(stmt_stack),
           \A t \in Spans : owner[t] = 0 => owner'[t] = 0
    PROVE  OrphansEnded'
<1>1. \A t \in Spans : owner[t] = 0 \/ owner[t] > 0
  BY TracingAssumption DEF Types
<1> QED
  BY <1>1, OrphansStay

LEMMA StartSpans ==
    ASSUME Types, level > 0, OrphansEnded, NEW key \in Key, NEW c,
           NEW s \in Startable, NEW d \in BOOLEAN, StartAndPush(key, c, s, d)
    PROVE  /\ s \in Unused \/ (s = 0 /\ UNCHANGED <<owner, active>>)
           /\ SpanStarted(s)
           /\ d => UNCHANGED active
           /\ OrphansEnded'
<1>0. s = 0 \/ s \in Unused
  BY DEF Startable
<1>1. CASE s = 0 \/ StackFull
  <2>1. UNCHANGED <<stmt_stack, owner, active>>
    BY <1>1 DEF StartAndPush
  <2>2. OrphansEnded'
    BY <2>1 DEF OrphansEnded
  <2> QED
    BY <1>0, <1>1, <2>1, <2>2 DEF SpanStarted
<1>2. CASE ~(s = 0 \/ StackFull)
  <2>1. /\ stmt_stack' = Append(stmt_stack, Entry(key, s, d))
        /\ owner' = [owner EXCEPT ![s] = level]
        /\ active' = IF d THEN active
                     ELSE Append(active, [span |-> s, lev |-> level,
                                          is_activation |-> FALSE])
    BY <1>2 DEF StartAndPush, Entry
  <2>2. s \in Unused /\ s \in Spans
    BY <1>0, <1>2, UnusedFacts
  <2>3. \A t \in Spans : owner'[t] = IF t = s THEN level ELSE owner[t]
    BY <2>1, <2>2 DEF Types
  <2>4. SpanStarted(s)
    BY <2>1, <2>3 DEF SpanStarted
  <2>5. Entry(key, s, d) \in StmtSpanEntry /\ ~Entry(key, s, d).orphan
    BY <2>2 DEF Entry, StmtSpanEntry, Types
  <2>6. Items(stmt_stack') = Items(stmt_stack) \union {Entry(key, s, d)}
    BY <2>1, <2>5, PushFacts DEF Types
  <2>7. \A e \in Items(stmt_stack') : e.orphan => e \in Items(stmt_stack)
    BY <2>5, <2>6
  <2>8. \A t \in Spans : t \in Unused \/ owner'[t] = 0 \/ owner[t] > 0
    <3>1. \A t \in Spans : owner[t] = 0 \/ owner[t] > 0
      BY TracingAssumption DEF Types
    <3> QED
      BY <2>2, <2>3, <3>1
  <2>9. OrphansEnded'
    BY <2>7, <2>8, OrphansStay
  <2> QED
    BY <2>1, <2>2, <2>4, <2>9
<1> QED
  BY <1>1, <1>2

LEMMA HookSpans ==
    ASSUME StmtInv, ActiveInv, OrphansEnded, NEW c, NEW s \in Startable,
           \/ ExecutorStart(c, s)
           \/ \E d \in Portals \union {0} : ProcessUtility(c, s, d)
           \/ \E p \in Portals, d \in BOOLEAN : PortalStart(p, c, s, d)
    PROVE  ActiveInv' /\ OrphansEnded'
<1>1. Types /\ s \in Spans \union {0} /\ Depth \in Nat
  BY LevelFacts DEF Startable, Unused, StmtInv
<1>2. CASE ExecutorStart(c, s)
  <2>1. PICK f : f = [ExecFrame EXCEPT !.span = s]
    OBVIOUS
  <2>2. f \in Frame /\ f.kind = "exec" /\ f.span = s /\ f.act = 0
    BY <1>1, <2>1, ExecFrameType DEF ExecFrame
  <2>3. /\ level > 0 /\ frames' = Append(frames, f)
        /\ StartAndPush(Depth + 1, c, s, is_declaring_cursor(ActivePortal))
        /\ UNCHANGED portals
    BY <1>2, <2>1 DEF ExecutorStart
  <2>4. Depth + 1 \in Key /\ is_declaring_cursor(ActivePortal) \in BOOLEAN
    BY <1>1, <1>2, TracingAssumption DEF Key, ExecutorStart, is_declaring_cursor
  <2>5. /\ s \in Unused \/ (s = 0 /\ UNCHANGED <<owner, active>>)
        /\ SpanStarted(s) /\ OrphansEnded'
    BY <1>1, <2>3, <2>4, StartSpans
  <2>6. ActiveInv'
    BY <1>1, <2>2, <2>3, <2>5, CallStarts
  <2> QED
    BY <2>5, <2>6
<1>3. ASSUME NEW d \in Portals \union {0}, ProcessUtility(c, s, d)
      PROVE  ActiveInv' /\ OrphansEnded'
  <2>1. PICK f : f = [kind |-> "util", span |-> s, toplevel |-> (Depth = 0),
                      name |-> d, saved |-> declaring, act |-> 0]
    OBVIOUS
  <2>2. f \in Frame /\ f.kind = "util" /\ f.span = s /\ f.act = 0
    BY <1>1, <2>1 DEF Frame, Types
  <2>3. /\ level > 0 /\ frames' = Append(frames, f)
        /\ Depth = 0 => StartAndPush(1, c, s, FALSE)
        /\ Depth # 0 => s = 0 /\ UNCHANGED <<stmt_stack, owner, active>>
        /\ UNCHANGED portals
    BY <1>3, <2>1 DEF ProcessUtility, spanVars
  <2>4. /\ s \in Unused \/ (s = 0 /\ UNCHANGED <<owner, active>>)
        /\ SpanStarted(s) /\ OrphansEnded'
    <3>1. CASE Depth = 0
      <4>1. 1 \in Key
        BY TracingAssumption DEF Key
      <4>2. StartAndPush(1, c, s, FALSE)
        BY <2>3, <3>1
      <4> QED
        BY <1>1, <2>3, <4>1, <4>2, StartSpans
    <3>2. CASE Depth # 0
      BY <2>3, <3>2 DEF SpanStarted, OrphansEnded
    <3> QED
      BY <3>1, <3>2
  <2>5. ActiveInv'
    BY <1>1, <2>2, <2>3, <2>4, CallStarts
  <2> QED
    BY <2>4, <2>5
<1>4. ASSUME NEW p \in Portals, NEW d \in BOOLEAN, PortalStart(p, c, s, d)
      PROVE  ActiveInv' /\ OrphansEnded'
  <2>1. PICK r : r = [lev |-> level, span |-> s, failed |-> FALSE, declared |-> d,
                      taken |-> ~d /\ \E f \in Items(frames) : Declares(f, p)]
    OBVIOUS
  <2>a. PICK f : f = [ExecFrame EXCEPT !.kind = "start", !.name = p]
    OBVIOUS
  <2>2. /\ r.span = s /\ r.declared = d
        /\ f \in Frame /\ f.kind = "start" /\ f.span = 0 /\ f.act = 0
    BY <2>1, <2>a DEF ExecFrame, Frame
  <2>3. /\ level > 0 /\ Depth > 0
        /\ d => Declares(Last(frames), p)
        /\ StartAndPush(-p, c, s, is_declaring_cursor(p))
        /\ portals' = [portals EXCEPT ![p] = r]
        /\ frames' = Append(frames, f)
    BY <1>4, <2>1, <2>a DEF PortalStart
  <2>4. -p \in Key /\ is_declaring_cursor(p) \in BOOLEAN
    BY DEF Key, is_declaring_cursor
  <2>5. /\ s \in Unused \/ (s = 0 /\ UNCHANGED <<owner, active>>)
        /\ SpanStarted(s) /\ OrphansEnded'
        /\ is_declaring_cursor(p) => UNCHANGED active
    BY <1>1, <2>3, <2>4, StartSpans
  <2>6. r.declared => is_declaring_cursor(p)
    BY <2>2, <2>3, DetachedAtStart
  <2>7. ActiveInv'
    BY <1>1, <2>2, <2>3, <2>5, <2>6, PortalOpens
  <2> QED
    BY <2>5, <2>7
<1> QED
  BY <1>2, <1>3, <1>4

(* A call returns, its activated span off the active stack.                *)
LEMMA ReturnShrinks ==
    ASSUME StmtInv, ActiveInv, Depth > 0, frames' = Front(frames),
           UNCHANGED portals, Shrinks(active', active),
           \A e \in Items(active') :
               owner'[e.span] = owner[e.span] /\ frames[Depth].act # e.span
    PROVE  ActiveInv'
<1>1. /\ Types /\ Depth' = Depth - 1 /\ Depth \in Nat \ {0}
      /\ \A k \in 1..(Depth - 1) : frames'[k] = frames[k]
  BY PoppedFrame DEF StmtInv
<1>2. PICK n \in 0..Depth : n = Depth - 1
  BY <1>1
<1>3. \A m \in (n + 1)..Depth : m = Depth
  BY <1>1, <1>2
<1>4. PortalsSame
  BY DEF PortalsSame
<1> QED
  BY <1>1, <1>2, <1>3, <1>4, SpansShrink

LEMMA PopOrphans ==
    ASSUME StmtInv, OrphansEnded, NEW key, NEW held, PopAndFinalize(key, held)
    PROVE  OrphansEnded'
<1>1. /\ stmt_stack' = Popped(stmt_stack, key)
      /\ \A s \in Spans : owner'[s] \in {0, owner[s]}
  BY PopEffect DEF StmtInv
<1>2. Items(stmt_stack') \subseteq Items(stmt_stack)
  BY <1>1, PoppedFacts DEF StmtInv, Types, Thins
<1> QED
  BY <1>1, <1>2, OrphansKeep DEF StmtInv

LEMMA NothingShrinks ==
    ASSUME StmtInv, ActiveInv, UNCHANGED frames, PortalsSame,
           Shrinks(active', active),
           \A e \in Items(active') : owner[e.span] > 0 => owner'[e.span] > 0
    PROVE  ActiveInv'
<1>1. Types /\ Depth' = Depth /\ Depth \in 0..Depth
  BY LevelFacts DEF Depth, StmtInv
<1>2. \A m \in (Depth + 1)..Depth : FALSE
  BY <1>1
<1> QED
  BY <1>1, <1>2, SpansShrink

LEMMA ReturnSpans ==
    ASSUME StmtInv, ActiveInv, OrphansEnded,
           \/ ExecutorEnd \/ ProcessUtilityReturns \/ ExecutorRunReturns
           \/ OtherPortalStart \/ PortalStartReturns
           \/ QueryRun \/ QueryRunReturns
           \/ \E p \in Portals : PortalEnd(p) \/ ExecutorRun(p)
    PROVE  ActiveInv' /\ OrphansEnded'
<1>0. Types /\ Distinct(active) /\ RunFrames /\ active \in Seq(ActiveEntry)
  BY DEF StmtInv, ActiveInv, Types
<1>1. ASSUME MayReturn
      PROVE  /\ Depth > 0 /\ Last(frames) = frames[Depth]
             /\ Depth \in 1..Depth
  <2>1. Base \in 0..Depth /\ Depth > Base /\ Depth \in Nat
    BY <1>1, BaseFacts DEF StmtInv, MayReturn, Base, Types, Depth
  <2> QED
    BY <2>1 DEF Last, Depth
<1>2. ASSUME MayReturn, Last(frames).kind \in {"util", "start"}
                         \/ Last(frames).act = 0
      PROVE  \A e \in Items(active) : frames[Depth].act # e.span
  <2>1. frames[Depth].act = 0
    BY <1>0, <1>1, <1>2 DEF RunFrames
  <2> QED
    BY <1>0, <2>1, ActiveFields
<1>3. CASE ExecutorEnd
  <2>1. /\ MayReturn /\ Last(frames).act = 0
        /\ PopAndFinalize(Depth, 0)
        /\ frames' = Front(frames) /\ UNCHANGED portals
    BY <1>3 DEF ExecutorEnd
  <2>2. /\ Shrinks(active', active)
        /\ \A e \in Items(active') : owner'[e.span] = owner[e.span]
    BY <1>0, <2>1, PopActive
  <2>3. \A e \in Items(active') : frames[Depth].act # e.span
    BY <1>2, <2>1, <2>2 DEF Shrinks
  <2> QED
    BY <1>1, <2>1, <2>2, <2>3, ReturnShrinks, PopOrphans
<1>4. CASE ProcessUtilityReturns
  <2>1. /\ MayReturn /\ Last(frames).kind = "util"
        /\ frames' = Front(frames) /\ UNCHANGED portals
    BY <1>4 DEF ProcessUtilityReturns
  <2>2. /\ Shrinks(active', active) /\ OrphansEnded'
        /\ \A e \in Items(active') : owner'[e.span] = owner[e.span]
    <3>1. CASE Last(frames).toplevel
      BY <1>0, <1>4, <3>1, PopActive, PopOrphans DEF ProcessUtilityReturns
    <3>2. CASE ~Last(frames).toplevel
      BY <1>0, <1>4, <3>2, ShrinksSelf
         DEF ProcessUtilityReturns, spanVars, OrphansEnded
    <3> QED
      BY <3>1, <3>2
  <2>3. \A e \in Items(active') : frames[Depth].act # e.span
    BY <1>2, <2>1, <2>2 DEF Shrinks
  <2> QED
    BY <1>1, <2>1, <2>2, <2>3, ReturnShrinks
<1>5. CASE ExecutorRunReturns
  <2>1. /\ MayReturn /\ Deactivated(Last(frames).act)
        /\ frames' = Front(frames) /\ UNCHANGED <<portals, stmt_stack>>
    BY <1>5 DEF ExecutorRunReturns
  <2>2. /\ Shrinks(active', active)
        /\ \A e \in Items(active') :
             owner'[e.span] = owner[e.span] /\ frames[Depth].act # e.span
        /\ \A t \in Spans : owner'[t] = owner[t] \/ owner'[t] = 0
    BY <1>0, <1>1, <2>1, DeactivatedActive
  <2>3. OrphansEnded'
    BY <1>0, <2>1, <2>2, OrphansKeep
  <2> QED
    BY <1>1, <2>1, <2>2, <2>3, ReturnShrinks
<1>6. ASSUME NEW p \in Portals, PortalEnd(p)
      PROVE  ActiveInv' /\ OrphansEnded'
  <2>1. /\ portals' = [portals EXCEPT ![p] = NoPortal] /\ UNCHANGED frames
        /\ IF portals[p].failed THEN UNCHANGED <<rootVars, spanVars>>
           ELSE PopAndFinalize(-p, portals[p].span)
    BY <1>6 DEF PortalEnd
  <2>2. PortalsSame
    BY <1>0, <2>1 DEF PortalsSame, NoPortal, Types
  <2>3. /\ Shrinks(active', active) /\ OrphansEnded'
        /\ \A e \in Items(active') : owner'[e.span] = owner[e.span]
    <3>1. CASE portals[p].failed
      BY <1>0, <2>1, <3>1, ShrinksSelf DEF spanVars, OrphansEnded
    <3>2. CASE ~portals[p].failed
      BY <1>0, <2>1, <3>2, PopActive, PopOrphans
    <3> QED
      BY <3>1, <3>2
  <2> QED
    BY <2>1, <2>2, <2>3, NothingShrinks
<1>7. ASSUME NEW p \in Portals, ExecutorRun(p)
      PROVE  ActiveInv' /\ OrphansEnded'
  <2>1. ActiveInv'
    BY <1>7, RunStarts
  <2>2. OrphansEnded'
    BY <1>7 DEF ExecutorRun, OrphansEnded
  <2> QED
    BY <2>1, <2>2
<1>8. CASE OtherPortalStart
  <2>1. PICK f : f = [ExecFrame EXCEPT !.kind = "start"]
    OBVIOUS
  <2>2. f \in Frame /\ f.kind = "start" /\ f.span = 0 /\ f.act = 0
    BY <2>1 DEF ExecFrame, Frame
  <2>3. /\ level > 0 /\ frames' = Append(frames, f)
        /\ UNCHANGED <<portals, stmt_stack, owner, active>>
    BY <1>8, <2>1 DEF OtherPortalStart, spanVars
  <2>4. SpanStarted(f.span) /\ OrphansEnded'
    BY <2>3 DEF SpanStarted, OrphansEnded
  <2> QED
    BY <1>0, <2>2, <2>3, <2>4, CallStarts
<1>9. CASE PortalStartReturns
  <2>1. /\ MayReturn /\ Last(frames).kind = "start" /\ frames' = Front(frames)
        /\ UNCHANGED <<portals, stmt_stack, owner, active>>
    BY <1>9 DEF PortalStartReturns, spanVars
  <2>2. Shrinks(active', active) /\ OrphansEnded'
    BY <1>0, <2>1, ShrinksSelf DEF OrphansEnded
  <2> QED
    BY <1>1, <1>2, <2>1, <2>2, ReturnShrinks
<1>10. CASE QueryRun
  <2>1. OrphansEnded'
    BY <1>10 DEF QueryRun, OrphansEnded
  <2> QED
    BY <1>10, <2>1, QueryRuns
<1>11. CASE QueryRunReturns
  <2>1. /\ MayReturn /\ Deactivated(Last(frames).act)
        /\ frames' = [frames EXCEPT ![Depth].act = 0]
        /\ UNCHANGED <<portals, stmt_stack>>
    BY <1>11 DEF QueryRunReturns
  <2>2. /\ Shrinks(active', active)
        /\ \A e \in Items(active') :
             owner'[e.span] = owner[e.span] /\ frames[Depth].act # e.span
        /\ \A t \in Spans : owner'[t] = owner[t] \/ owner'[t] = 0
    BY <1>0, <1>1, <2>1, DeactivatedActive
  <2>3. OrphansEnded'
    BY <1>0, <2>1, <2>2, OrphansKeep
  <2> QED
    BY <1>1, <2>1, <2>2, <2>3, QueryRunEnds
<1> QED
  BY <1>3, <1>4, <1>5, <1>6, <1>7, <1>8, <1>9, <1>10, <1>11

LEMMA AbortedPortals ==
    ASSUME Types, NEW lev, NEW own, NEW act, NEW F, Aborted(lev, own, act, F)
    PROVE  PortalsSame
<1> SUFFICES ASSUME NEW p \in Portals
             PROVE  \/ portals'[p].span = 0 /\ ~portals'[p].declared
                    \/ /\ portals'[p].span = portals[p].span
                       /\ portals'[p].declared = portals[p].declared
  BY DEF PortalsSame
<1>1. NoPortal.span = 0 /\ ~NoPortal.declared
  BY DEF NoPortal
<1>2. PICK b : b = [portals[p] EXCEPT !.failed = @ \/ p \in F]
  OBVIOUS
<1>3. b.span = portals[p].span /\ b.declared = portals[p].declared
  BY <1>2, PortalFields DEF Portal
<1>4. portals'[p] = IF portals[p].lev >= lev THEN NoPortal ELSE b
  BY <1>2 DEF Aborted
<1> QED
  BY <1>1, <1>3, <1>4

LEMMA XactSpans ==
    ASSUME StmtInv, ActiveInv, OrphansEnded,
           \/ BeginXact \/ BeginSub \/ CommitSub \/ CommitXact
           \/ RollbackTo \/ Rollback \/ InnerCommit \/ InnerRollback
           \/ MessageM \/ ReadyForQuery \/ UNCHANGED vars
    PROVE  ActiveInv' /\ OrphansEnded'
<1>0. /\ Types /\ active \in Seq(ActiveEntry) /\ owner \in [Spans -> 0..MAX_LEVEL]
      /\ level \in Nat /\ \A t \in Spans : owner[t] \in Nat
  BY TracingAssumption DEF StmtInv, Types
<1>1. CASE BeginXact \/ BeginSub \/ RollbackTo \/ MessageM \/ ReadyForQuery
           \/ UNCHANGED vars
  <2>1. UNCHANGED <<frames, portals, owner, active, stmt_stack>>
    BY <1>1 DEF BeginXact, BeginSub, RollbackTo, MessageM, ReadyForQuery,
                vars, spanVars, coreVars
  <2>2. PortalsSame /\ OrphansEnded'
    BY <2>1 DEF PortalsSame, OrphansEnded
  <2> QED
    BY <1>0, <2>1, <2>2, ShrinksSelf, NothingShrinks
<1>2. CASE CommitSub
  <2>1. /\ level > 1 /\ UNCHANGED <<frames, active, stmt_stack>>
        /\ portals' = [p \in Portals |->
                         IF portals[p].lev = level
                         THEN [portals[p] EXCEPT !.lev = level - 1] ELSE portals[p]]
        /\ owner' = [s \in Spans |->
                       IF owner[s] = level THEN level - 1 ELSE owner[s]]
    BY <1>2 DEF CommitSub
  <2>2. PortalsSame
    <3> SUFFICES ASSUME NEW p \in Portals
                 PROVE  /\ portals'[p].span = portals[p].span
                        /\ portals'[p].declared = portals[p].declared
      BY DEF PortalsSame
    <3>1. PICK b : b = [portals[p] EXCEPT !.lev = level - 1]
      OBVIOUS
    <3>2. b.span = portals[p].span /\ b.declared = portals[p].declared
      BY <1>0, <3>1, PortalFields DEF Portal
    <3> QED
      BY <2>1, <3>1, <3>2
  <2>3. \A t \in Spans : owner'[t] > 0 <=> owner[t] > 0
    BY <1>0, <2>1
  <2>4. \A t \in Spans : owner[t] = 0 => owner'[t] = 0
    BY <1>0, <2>1
  <2>5. \A e \in Items(active) : e.span \in Spans
    BY <1>0, ActiveFields
  <2>6. OrphansEnded'
    BY <1>0, <2>1, <2>4, OrphansKeep
  <2>7. Shrinks(active', active)
    BY <1>0, <2>1, ShrinksSelf
  <2> QED
    BY <2>1, <2>2, <2>3, <2>5, <2>6, <2>7, NothingShrinks
<1>3. CASE CommitXact \/ InnerCommit
  <2>1. /\ UNCHANGED <<frames, portals, stmt_stack>> /\ active' = <<>>
        /\ owner' = [s \in Spans |-> 0]
    BY <1>3 DEF CommitXact, InnerCommit, coreVars
  <2>2. PortalsSame
    BY <2>1 DEF PortalsSame
  <2>3. Shrinks(active', active) /\ Items(active') = {}
    BY <2>1 DEF Shrinks, Items
  <2>4. OrphansEnded'
    BY <1>0, <2>1, OrphansKeep
  <2> QED
    BY <2>1, <2>2, <2>3, <2>4, NothingShrinks
<1>4. CASE Rollback \/ InnerRollback
  <2>1. /\ UNCHANGED frames /\ Aborted(1, owner, active, {})
        /\ stmt_stack' = KeptEntries(stmt_stack, 1)
    BY <1>4 DEF Rollback, InnerRollback
  <2>2. /\ Shrinks(active', active)
        /\ \A e \in Items(active') : owner[e.span] < 1
    BY <1>0, <2>1, AbortedActive
  <2>3. \A s \in Spans : owner'[s] = IF owner[s] >= 1 THEN 0 ELSE owner[s]
    BY <2>1 DEF Aborted
  <2>4. PortalsSame
    BY <1>0, <2>1, AbortedPortals
  <2>5. \A e \in Items(active') : e.span \in Spans
    BY <2>2, ActiveFields DEF Shrinks
  <2>6. \A e \in Items(active') : ~(owner[e.span] > 0)
    BY <1>0, <2>2, <2>5
  <2>7. Items(stmt_stack') \subseteq Items(stmt_stack)
    BY <1>0, <2>1, KeptThins DEF KeptEntries, Types
  <2>8. OrphansEnded'
    BY <1>0, <2>3, <2>7, OrphansKeep
  <2> QED
    BY <2>1, <2>2, <2>4, <2>6, <2>8, NothingShrinks
<1> QED
  BY <1>1, <1>2, <1>3, <1>4

LEMMA ErrorSpans ==
    ASSUME StmtInv, ActiveInv, OrphansEnded, Error
    PROVE  ActiveInv' /\ OrphansEnded'
<1>0. Types /\ BasesFit /\ OrphansBelow(stmt_stack)
  BY DEF StmtInv
<1>1. /\ Shrinks(active', active)
      /\ \A e \in Items(active') : owner'[e.span] = owner[e.span]
      /\ \A e \in Items(active') : \A m \in (Base + 1)..Depth :
           frames[m].act # e.span
      /\ \A p \in LostPortals : p \in Portals /\
           (portals[p].span # 0 => owner'[portals[p].span] = 0)
  BY <1>0, ErrorActive
<1>2. PICK kept, F : ErrorLeaves(kept, F)
  BY <1>0, ErrorEffect
<1>3. \A s \in Spans : owner'[s] \in {0, owner[s]}
  BY <1>0, ErrorEffect
<1>4. /\ F = LostPortals /\ Thins(kept, stmt_stack)
      /\ stmt_stack' = Survivors(kept, F)
  BY <1>2 DEF ErrorLeaves, LostPortals, LeftRuns
<1>5. PortalsSame
  <2>1. PICK own, act, G : Aborted(level, own, act, G)
    BY DEF Error
  <2> QED
    BY <1>0, <2>1, AbortedPortals
<1>6. ActiveInv'
  <2>1. Base \in 0..Depth
    BY <1>0, BaseFacts
  <2>2. frames' = Prefix(frames, Base)
    BY Zenon DEF Error, Base
  <2>3. Depth' = Base /\ \A k \in 1..Base : frames'[k] = frames[k]
    BY <1>0, <2>1, <2>2, PrefixFacts DEF Types, Depth
  <2> QED
    BY <1>0, <1>1, <1>5, <2>1, <2>3, SpansShrink
<1>7. OrphansEnded'
  <2> SUFFICES ASSUME NEW e \in Items(stmt_stack'), e.orphan
               PROVE  owner'[e.ref] = 0
    BY DEF OrphansEnded
  <2>1. kept \in Seq(StmtSpanEntry) /\ Items(kept) \subseteq Items(stmt_stack)
    BY <1>4 DEF Thins
  <2>2. PICK k \in 1..Len(kept) : e = Survivors(kept, F)[k]
    <3>1. Len(Survivors(kept, F)) = Len(kept)
      BY <2>1, SurvivorFacts
    <3> QED
      BY <1>4, <3>1 DEF Items
  <2>3. PICK x : x = kept[k]
    OBVIOUS
  <2>4. e.ref = x.ref /\ e.orphan = (x.orphan \/ \E p \in F : x.key = -p)
    <3>1. \A i \in 1..Len(kept) :
             LET y == Survivors(kept, F)[i]
             IN /\ y.ref = kept[i].ref
                /\ y.orphan = (kept[i].orphan \/ \E p \in F : kept[i].key = -p)
      BY <2>1, SurvivorFacts
    <3> QED
      BY <2>2, <2>3, <3>1
  <2>5. x \in Items(stmt_stack)
    BY <2>1, <2>3 DEF Items
  <2>6. /\ x.ref \in Spans /\ x.ref # 0
        /\ ~x.orphan => LiveEntry(x)
    BY <2>5, EntryFacts, TracingAssumption
  <2>7. CASE x.orphan
    <3>1. owner[x.ref] = 0
      BY <2>5, <2>7 DEF OrphansEnded
    <3> QED
      BY <1>3, <2>4, <2>6, <3>1
  <2>8. CASE ~x.orphan
    <3>1. PICK p \in F : x.key = -p
      BY <2>4, <2>8
    <3>2. p \in Portals /\ p \in Nat \ {0}
      BY <1>1, <1>4, TracingAssumption
    <3>3. x.key < 0 /\ -x.key = p
      BY <3>1, <3>2
    <3>4. portals[p].span = x.ref
      BY <2>6, <2>8, <3>3 DEF LiveEntry
    <3> QED
      BY <1>1, <1>4, <2>4, <2>6, <3>4
  <2> QED
    BY <2>7, <2>8
<1> QED
  BY <1>6, <1>7

LEMMA SpanNext ==
    StmtInv /\ ActiveInv /\ OrphansEnded /\ [Next]_vars
    => ActiveInv' /\ OrphansEnded'
<1> SUFFICES ASSUME StmtInv, ActiveInv, OrphansEnded, [Next]_vars
             PROVE  ActiveInv' /\ OrphansEnded'
  OBVIOUS
<1>1. ASSUME NEW c \in Comments, NEW s \in Startable,
             \/ ExecutorStart(c, s)
             \/ \E d \in Portals \union {0} : ProcessUtility(c, s, d)
             \/ \E p \in Portals, d \in BOOLEAN : PortalStart(p, c, s, d)
      PROVE  ActiveInv' /\ OrphansEnded'
  BY <1>1, HookSpans
<1>2. CASE \/ ExecutorEnd \/ ProcessUtilityReturns \/ ExecutorRunReturns
           \/ OtherPortalStart \/ PortalStartReturns
           \/ QueryRun \/ QueryRunReturns
           \/ \E p \in Portals : PortalEnd(p) \/ ExecutorRun(p)
  BY <1>2, ReturnSpans
<1>3. CASE \/ BeginXact \/ BeginSub \/ CommitSub \/ CommitXact
           \/ RollbackTo \/ Rollback \/ InnerCommit \/ InnerRollback
           \/ MessageM \/ ReadyForQuery \/ UNCHANGED vars
  BY <1>3, XactSpans
<1>4. CASE Error
  BY <1>4, ErrorSpans
<1> QED
  BY <1>1, <1>2, <1>3, <1>4 DEF Next

LEMMA InitSpans == Init => ActiveInv /\ OrphansEnded
<1> SUFFICES ASSUME Init
             PROVE  ActiveInv /\ OrphansEnded
  OBVIOUS
<1>1. Depth = 0 /\ Items(active) = {} /\ Items(stmt_stack) = {} /\ Len(active) = 0
  BY DEF Init, Depth, Items
<1>2. \A p \in Portals : portals[p].span = 0
  BY DEF Init, NoPortal
<1> QED
  BY <1>1, <1>2 DEF ActiveInv, OrphansEnded, ActiveHeld, Distinct, NestedActive,
     DeclaredActive, SpansDiffer, RunFrames

LEMMA SpanInvariant == Spec => [](StmtInv /\ ActiveInv /\ OrphansEnded)
<1>1. Init => StmtInv /\ ActiveInv /\ OrphansEnded
  BY InitInv, InitSpans
<1>2. StmtInv /\ ActiveInv /\ OrphansEnded /\ [Next]_vars
      => (StmtInv /\ ActiveInv /\ OrphansEnded)'
  BY NextInv, SpanNext
<1> QED
  BY <1>1, <1>2, PTL DEF Spec

(***************************************************************************)
(* What an end spares.                                                     *)
(***************************************************************************)

LEMMA AboveFacts ==
    ASSUME NEW act \in Seq(ActiveEntry), NEW s, NEW t \in Above(act, s)
    PROVE  \E i, j \in 1..Len(act) :
             i < j /\ act[i].span = s /\ act[j].span = t /\ ~act[j].is_activation
<1>1. PICK j \in 1..Len(act) : /\ act[j].span = t /\ ~act[j].is_activation
                               /\ \E i \in PosIn(act, s) : j > i
  BY DEF Above
<1>2. PICK i \in PosIn(act, s) : j > i
  BY <1>1
<1>3. i \in 1..Len(act) /\ act[i].span = s
  BY <1>2 DEF PosIn
<1> QED
  BY <1>1, <1>2, <1>3

(* Above a call's entry, or that of the span it activated, there is no     *)
(* call that encloses it,                                                  *)
LEMMA EnclosingNotAbove ==
    ASSUME Types, ActiveInv, NEW m \in 1..Depth, NEW k \in 1..Depth, k <= m,
           NEW s \in {frames[m].span, frames[m].act}
    PROVE  frames[k].span \notin Above(active, s)
<1> SUFFICES ASSUME frames[k].span \in Above(active, s)
             PROVE  FALSE
  OBVIOUS
<1>0. active \in Seq(ActiveEntry)
  BY DEF Types
<1>a. PICK t : t = frames[k].span
  OBVIOUS
<1>b. t \in Above(active, s)
  BY <1>a
<1>c. PICK i, j \in 1..Len(active) :
         i < j /\ active[i].span = s /\ active[j].span = t /\ ~active[j].is_activation
  BY <1>0, <1>b, AboveFacts
<1>1. /\ i < j /\ active[i].span = s /\ active[j].span = frames[k].span
      /\ ~active[j].is_activation
  BY <1>a, <1>c
<1>2. m < k
  BY <1>1 DEF ActiveInv, NestedActive
<1> QED
  BY <1>2

(* and above no entry is there a declared cursor.                          *)
LEMMA CursorNotAbove ==
    ASSUME Types, ActiveInv, NEW p \in Portals, portals[p].declared, NEW s
    PROVE  portals[p].span \notin Above(active, s)
<1> SUFFICES ASSUME portals[p].span \in Above(active, s)
             PROVE  FALSE
  OBVIOUS
<1>0. active \in Seq(ActiveEntry)
  BY DEF Types
<1>a. PICK t : t = portals[p].span
  OBVIOUS
<1>b. t \in Above(active, s)
  BY <1>a
<1>c. PICK i, j \in 1..Len(active) :
         i < j /\ active[i].span = s /\ active[j].span = t /\ ~active[j].is_activation
  BY <1>0, <1>b, AboveFacts
<1>1. active[j].span = portals[p].span /\ ~active[j].is_activation
  BY <1>a, <1>c
<1>2. active[j] \in Items(active)
  BY DEF Items
<1> QED
  BY <1>1, <1>2 DEF ActiveInv, DeclaredActive

LEMMA StatementEndSpares ==
    ASSUME StmtInv, ActiveInv, Depth \in 1..Depth, PopAndFinalize(Depth, 0)
    PROVE  /\ \A k \in 1..Depth :
                k < Depth /\ frames[k].span # 0
                => owner'[frames[k].span] = owner[frames[k].span]
           /\ \A p \in Portals :
                portals[p].declared /\ portals[p].span # 0
                => owner'[portals[p].span] = owner[portals[p].span]
<1>0. Types /\ SpansDiffer /\ Distinct(active)
  BY DEF StmtInv, ActiveInv
<1>1. PICK s : s = PoppedRef(stmt_stack, Depth)
  OBVIOUS
<1>2. \A t \in Spans :
         t # 0 => \/ owner'[t] = owner[t]
                  \/ s # 0 /\ (t = s \/ t \in Above(active, s))
  BY <1>0, <1>1, PopActive
<1>3. s # 0 => s = frames[Depth].span
  <2> SUFFICES ASSUME s # 0
               PROVE  s = frames[Depth].span
    OBVIOUS
  <2>1. PICK n : n = FoundAt(stmt_stack, Depth)
    OBVIOUS
  <2>2. Found(stmt_stack, Depth) # {} /\ s = stmt_stack[n].ref
    BY <1>1, <2>1 DEF PoppedRef
  <2>3. n \in 1..Len(stmt_stack) /\ stmt_stack[n].key = Depth
    BY <1>0, <2>1, <2>2, FoundAtFacts DEF Types
  <2>4. PICK e : e = stmt_stack[n]
    OBVIOUS
  <2>5. e \in Items(stmt_stack)
    BY <2>3, <2>4 DEF Items
  <2>6. e.key > 0 => LiveEntry(e)
    BY <2>5, EntryFacts
  <2>7. e.key = Depth /\ Depth > 0
    BY <2>3, <2>4
  <2> QED
    BY <2>2, <2>4, <2>6, <2>7 DEF LiveEntry
<1>4. ASSUME NEW k \in 1..Depth, k < Depth, frames[k].span # 0
      PROVE  owner'[frames[k].span] = owner[frames[k].span]
  <2>1. frames[k].span \in Spans
    BY <1>0, <1>4, FrameFields
  <2>2. s # 0 => frames[k].span # s
    BY <1>0, <1>3, <1>4 DEF SpansDiffer
  <2>3. s # 0 => frames[k].span \notin Above(active, s)
    <3>1. k <= Depth
      BY <1>4
    <3> QED
      BY <1>0, <1>3, <3>1, EnclosingNotAbove
  <2> QED
    BY <1>2, <1>4, <2>1, <2>2, <2>3
<1>5. ASSUME NEW p \in Portals, portals[p].declared, portals[p].span # 0
      PROVE  owner'[portals[p].span] = owner[portals[p].span]
  <2>1. portals[p].span \in Spans
    BY <1>0, <1>5, PortalFields
  <2>2. s # 0 => portals[p].span # s
    BY <1>0, <1>3, <1>5 DEF SpansDiffer
  <2>3. portals[p].span \notin Above(active, s)
    BY <1>0, <1>5, CursorNotAbove
  <2> QED
    BY <1>2, <1>5, <2>1, <2>2, <2>3
<1> QED
  BY <1>4, <1>5

LEMMA RunEndSpares ==
    ASSUME StmtInv, ActiveInv, Depth \in 1..Depth, Deactivated(frames[Depth].act)
    PROVE  /\ \A k \in 1..Depth :
                frames[k].span # 0
                => owner'[frames[k].span] = owner[frames[k].span]
           /\ \A p \in Portals :
                portals[p].declared /\ portals[p].span # 0
                => owner'[portals[p].span] = owner[portals[p].span]
<1>0. Types /\ Distinct(active)
  BY DEF StmtInv, ActiveInv
<1>1. \A t \in Spans :
         owner'[t] = owner[t] \/ t \in Above(active, frames[Depth].act)
  BY <1>0, DeactivatedActive
<1>2. ASSUME NEW k \in 1..Depth
      PROVE  frames[k].span \notin Above(active, frames[Depth].act)
  <2>1. k <= Depth
    OBVIOUS
  <2> QED
    BY <1>0, <2>1, EnclosingNotAbove
<1> QED
  BY <1>0, <1>1, <1>2, CursorNotAbove, FrameFields, PortalFields

(* The end of a declared cursor, or of any that is not on the bookkeeping  *)
(* stack, ends no span but its own.                                        *)
LEMMA PortalEndSpares ==
    ASSUME StmtInv, ActiveInv, OrphansEnded, NEW p \in Portals, ~Running(p),
           portals[p].declared \/ Found(stmt_stack, -p) = {},
           PopAndFinalize(-p, portals[p].span)
    PROVE  \A t \in Spans : t # portals[p].span => owner'[t] = owner[t]
<1>0. Types /\ Distinct(active)
  BY DEF StmtInv, ActiveInv
<1>1. PICK s : s = PoppedRef(stmt_stack, -p)
  OBVIOUS
<1>2. \A t \in Spans :
         \/ owner'[t] = owner[t] \/ t = portals[p].span
         \/ s # 0 /\ owner[s] > 0 /\ (t = s \/ t \in Above(active, s))
  BY <1>0, <1>1, PopActive
<1>3. ASSUME s # 0, owner[s] > 0
      PROVE  s = portals[p].span /\ portals[p].declared
  <2>1. PICK n : n = FoundAt(stmt_stack, -p)
    OBVIOUS
  <2>2. Found(stmt_stack, -p) # {} /\ s = stmt_stack[n].ref
    BY <1>1, <1>3, <2>1 DEF PoppedRef
  <2>3. n \in 1..Len(stmt_stack) /\ stmt_stack[n].key = -p
    BY <1>0, <2>1, <2>2, FoundAtFacts DEF Types
  <2>4. PICK e : e = stmt_stack[n]
    OBVIOUS
  <2>5. e \in Items(stmt_stack)
    BY <2>3, <2>4 DEF Items
  <2>6. ~e.orphan
    <3>1. owner[e.ref] > 0
      BY <1>3, <2>2, <2>4
    <3> QED
      BY <2>5, <3>1 DEF OrphansEnded
  <2>7. LiveEntry(e)
    BY <2>5, <2>6, EntryFacts
  <2>8. e.key < 0 /\ -e.key = p
    BY <2>3, <2>4, TracingAssumption
  <2> QED
    BY <2>2, <2>4, <2>7, <2>8 DEF LiveEntry
<1>4. ASSUME NEW t \in Above(active, s), s = portals[p].span, portals[p].declared
      PROVE  FALSE
  <2>1. PICK i \in 1..Len(active) : active[i].span = s
    BY <1>0, <1>4, AboveFacts DEF Types
  <2>2. active[i] \in Items(active)
    BY DEF Items
  <2>3. PICK m \in 1..Depth : frames[m].kind = "run" /\ frames[m].name = p
    BY <1>4, <2>1, <2>2 DEF ActiveInv, DeclaredActive
  <2>4. frames[m] \in Items(frames)
    BY DEF Items, Depth
  <2> QED
    BY <2>3, <2>4 DEF Running
<1> QED
  BY <1>2, <1>3, <1>4

-----------------------------------------------------------------------------
(* No span has an owner younger than what it belongs to: an abort that     *)
(* ends it leaves nothing of the call or the portal either.                *)
CallLevels ==
    \A k \in 1..Depth : \A j \in 1..Len(bases) :
        frames[k].span # 0 /\ k <= bases[j] => owner[frames[k].span] <= j

SpanLevels ==
    /\ \A t \in Spans : owner[t] <= level
    /\ CallLevels
    /\ \A p \in Portals :
         portals[p].span # 0 => owner[portals[p].span] <= portals[p].lev

LEMMA OwnerLevels ==
    ASSUME Types
    PROVE  \A t \in Spans : owner[t] \in Nat
  BY TracingAssumption DEF Types

(* Starts.                                                                 *)
LEMMA LevelsStart ==
    ASSUME StmtInv, SpanLevels, level > 0, NEW key \in Key, NEW c,
           NEW s \in Startable, NEW d \in BOOLEAN, StartAndPush(key, c, s, d)
    PROVE  /\ \A t \in Spans : owner'[t] <= level
           /\ \A t \in Spans : t = s \/ owner'[t] = owner[t]
           /\ \A t \in Spans : owner[t] > 0 => owner'[t] > 0
           /\ \A k \in 1..Depth : frames[k].span # 0 => frames[k].span # s
           /\ \A p \in Portals : portals[p].span # 0 => portals[p].span # s
<1>1. Types /\ level \in Nat
  BY LevelFacts DEF StmtInv
<1>2. /\ s # 0 => s \in Unused
      /\ \/ owner' = owner
         \/ \A t \in Spans : owner'[t] = IF t = s THEN level ELSE owner[t]
  BY <1>1, StartEffect
<1>3. s # 0 => /\ \A k \in 1..Depth : frames[k].span # s
               /\ \A p \in Portals : portals[p].span # s
  BY <1>1, <1>2, UnusedFacts
<1>4. \A t \in Spans : owner[t] \in Nat /\ owner[t] <= level
  BY <1>1, OwnerLevels DEF SpanLevels
<1> QED
  BY <1>1, <1>2, <1>3, <1>4

LEMMA StartLevels ==
    ASSUME StmtInv, SpanLevels, NEW c, NEW s \in Startable,
           \/ ExecutorStart(c, s)
           \/ \E d \in Portals \union {0} : ProcessUtility(c, s, d)
           \/ \E p \in Portals, d \in BOOLEAN : PortalStart(p, c, s, d)
    PROVE  SpanLevels' /\ \A t \in Spans : owner[t] > 0 => owner'[t] > 0
<1>1. /\ Types /\ s \in Spans \union {0} /\ Depth \in Nat /\ level \in Nat
      /\ \A j \in 1..Len(bases) : bases[j] \in Nat /\ bases[j] <= Depth
  BY LevelFacts DEF Startable, Unused, StmtInv
<1>2. \A t \in Spans : owner[t] \in Nat /\ owner[t] <= level
  BY <1>1, OwnerLevels DEF SpanLevels
<1>3. ASSUME NEW f \in Frame, frames' = Append(frames, f), f.span = s,
             UNCHANGED <<level, bases, portals>>,
             \/ \E key \in Key, d \in BOOLEAN : StartAndPush(key, c, s, d)
             \/ UNCHANGED owner,
             level > 0
      PROVE  SpanLevels' /\ \A t \in Spans : owner[t] > 0 => owner'[t] > 0
  <2>1. /\ Depth' = Depth + 1
        /\ \A k \in 1..Depth : frames'[k] = frames[k]
    BY <1>1, <1>3, PushedFrame
  <2>2. /\ \A t \in Spans : owner'[t] <= level
        /\ \A t \in Spans : owner[t] > 0 => owner'[t] > 0
        /\ \A k \in 1..Depth :
             frames[k].span # 0 => owner'[frames[k].span] = owner[frames[k].span]
        /\ \A p \in Portals :
             portals[p].span # 0 => owner'[portals[p].span] = owner[portals[p].span]
    <3>1. CASE UNCHANGED owner
      BY <1>2, <3>1
    <3>2. CASE \E key \in Key, d \in BOOLEAN : StartAndPush(key, c, s, d)
      <4>1. \A k \in 1..Depth : frames[k].span \in Spans \union {0}
        BY <1>1, FrameFields
      <4>2. \A p \in Portals : portals[p].span \in Spans \union {0}
        BY <1>1, PortalFields
      <4>3. /\ \A t \in Spans : owner'[t] <= level
            /\ \A t \in Spans : t = s \/ owner'[t] = owner[t]
            /\ \A t \in Spans : owner[t] > 0 => owner'[t] > 0
            /\ \A k \in 1..Depth : frames[k].span # 0 => frames[k].span # s
            /\ \A p \in Portals : portals[p].span # 0 => portals[p].span # s
        <5>1. PICK key \in Key, d \in BOOLEAN : StartAndPush(key, c, s, d)
          BY <3>2
        <5>2. level > 0
          BY <1>3
        <5> QED
          BY <5>1, <5>2, LevelsStart, Zenon
      <4> QED
        BY <4>1, <4>2, <4>3
    <3> QED
      BY <1>3, <3>1, <3>2
  <2>3. CallLevels'
    <3> SUFFICES ASSUME NEW k \in 1..(Depth + 1), NEW j \in 1..Len(bases),
                        frames'[k].span # 0, k <= bases[j]
                 PROVE  owner'[frames'[k].span] <= j
      BY <1>3, <2>1 DEF CallLevels
    <3>1. k \in 1..Depth
      BY <1>1
    <3> QED
      BY <2>1, <2>2, <3>1 DEF SpanLevels, CallLevels
  <2>4. \A p \in Portals :
           portals[p].span # 0 => owner'[portals[p].span] <= portals[p].lev
    BY <2>2 DEF SpanLevels
  <2> QED
    BY <1>3, <2>2, <2>3, <2>4 DEF SpanLevels
<1>4. CASE ExecutorStart(c, s)
  <2>1. PICK f : f = [ExecFrame EXCEPT !.span = s]
    OBVIOUS
  <2>2. f \in Frame /\ f.span = s
    BY <1>1, <2>1, ExecFrameType DEF ExecFrame
  <2>3. /\ level > 0 /\ frames' = Append(frames, f)
        /\ StartAndPush(Depth + 1, c, s, is_declaring_cursor(ActivePortal))
        /\ UNCHANGED <<level, bases, portals>>
    BY <1>4, <2>1 DEF ExecutorStart, coreVars
  <2>4. Depth + 1 \in Key /\ is_declaring_cursor(ActivePortal) \in BOOLEAN
    BY <1>1, <1>4, TracingAssumption DEF Key, ExecutorStart, is_declaring_cursor
  <2> QED
    BY <1>3, <2>2, <2>3, <2>4
<1>5. ASSUME NEW d \in Portals \union {0}, ProcessUtility(c, s, d)
      PROVE  SpanLevels' /\ \A t \in Spans : owner[t] > 0 => owner'[t] > 0
  <2>1. PICK f : f = [kind |-> "util", span |-> s, toplevel |-> (Depth = 0),
                      name |-> d, saved |-> declaring, act |-> 0]
    OBVIOUS
  <2>2. f \in Frame /\ f.span = s
    BY <1>1, <2>1 DEF Frame, Types
  <2>3. /\ level > 0 /\ frames' = Append(frames, f)
        /\ Depth = 0 => StartAndPush(1, c, s, FALSE)
        /\ Depth # 0 => UNCHANGED owner
        /\ UNCHANGED <<level, bases, portals>>
    BY <1>5, <2>1 DEF ProcessUtility, spanVars, coreVars
  <2>4. 1 \in Key
    BY TracingAssumption DEF Key
  <2> QED
    BY <1>3, <2>2, <2>3, <2>4
<1>6. ASSUME NEW p \in Portals, NEW d \in BOOLEAN, PortalStart(p, c, s, d)
      PROVE  SpanLevels' /\ \A t \in Spans : owner[t] > 0 => owner'[t] > 0
  <2>1. PICK r : r = [lev |-> level, span |-> s, failed |-> FALSE, declared |-> d,
                      taken |-> ~d /\ \E f \in Items(frames) : Declares(f, p)]
    OBVIOUS
  <2>a. PICK f : f = [ExecFrame EXCEPT !.kind = "start", !.name = p]
    OBVIOUS
  <2>2. /\ r.span = s /\ r.lev = level
        /\ f \in Frame /\ f.span = 0
    BY <2>1, <2>a DEF ExecFrame, Frame
  <2>3. /\ level > 0
        /\ StartAndPush(-p, c, s, is_declaring_cursor(p))
        /\ portals' = [portals EXCEPT ![p] = r]
        /\ frames' = Append(frames, f)
        /\ UNCHANGED <<level, bases>>
    BY <1>6, <2>1, <2>a DEF PortalStart, coreVars
  <2>b. /\ Depth' = Depth + 1
        /\ \A k \in 1..Depth : frames'[k] = frames[k]
        /\ frames'[Depth + 1] = f
    BY <1>1, <2>2, <2>3, PushedFrame
  <2>4. -p \in Key /\ is_declaring_cursor(p) \in BOOLEAN
    BY DEF Key, is_declaring_cursor
  <2>5. /\ \A t \in Spans : owner'[t] <= level
        /\ \A t \in Spans : t = s \/ owner'[t] = owner[t]
        /\ \A t \in Spans : owner[t] > 0 => owner'[t] > 0
        /\ \A k \in 1..Depth : frames[k].span # 0 => frames[k].span # s
        /\ \A q \in Portals : portals[q].span # 0 => portals[q].span # s
    BY <2>3, <2>4, LevelsStart
  <2>6. CallLevels'
    <3> SUFFICES ASSUME NEW k \in 1..(Depth + 1), NEW j \in 1..Len(bases),
                        frames'[k].span # 0, k <= bases[j]
                 PROVE  owner'[frames'[k].span] <= j
      BY <2>3, <2>b DEF CallLevels
    <3>a. k \in 1..Depth /\ frames'[k] = frames[k]
      BY <1>1, <2>b
    <3>1. frames[k].span \in Spans /\ owner[frames[k].span] <= j
      BY <1>1, <3>a, FrameFields DEF SpanLevels, CallLevels
    <3> QED
      BY <2>5, <3>1, <3>a
  <2>7. ASSUME NEW q \in Portals, portals'[q].span # 0
        PROVE  owner'[portals'[q].span] <= portals'[q].lev
    <3>1. portals'[q] = IF q = p THEN r ELSE portals[q]
      BY <1>1, <2>3 DEF Types
    <3>2. CASE q = p
      <4>1. portals'[q].span = s /\ portals'[q].lev = level
        BY <2>2, <3>1, <3>2
      <4>2. s \in Spans
        BY <1>1, <2>7, <4>1
      <4>3. owner'[s] <= level
        BY <2>5, <4>2
      <4> QED
        BY <4>1, <4>3
    <3>3. CASE q # p
      <4>1. portals[q].span \in Spans /\ owner[portals[q].span] <= portals[q].lev
        BY <1>1, <2>7, <3>1, <3>3, PortalFields DEF SpanLevels
      <4> QED
        BY <2>5, <2>7, <3>1, <3>3, <4>1
    <3> QED
      BY <3>2, <3>3
  <2> QED
    BY <2>3, <2>5, <2>6, <2>7 DEF SpanLevels
<1> QED
  BY <1>4, <1>5, <1>6

(* Nothing starts, and spans stay with their owners or end.                *)
LEMMA LevelsStay ==
    ASSUME StmtInv, SpanLevels, UNCHANGED <<level, bases>>,
           \A t \in Spans : owner'[t] \in {0, owner[t]},
           \A k \in 1..Depth' :
               \/ frames'[k].span = 0
               \/ k \in 1..Depth /\ frames'[k].span = frames[k].span,
           \A p \in Portals :
               \/ portals'[p].span = 0
               \/ /\ portals'[p].span = portals[p].span
                  /\ portals'[p].lev = portals[p].lev
    PROVE  SpanLevels'
<1>1. /\ Types /\ level \in Nat
  BY LevelFacts DEF StmtInv
<1>2. \A t \in Spans : /\ owner[t] \in Nat /\ owner[t] <= level
                       /\ owner'[t] \in Nat /\ owner'[t] <= owner[t]
  BY <1>1, OwnerLevels DEF SpanLevels
<1>3. CallLevels'
  <2> SUFFICES ASSUME NEW k \in 1..Depth', NEW j \in 1..Len(bases),
                      frames'[k].span # 0, k <= bases[j]
               PROVE  owner'[frames'[k].span] <= j
    BY DEF CallLevels
  <2>1. /\ k \in 1..Depth /\ frames'[k].span = frames[k].span
    OBVIOUS
  <2>2. frames[k].span \in Spans /\ owner[frames[k].span] <= j
    BY <1>1, <2>1, FrameFields DEF SpanLevels, CallLevels
  <2> QED
    BY <1>2, <2>1, <2>2
<1>4. ASSUME NEW p \in Portals, portals'[p].span # 0
      PROVE  owner'[portals'[p].span] <= portals'[p].lev
  <2>1. /\ portals'[p].span = portals[p].span
        /\ portals'[p].lev = portals[p].lev
    BY <1>4
  <2>2. /\ portals[p].span \in Spans /\ portals[p].lev \in 0..MAX_LEVEL
        /\ owner[portals[p].span] <= portals[p].lev
    BY <1>1, <1>4, <2>1, PortalFields DEF SpanLevels
  <2> QED
    BY <1>2, <2>1, <2>2, TracingAssumption
<1>5. \A t \in Spans : owner'[t] <= level
  BY <1>1, <1>2
<1> QED
  BY <1>3, <1>4, <1>5 DEF SpanLevels

-----------------------------------------------------------------------------
(* The steps, one by one: SpanLevels is kept, and statements that go on    *)
(* and cursors that have not failed keep their spans.                      *)
CallsSurvive ==
    \A k \in 1..Depth :
        (/\ k <= Len(frames') /\ frames[k].span = frames'[k].span
         /\ frames[k].span # 0 /\ owner[frames[k].span] > 0)
        => owner'[frames[k].span] > 0

CursorsSurvive ==
    \A p \in Portals :
        (/\ IsOpen(p) /\ portals'[p].lev > 0 /\ ~portals'[p].failed
         /\ portals[p].span # 0 /\ owner[portals[p].span] > 0)
        => owner'[portals[p].span] > 0

(* No span is ended.                                                       *)
LEMMA AllSurvive ==
    ASSUME Types, \A t \in Spans : owner[t] > 0 => owner'[t] > 0
    PROVE  CallsSurvive /\ CursorsSurvive
<1>1. \A k \in 1..Depth : frames[k].span \in Spans \union {0}
  BY FrameFields
<1>2. \A p \in Portals : portals[p].span \in Spans \union {0}
  BY PortalFields
<1> QED
  BY <1>1, <1>2 DEF CallsSurvive, CursorsSurvive

LEMMA ReturnLevels ==
    ASSUME StmtInv, SpanLevels,
           \/ ExecutorEnd \/ ProcessUtilityReturns \/ ExecutorRunReturns
           \/ OtherPortalStart \/ PortalStartReturns
           \/ QueryRun \/ QueryRunReturns
           \/ \E p \in Portals : PortalEnd(p) \/ ExecutorRun(p)
    PROVE  SpanLevels'
<1>0. Types /\ OrphansBelow(stmt_stack) /\ owner \in [Spans -> 0..MAX_LEVEL]
  BY DEF StmtInv, Types
<1>1. ASSUME MayReturn, frames' = Front(frames)
      PROVE  \A k \in 1..Depth' :
               k \in 1..Depth /\ frames'[k].span = frames[k].span
  <2>1. Depth > 0
    <3>1. Base \in 0..Depth /\ Depth > Base /\ Depth \in Nat
      BY <1>1, LevelFacts, BaseFacts DEF StmtInv, MayReturn, Base
    <3> QED
      BY <3>1
  <2>2. /\ Depth' = Depth - 1 /\ Depth \in Nat \ {0}
        /\ \A k \in 1..(Depth - 1) : frames'[k] = frames[k]
    BY <1>0, <1>1, <2>1, PoppedFrame
  <2> QED
    BY <2>2
<1>a. ASSUME NEW a \in Spans \union {0}, MayReturn,
             frames' = [frames EXCEPT ![Depth].act = a]
      PROVE  /\ Depth' = Depth
             /\ \A k \in 1..Depth : frames'[k].span = frames[k].span
  <2>1. Depth > 0
    <3>1. Base \in 0..Depth /\ Depth > Base /\ Depth \in Nat
      BY <1>a, LevelFacts, BaseFacts DEF StmtInv, MayReturn, Base
    <3> QED
      BY <3>1
  <2>2. /\ Depth' = Depth
        /\ \A k \in 1..Depth : Alike(frames[k], frames'[k])
    BY <1>0, <1>a, <2>1, ActChanges
  <2> QED
    BY <2>2 DEF Alike
<1>2. CASE ExecutorEnd \/ ProcessUtilityReturns \/ ExecutorRunReturns
           \/ PortalStartReturns
  <2>1. /\ MayReturn /\ frames' = Front(frames)
        /\ UNCHANGED <<level, bases, portals>>
    BY <1>2 DEF ExecutorEnd, ProcessUtilityReturns, ExecutorRunReturns,
                PortalStartReturns, coreVars
  <2>2. \/ PopAndFinalize(Depth, 0) \/ UNCHANGED owner
        \/ Deactivated(Last(frames).act)
    BY <1>2 DEF ExecutorEnd, ProcessUtilityReturns, ExecutorRunReturns,
                PortalStartReturns, spanVars
  <2>3. \A t \in Spans : owner'[t] \in {0, owner[t]}
    <3>1. CASE PopAndFinalize(Depth, 0)
      BY <1>0, <3>1, PopEffect
    <3>2. CASE UNCHANGED owner
      BY <3>2
    <3>3. CASE Deactivated(Last(frames).act)
      BY <1>0, <3>3, EndSpansFacts DEF Deactivated
    <3> QED
      BY <2>2, <3>1, <3>2, <3>3
  <2> QED
    BY <1>1, <2>1, <2>3, LevelsStay
<1>3. ASSUME NEW p \in Portals, PortalEnd(p)
      PROVE  SpanLevels'
  <2>1. /\ portals' = [portals EXCEPT ![p] = NoPortal]
        /\ UNCHANGED <<frames, level, bases>>
        /\ PopAndFinalize(-p, portals[p].span) \/ UNCHANGED owner
    BY <1>3 DEF PortalEnd, coreVars, spanVars
  <2>2. \A q \in Portals : portals'[q] = IF q = p THEN NoPortal ELSE portals[q]
    BY <1>0, <2>1 DEF Types
  <2>3. \A t \in Spans : owner'[t] \in {0, owner[t]}
    BY <1>0, <2>1, PopEffect
  <2>4. Depth' = Depth
    BY <2>1 DEF Depth
  <2> QED
    BY <2>1, <2>2, <2>3, <2>4, LevelsStay DEF NoPortal
<1>4. ASSUME NEW p \in Portals, ExecutorRun(p)
      PROVE  SpanLevels'
  <2>1. PICK a : frames' = Append(frames, [ExecFrame EXCEPT
                                !.kind = "run", !.name = p, !.act = a])
    BY <1>4 DEF ExecutorRun
  <2>2. PICK f : f = [ExecFrame EXCEPT !.kind = "run", !.name = p, !.act = a]
    OBVIOUS
  <2>3. f.span = 0
    BY <2>2 DEF ExecFrame
  <2>4. /\ Depth' = Depth + 1 /\ Depth \in Nat
        /\ \A k \in 1..Depth : frames'[k] = frames[k]
        /\ frames'[Depth + 1] = f
    BY <1>0, <2>1, <2>2 DEF Types, Depth
  <2>5. UNCHANGED <<level, bases, portals, owner>>
    BY <1>4 DEF ExecutorRun, coreVars
  <2>6. \A k \in 1..Depth' : k \in 1..Depth \/ k = Depth + 1
    BY <2>4
  <2>7. \A k \in 1..Depth' :
           \/ frames'[k].span = 0
           \/ k \in 1..Depth /\ frames'[k].span = frames[k].span
    BY <2>3, <2>4, <2>6
  <2> QED
    BY <2>5, <2>7, LevelsStay
<1>5. CASE OtherPortalStart
  <2>1. PICK f : f = [ExecFrame EXCEPT !.kind = "start"]
    OBVIOUS
  <2>2. f \in Frame /\ f.span = 0
    BY <2>1 DEF ExecFrame, Frame
  <2>3. /\ frames' = Append(frames, f)
        /\ UNCHANGED <<level, bases, portals, owner>>
    BY <1>5, <2>1 DEF OtherPortalStart, coreVars, spanVars
  <2>4. /\ Depth' = Depth + 1 /\ Depth \in Nat
        /\ \A k \in 1..Depth : frames'[k] = frames[k]
        /\ frames'[Depth + 1] = f
    BY <1>0, <2>2, <2>3, PushedFrame
  <2>5. \A k \in 1..Depth' : k \in 1..Depth \/ k = Depth + 1
    BY <2>4
  <2>6. \A k \in 1..Depth' :
           \/ frames'[k].span = 0
           \/ k \in 1..Depth /\ frames'[k].span = frames[k].span
    BY <2>2, <2>4, <2>5
  <2> QED
    BY <2>3, <2>6, LevelsStay
<1>6. CASE QueryRun
  <2>1. PICK a : a = peek_cursor_span(Depth)
    OBVIOUS
  <2>2. /\ MayReturn /\ a \in Spans
        /\ frames' = [frames EXCEPT ![Depth].act = a]
        /\ UNCHANGED <<level, bases, portals, owner>>
    BY <1>0, <1>6, <2>1, PeekType DEF QueryRun, coreVars, Activatable
  <2>3. /\ Depth' = Depth
        /\ \A k \in 1..Depth : frames'[k].span = frames[k].span
    BY <1>a, <2>2
  <2> QED
    BY <2>2, <2>3, LevelsStay
<1>7. CASE QueryRunReturns
  <2>1. /\ MayReturn /\ Deactivated(Last(frames).act)
        /\ frames' = [frames EXCEPT ![Depth].act = 0]
        /\ UNCHANGED <<level, bases, portals>>
    BY <1>7 DEF QueryRunReturns, coreVars
  <2>2. /\ Depth' = Depth
        /\ \A k \in 1..Depth : frames'[k].span = frames[k].span
    BY <1>a, <2>1
  <2>3. \A t \in Spans : owner'[t] \in {0, owner[t]}
    BY <1>0, <2>1, EndSpansFacts DEF Deactivated
  <2> QED
    BY <2>1, <2>2, <2>3, LevelsStay
<1> QED
  BY <1>2, <1>3, <1>4, <1>5, <1>6, <1>7

LEMMA ReturnSurvive ==
    ASSUME StmtInv, ActiveInv, OrphansEnded, OnlyDeclared,
           \/ ExecutorEnd \/ ProcessUtilityReturns \/ ExecutorRunReturns
           \/ OtherPortalStart \/ PortalStartReturns
           \/ QueryRun \/ QueryRunReturns
           \/ \E p \in Portals : PortalEnd(p) \/ ExecutorRun(p)
    PROVE  CallsSurvive /\ CursorsSurvive
<1>0. Types /\ SpansDiffer
  BY DEF StmtInv, ActiveInv
<1>1. ASSUME MayReturn, frames' = Front(frames)
      PROVE  /\ Depth \in 1..Depth /\ Last(frames) = frames[Depth]
             /\ \A k \in 1..Depth : k <= Len(frames') => k < Depth
  <2>1. Base \in 0..Depth /\ Depth > Base
    BY <1>1, BaseFacts DEF StmtInv, MayReturn, Base
  <2>2. /\ Len(frames') = Depth - 1 /\ Depth \in Nat \ {0}
        /\ Last(frames) = frames[Depth]
    BY <1>0, <1>1, <2>1, PoppedFrame DEF Depth
  <2> QED
    BY <2>2
<1>2. ASSUME MayReturn, frames' = Front(frames), PopAndFinalize(Depth, 0)
      PROVE  CallsSurvive /\ CursorsSurvive
  BY <1>1, <1>2, StatementEndSpares DEF CallsSurvive, CursorsSurvive, OnlyDeclared
<1>3. ASSUME MayReturn, frames' = Front(frames), Deactivated(Last(frames).act)
      PROVE  CallsSurvive /\ CursorsSurvive
  BY <1>1, <1>3, RunEndSpares DEF CallsSurvive, CursorsSurvive, OnlyDeclared
<1>4. CASE ExecutorEnd
  BY <1>2, <1>4 DEF ExecutorEnd
<1>5. CASE ProcessUtilityReturns
  <2>1. CASE Last(frames).toplevel
    BY <1>2, <1>5, <2>1 DEF ProcessUtilityReturns
  <2>2. CASE ~Last(frames).toplevel
    <3>1. UNCHANGED owner
      BY <1>5, <2>2 DEF ProcessUtilityReturns, spanVars
    <3> QED
      BY <1>0, <3>1, AllSurvive
  <2> QED
    BY <2>1, <2>2
<1>6. CASE ExecutorRunReturns
  BY <1>3, <1>6 DEF ExecutorRunReturns
<1>7. ASSUME NEW p \in Portals, PortalEnd(p)
      PROVE  CallsSurvive /\ CursorsSurvive
  <2>1. /\ IsOpen(p) /\ ~Running(p) /\ portals' = [portals EXCEPT ![p] = NoPortal]
        /\ PopAndFinalize(-p, portals[p].span) \/ UNCHANGED owner
    BY <1>7 DEF PortalEnd, spanVars
  <2>2. portals[p].declared
    BY <2>1 DEF OnlyDeclared
  <2>3. CASE UNCHANGED owner
    BY <1>0, <2>3, AllSurvive
  <2>4. CASE PopAndFinalize(-p, portals[p].span)
    <3>1. \A t \in Spans : t # portals[p].span => owner'[t] = owner[t]
      BY <2>1, <2>2, <2>4, PortalEndSpares
    <3>2. CallsSurvive
      <4> SUFFICES ASSUME NEW k \in 1..Depth, frames[k].span # 0,
                          owner[frames[k].span] > 0
                   PROVE  owner'[frames[k].span] > 0
        BY DEF CallsSurvive
      <4>1. frames[k].span \in Spans /\ frames[k].span # portals[p].span
        BY <1>0, FrameFields DEF SpansDiffer
      <4> QED
        BY <3>1, <4>1
    <3>3. CursorsSurvive
      <4> SUFFICES ASSUME NEW q \in Portals, portals'[q].lev > 0,
                          portals[q].span # 0, owner[portals[q].span] > 0
                   PROVE  owner'[portals[q].span] > 0
        BY DEF CursorsSurvive
      <4>1. portals'[p].lev = 0
        BY <1>0, <2>1 DEF Types, NoPortal
      <4>2. q # p
        BY <4>1
      <4>3. portals[q].span \in Spans /\ portals[q].span # portals[p].span
        BY <1>0, <4>2, PortalFields DEF SpansDiffer
      <4> QED
        BY <3>1, <4>3
    <3> QED
      BY <3>2, <3>3
  <2> QED
    BY <2>1, <2>3, <2>4
<1>8. ASSUME NEW p \in Portals, ExecutorRun(p)
      PROVE  CallsSurvive /\ CursorsSurvive
  <2>1. UNCHANGED owner
    BY <1>8 DEF ExecutorRun
  <2> QED
    BY <1>0, <2>1, AllSurvive
<1>9. CASE OtherPortalStart \/ PortalStartReturns \/ QueryRun
  <2>1. UNCHANGED owner
    BY <1>9 DEF OtherPortalStart, PortalStartReturns, QueryRun, spanVars
  <2> QED
    BY <1>0, <2>1, AllSurvive
<1>10. CASE QueryRunReturns
  <2>1. MayReturn /\ Deactivated(Last(frames).act)
    BY <1>10 DEF QueryRunReturns
  <2>2. Depth \in 1..Depth /\ Last(frames) = frames[Depth]
    <3>1. Base \in 0..Depth /\ Depth > Base /\ Depth \in Nat
      BY <2>1, LevelFacts, BaseFacts DEF StmtInv, MayReturn, Base
    <3> QED
      BY <3>1 DEF Last, Depth
  <2> QED
    BY <2>1, <2>2, RunEndSpares DEF CallsSurvive, CursorsSurvive, OnlyDeclared
<1> QED
  BY <1>4, <1>5, <1>6, <1>7, <1>8, <1>9, <1>10

LEMMA XactLevels ==
    ASSUME StmtInv, SpanLevels,
           \/ BeginXact \/ BeginSub \/ CommitSub \/ CommitXact
           \/ RollbackTo \/ Rollback \/ InnerCommit \/ InnerRollback
           \/ MessageM \/ ReadyForQuery \/ UNCHANGED vars
    PROVE  SpanLevels'
<1>0. /\ Types /\ level \in Nat /\ \A t \in Spans : owner[t] \in Nat
      /\ owner \in [Spans -> 0..MAX_LEVEL] /\ bases \in Seq(0..MAX_FRAMES)
      /\ Len(bases) = IF level > 0 THEN level - 1 ELSE 0
  BY LevelFacts, OwnerLevels DEF StmtInv, Types
<1>f. \A k \in 1..Depth : frames[k].span \in Spans \union {0}
  BY <1>0, FrameFields
<1>p. \A p \in Portals : /\ portals[p].span \in Spans \union {0}
                         /\ portals[p].lev \in 0..MAX_LEVEL
  BY <1>0, PortalFields
<1>1. CASE RollbackTo \/ MessageM \/ ReadyForQuery \/ UNCHANGED vars
  <2>1. UNCHANGED <<frames, portals, owner, level, bases>>
    BY <1>1 DEF RollbackTo, MessageM, ReadyForQuery, vars, spanVars, coreVars
  <2> QED
    BY <1>0, <2>1, LevelsStay DEF Depth
<1>2. CASE BeginXact
  <2>1. UNCHANGED <<frames, portals, owner, bases>> /\ level = 0 /\ level' = 1
    BY <1>2 DEF BeginXact, spanVars
  <2>2. \A t \in Spans : owner'[t] <= 1
    BY <1>0, <2>1 DEF SpanLevels
  <2> QED
    BY <2>1, <2>2 DEF SpanLevels, CallLevels, Depth
<1>3. CASE BeginSub
  <2>1. /\ UNCHANGED <<frames, portals, owner>> /\ level > 0 /\ level' = level + 1
        /\ bases' = Append(bases, Depth)
    BY <1>3 DEF BeginSub, spanVars
  <2>2. \A t \in Spans : owner'[t] <= level + 1 /\ owner'[t] <= level
    BY <1>0, <2>1 DEF SpanLevels
  <2>3. CallLevels'
    <3> SUFFICES ASSUME NEW k \in 1..Depth, NEW j \in 1..Len(bases'),
                        frames[k].span # 0, k <= bases'[j]
                 PROVE  owner[frames[k].span] <= j
      BY <2>1 DEF CallLevels, Depth
    <3>1. /\ Len(bases') = level
          /\ \A i \in 1..Len(bases) : bases'[i] = bases[i]
          /\ Len(bases) = level - 1
      BY <1>0, <2>1
    <3>2. CASE j = level
      BY <1>f, <2>1, <2>2, <3>2
    <3>3. CASE j # level
      <4>1. j \in 1..Len(bases)
        BY <1>0, <3>1, <3>3
      <4> QED
        BY <3>1, <4>1 DEF SpanLevels, CallLevels
    <3> QED
      BY <3>2, <3>3
  <2> QED
    BY <2>1, <2>2, <2>3 DEF SpanLevels
<1>4. CASE CommitSub
  <2>1. /\ level > 1 /\ level' = level - 1 /\ UNCHANGED frames
        /\ bases' = Front(bases)
        /\ portals' = [p \in Portals |->
                         IF portals[p].lev = level
                         THEN [portals[p] EXCEPT !.lev = level - 1] ELSE portals[p]]
        /\ owner' = [s \in Spans |->
                       IF owner[s] = level THEN level - 1 ELSE owner[s]]
    BY <1>4 DEF CommitSub
  <2>2. \A t \in Spans : owner[t] <= level
    BY DEF SpanLevels
  <2>3. \A t \in Spans : /\ owner'[t] <= level - 1 /\ owner'[t] \in Nat
                         /\ owner'[t] <= owner[t]
    BY <1>0, <2>1, <2>2
  <2>4. Len(bases') = level - 2 /\ \A j \in 1..Len(bases') : bases'[j] = bases[j]
    BY <1>0, <2>1 DEF Front
  <2>5. CallLevels'
    <3> SUFFICES ASSUME NEW k \in 1..Depth, NEW j \in 1..Len(bases'),
                        frames[k].span # 0, k <= bases'[j]
                 PROVE  owner'[frames[k].span] <= j
      BY <2>1 DEF CallLevels, Depth
    <3>1. j \in 1..Len(bases) /\ k <= bases[j]
      BY <1>0, <2>1, <2>4
    <3>2. owner[frames[k].span] <= j
      BY <3>1 DEF SpanLevels, CallLevels
    <3>3. frames[k].span \in Spans
      BY <1>f
    <3> QED
      BY <1>0, <2>3, <3>2, <3>3
  <2>6. ASSUME NEW p \in Portals, portals'[p].span # 0
        PROVE  owner'[portals'[p].span] <= portals'[p].lev
    <3>1. PICK b : b = [portals[p] EXCEPT !.lev = level - 1]
      OBVIOUS
    <3>2. b.span = portals[p].span /\ b.lev = level - 1
      BY <1>0, <3>1, PortalFields DEF Portal
    <3>3. portals'[p] = IF portals[p].lev = level THEN b ELSE portals[p]
      BY <2>1, <3>1
    <3>4. portals'[p].span = portals[p].span
      BY <3>2, <3>3
    <3>5. portals[p].span \in Spans /\ owner[portals[p].span] <= portals[p].lev
      BY <1>p, <2>6, <3>4 DEF SpanLevels
    <3>6. owner'[portals[p].span] <= portals'[p].lev
      <4>1. CASE portals[p].lev = level
        BY <2>3, <3>2, <3>3, <3>5, <4>1
      <4>2. CASE portals[p].lev # level
        <5>a. portals'[p] = portals[p]
          BY <3>3, <4>2
        <5>b. portals[p].lev \in 0..MAX_LEVEL
          BY <1>p
        <5>1. portals'[p] = portals[p] /\ portals[p].lev \in Nat
          BY <5>a, <5>b, TracingAssumption
        <5> QED
          BY <1>0, <2>3, <3>5, <5>1
      <4> QED
        BY <4>1, <4>2
    <3> QED
      BY <3>4, <3>6
  <2> QED
    BY <2>1, <2>3, <2>5, <2>6 DEF SpanLevels
<1>5. CASE CommitXact \/ InnerCommit \/ Rollback \/ InnerRollback
  <2>1. \A t \in Spans : owner'[t] = 0
    <3>1. CASE CommitXact \/ InnerCommit
      BY <3>1 DEF CommitXact, InnerCommit
    <3>2. CASE Rollback \/ InnerRollback
      <4>1. Aborted(1, owner, active, {})
        BY <3>2 DEF Rollback, InnerRollback
      <4>2. \A t \in Spans : owner'[t] = IF owner[t] >= 1 THEN 0 ELSE owner[t]
        BY <4>1 DEF Aborted
      <4> QED
        BY <1>0, <4>2
    <3> QED
      BY <1>5, <3>1, <3>2
  <2>2. UNCHANGED frames /\ level' \in Nat
    BY <1>0, <1>5 DEF CommitXact, InnerCommit, Rollback, InnerRollback, coreVars
  <2>3. \A p \in Portals : portals'[p].span \in Spans \union {0} /\ portals'[p].lev \in Nat
    <3>1. Types'
      BY <1>5, XactTypes
    <3>2. portals' \in [Portals -> Portal]
      BY <3>1 DEF Types
    <3> QED
      BY <3>2, TracingAssumption DEF Portal
  <2>4. \A t \in Spans : owner'[t] <= level'
    BY <2>1, <2>2
  <2>5. CallLevels'
    BY <1>f, <2>1, <2>2 DEF CallLevels, Depth
  <2>6. \A p \in Portals :
           portals'[p].span # 0 => owner'[portals'[p].span] <= portals'[p].lev
    BY <2>1, <2>3
  <2> QED
    BY <2>4, <2>5, <2>6 DEF SpanLevels
<1> QED
  BY <1>1, <1>2, <1>3, <1>4, <1>5

LEMMA XactSurvive ==
    ASSUME StmtInv,
           \/ BeginXact \/ BeginSub \/ CommitSub \/ CommitXact
           \/ RollbackTo \/ Rollback \/ MessageM \/ ReadyForQuery
           \/ UNCHANGED vars
    PROVE  CallsSurvive /\ CursorsSurvive
<1>0. Types /\ level \in Nat /\ \A t \in Spans : owner[t] \in Nat
  BY LevelFacts, OwnerLevels DEF StmtInv
<1>1. CASE BeginXact \/ BeginSub \/ RollbackTo \/ MessageM \/ ReadyForQuery
           \/ UNCHANGED vars
  <2>1. UNCHANGED owner
    BY <1>1 DEF BeginXact, BeginSub, RollbackTo, MessageM, ReadyForQuery,
                vars, spanVars
  <2> QED
    BY <1>0, <2>1, AllSurvive
<1>2. CASE CommitSub
  <2>1. level > 1 /\ owner' = [s \in Spans |->
                       IF owner[s] = level THEN level - 1 ELSE owner[s]]
    BY <1>2 DEF CommitSub
  <2>2. \A t \in Spans : owner[t] > 0 => owner'[t] > 0
    BY <1>0, <2>1
  <2> QED
    BY <1>0, <2>2, AllSurvive
<1>3. CASE CommitXact \/ Rollback
  <2>1. Depth = 0
    BY <1>3 DEF CommitXact, Rollback
  <2>2. \A p \in Portals : ~(portals'[p].lev > 0)
    <3>1. CASE CommitXact
      BY <3>1 DEF CommitXact, IsOpen
    <3>2. CASE Rollback
      <4>1. Aborted(1, owner, active, {}) /\ owner \in [Spans -> 0..MAX_LEVEL]
            /\ active \in Seq(ActiveEntry)
        BY <1>0, <3>2 DEF Rollback, Types
      <4>2. ASSUME NEW p \in Portals
            PROVE  ~(portals'[p].lev > 0)
        <5>1. PICK b : b = [portals[p] EXCEPT !.failed = @ \/ p \in {}]
          OBVIOUS
        <5>2. b.lev = portals[p].lev /\ portals[p].lev \in Nat
          BY <1>0, <5>1, PortalFields, TracingAssumption DEF Portal
        <5>3. portals'[p] = IF portals[p].lev >= 1 THEN NoPortal ELSE b
          BY <4>1, <5>1 DEF Aborted
        <5> QED
          BY <5>2, <5>3 DEF NoPortal
      <4> QED
        BY <4>2
    <3> QED
      BY <1>3, <3>1, <3>2
  <2> QED
    BY <2>1, <2>2 DEF CallsSurvive, CursorsSurvive
<1> QED
  BY <1>1, <1>2, <1>3

LEMMA ErrorLevels ==
    ASSUME StmtInv, SpanLevels, Error
    PROVE  SpanLevels'
<1>0. /\ Types /\ BasesFit /\ OrphansBelow(stmt_stack)
      /\ level \in Nat /\ \A t \in Spans : owner[t] \in Nat
      /\ bases \in Seq(0..MAX_FRAMES) /\ Depth \in Nat
  BY LevelFacts, OwnerLevels DEF StmtInv, Types
<1>1. PICK kept, F : ErrorLeaves(kept, F)
  BY <1>0, ErrorEffect
<1>2. \A t \in Spans : owner'[t] \in {0, owner[t]} /\ owner'[t] \in Nat
  BY <1>0, ErrorEffect
<1>3. \A t \in Spans : owner'[t] < level
  <2>1. PICK own, act, G : Aborted(level, own, act, G)
    BY DEF Error
  <2>2. \A t \in Spans : owner'[t] = 0 \/ ~(owner'[t] >= level)
    BY <2>1 DEF Aborted
  <2>3. level > 0
    BY DEF Error
  <2> QED
    BY <1>0, <1>2, <2>2, <2>3
<1>4. /\ frames' = Prefix(frames, Base)
      /\ level' = IF Base = 0 THEN level ELSE level - 1
      /\ bases' = IF Base = 0 THEN bases ELSE Front(bases)
  BY Zenon DEF Error, Base
<1>5. Base \in 0..Depth
  BY <1>0, BaseFacts
<1>6. Depth' = Base /\ \A k \in 1..Base : frames'[k] = frames[k]
  BY <1>0, <1>4, <1>5, PrefixFacts DEF Types, Depth
<1>7. \A t \in Spans : owner'[t] <= level'
  BY <1>0, <1>2, <1>3, <1>4
<1>8. CallLevels'
  <2> SUFFICES ASSUME NEW k \in 1..Base, NEW j \in 1..Len(bases'),
                      frames'[k].span # 0, k <= bases'[j]
               PROVE  owner'[frames'[k].span] <= j
    BY <1>6 DEF CallLevels
  <2>1. k \in 1..Depth /\ Base > 0 /\ frames'[k] = frames[k]
    BY <1>0, <1>5, <1>6
  <2>2. Len(bases') = Len(bases) - 1 /\ \A i \in 1..Len(bases') : bases'[i] = bases[i]
    <3>1. level > 1
      BY <2>1 DEF Base
    <3>2. Len(bases) > 0
      BY <1>0, <3>1, BaseFacts
    <3> QED
      BY <1>0, <1>4, <2>1, <3>2 DEF Front
  <2>3. j \in 1..Len(bases) /\ k <= bases[j]
    BY <1>0, <2>2
  <2>4. owner[frames[k].span] <= j /\ frames[k].span \in Spans
    BY <1>0, <2>1, <2>3, FrameFields DEF SpanLevels, CallLevels
  <2> QED
    BY <1>0, <1>2, <2>1, <2>4
<1>9. ASSUME NEW p \in Portals, portals'[p].span # 0
      PROVE  owner'[portals'[p].span] <= portals'[p].lev
  <2>1. PICK b : b = [portals[p] EXCEPT !.failed = @ \/ p \in F]
    OBVIOUS
  <2>2. /\ b.span = portals[p].span /\ b.lev = portals[p].lev
        /\ portals[p].lev \in Nat /\ portals[p].span \in Spans \union {0}
    BY <1>0, <2>1, PortalFields, TracingAssumption DEF Portal
  <2>3. portals'[p] = IF portals[p].lev >= level THEN NoPortal ELSE b
    BY <1>1, <2>1 DEF ErrorLeaves
  <2>4. /\ portals'[p].span = portals[p].span
        /\ portals'[p].lev = portals[p].lev
    BY <1>9, <2>2, <2>3 DEF NoPortal
  <2>5. portals[p].span \in Spans /\ owner[portals[p].span] <= portals[p].lev
    BY <1>9, <2>2, <2>4 DEF SpanLevels
  <2> QED
    BY <1>0, <1>2, <2>2, <2>4, <2>5
<1> QED
  BY <1>7, <1>8, <1>9 DEF SpanLevels

LEMMA ErrorSurvive ==
    ASSUME StmtInv, ActiveInv, SpanLevels, OnlyDeclared, Error
    PROVE  CallsSurvive /\ CursorsSurvive
<1>0. /\ Types /\ BasesFit /\ OrphansBelow(stmt_stack) /\ SpansDiffer /\ RunFrames
      /\ level \in Nat /\ \A t \in Spans : owner[t] \in Nat
      /\ Depth \in Nat
  BY LevelFacts, OwnerLevels DEF StmtInv, ActiveInv
<1>1. PICK kept, F : ErrorLeaves(kept, F)
  BY <1>0, ErrorEffect
<1>2. \A t \in Spans :
        \/ owner'[t] = owner[t]
        \/ \E m \in (Base + 1)..Depth : t \in Above(active, frames[m].act)
        \/ \E p \in LostPortals : p \in Portals /\ t = portals[p].span
        \/ owner[t] >= level
  BY <1>0, ErrorActive
<1>3. frames' = Prefix(frames, Base)
  BY Zenon DEF Error, Base
<1>4. Base \in 0..Depth
  BY <1>0, BaseFacts
<1>5. Len(frames') = Base
  BY <1>0, <1>3, <1>4, PrefixFacts DEF Types, Depth
<1>6. \A m \in (Base + 1)..Depth : m \in 1..Depth /\ m > Base
  BY <1>0, <1>4
<1>7. CallsSurvive
  <2> SUFFICES ASSUME NEW k \in 1..Depth, k <= Base, frames[k].span # 0,
                      owner[frames[k].span] > 0
               PROVE  owner'[frames[k].span] > 0
    BY <1>5 DEF CallsSurvive
  <2>1. frames[k].span \in Spans
    BY <1>0, FrameFields
  <2>2. ASSUME NEW m \in (Base + 1)..Depth
        PROVE  frames[k].span \notin Above(active, frames[m].act)
    <3>1. m \in 1..Depth /\ k <= m
      BY <1>4, <1>6
    <3> QED
      BY <1>0, <3>1, EnclosingNotAbove
  <2>3. \A p \in Portals : frames[k].span # portals[p].span
    BY <1>0 DEF SpansDiffer
  <2>4. ~(owner[frames[k].span] >= level)
    <3>1. Base > 0 /\ level > 1
      BY <1>4 DEF Base
    <3>2. /\ level - 1 \in 1..Len(bases)
          /\ Base = bases[level - 1]
      BY <1>0, <3>1, BaseFacts
    <3>3. owner[frames[k].span] <= level - 1
      BY <3>2 DEF SpanLevels, CallLevels
    <3> QED
      BY <1>0, <2>1, <3>3
  <2> QED
    BY <1>2, <2>1, <2>2, <2>3, <2>4
<1>8. CursorsSurvive
  <2> SUFFICES ASSUME NEW p \in Portals, IsOpen(p), portals'[p].lev > 0,
                      ~portals'[p].failed, portals[p].span # 0,
                      owner[portals[p].span] > 0
               PROVE  owner'[portals[p].span] > 0
    BY DEF CursorsSurvive
  <2>1. portals[p].span \in Spans /\ portals[p].lev \in Nat /\ portals[p].declared
    BY <1>0, PortalFields, TracingAssumption DEF OnlyDeclared
  <2>2. PICK b : b = [portals[p] EXCEPT !.failed = @ \/ p \in F]
    OBVIOUS
  <2>3. b.failed = (portals[p].failed \/ p \in F)
    BY <1>0, <2>2, PortalFields DEF Portal
  <2>4. portals'[p] = IF portals[p].lev >= level THEN NoPortal ELSE b
    BY <1>1, <2>2 DEF ErrorLeaves
  <2>5. ~(portals[p].lev >= level)
    BY <2>4 DEF NoPortal
  <2>6. p \notin F
    BY <2>3, <2>4, <2>5
  <2>7. F = LostPortals
    BY <1>1 DEF ErrorLeaves, LostPortals, LeftRuns
  <2>8. \A q \in LostPortals :
           q \in Portals => portals[q].span # portals[p].span
    BY <1>0, <2>6, <2>7 DEF SpansDiffer
  <2>9. \A m \in (Base + 1)..Depth : portals[p].span \notin Above(active, frames[m].act)
    BY <1>0, <2>1, CursorNotAbove
  <2>10. ~(owner[portals[p].span] >= level)
    <3>1. owner[portals[p].span] <= portals[p].lev
      BY DEF SpanLevels
    <3> QED
      BY <1>0, <2>1, <2>5, <3>1
  <2> QED
    BY <1>2, <2>1, <2>8, <2>9, <2>10
<1> QED
  BY <1>7, <1>8

LEMMA LevelsNext ==
    StmtInv /\ SpanLevels /\ [Next]_vars => SpanLevels'
<1> SUFFICES ASSUME StmtInv, SpanLevels, [Next]_vars
             PROVE  SpanLevels'
  OBVIOUS
<1>1. ASSUME NEW c \in Comments, NEW s \in Startable,
             \/ ExecutorStart(c, s)
             \/ \E d \in Portals \union {0} : ProcessUtility(c, s, d)
             \/ \E p \in Portals, d \in BOOLEAN : PortalStart(p, c, s, d)
      PROVE  SpanLevels'
  BY <1>1, StartLevels
<1>2. CASE \/ ExecutorEnd \/ ProcessUtilityReturns \/ ExecutorRunReturns
           \/ OtherPortalStart \/ PortalStartReturns
           \/ QueryRun \/ QueryRunReturns
           \/ \E p \in Portals : PortalEnd(p) \/ ExecutorRun(p)
  BY <1>2, ReturnLevels
<1>3. CASE \/ BeginXact \/ BeginSub \/ CommitSub \/ CommitXact
           \/ RollbackTo \/ Rollback \/ InnerCommit \/ InnerRollback
           \/ MessageM \/ ReadyForQuery \/ UNCHANGED vars
  BY <1>3, XactLevels
<1>4. CASE Error
  BY <1>4, ErrorLevels
<1> QED
  BY <1>1, <1>2, <1>3, <1>4 DEF Next

(* Unless a procedure ends the transaction, no step ends the span of a     *)
(* statement that goes on, or of a cursor that has not failed, as long as  *)
(* the open cursors are declared ones: what finalize_stmt_span's and       *)
(* otel_span_deactivate's unwinding takes along, and what an abort of a    *)
(* subtransaction ends, has always ended itself.                           *)
THEOREM StatementsKeepTheirSpans == Spec => StatementSpansSurvive
<1>1. Init => SpanLevels
  <2> SUFFICES ASSUME Init
               PROVE  SpanLevels
    OBVIOUS
  <2>1. /\ level = 0 /\ bases = <<>> /\ frames = <<>>
        /\ \A t \in Spans : owner[t] = 0
        /\ \A p \in Portals : portals[p].span = 0
    BY DEF Init, NoPortal
  <2> QED
    BY <2>1 DEF SpanLevels, CallLevels, Depth
<1>2. StmtInv /\ ActiveInv /\ OrphansEnded /\ SpanLevels /\ [Next]_vars =>
        ((~InnerCommit /\ ~InnerRollback /\ OnlyDeclared)
         => CallsSurvive /\ CursorsSurvive)
  <2> SUFFICES ASSUME StmtInv, ActiveInv, OrphansEnded, SpanLevels, [Next]_vars,
                      ~InnerCommit, ~InnerRollback, OnlyDeclared
               PROVE  CallsSurvive /\ CursorsSurvive
    OBVIOUS
  <2>0. Types
    BY DEF StmtInv
  <2>1. ASSUME NEW c \in Comments, NEW s \in Startable,
               \/ ExecutorStart(c, s)
               \/ \E d \in Portals \union {0} : ProcessUtility(c, s, d)
               \/ \E p \in Portals, d \in BOOLEAN : PortalStart(p, c, s, d)
        PROVE  CallsSurvive /\ CursorsSurvive
    BY <2>0, <2>1, StartLevels, AllSurvive
  <2>2. CASE \/ ExecutorEnd \/ ProcessUtilityReturns \/ ExecutorRunReturns
             \/ OtherPortalStart \/ PortalStartReturns
             \/ QueryRun \/ QueryRunReturns
             \/ \E p \in Portals : PortalEnd(p) \/ ExecutorRun(p)
    BY <2>2, ReturnSurvive
  <2>3. CASE \/ BeginXact \/ BeginSub \/ CommitSub \/ CommitXact
             \/ RollbackTo \/ Rollback \/ MessageM \/ ReadyForQuery
             \/ UNCHANGED vars
    BY <2>3, XactSurvive
  <2>4. CASE Error
    BY <2>4, ErrorSurvive
  <2> QED
    BY <2>1, <2>2, <2>3, <2>4 DEF Next
<1>3. StmtInv /\ ActiveInv /\ OrphansEnded /\ SpanLevels /\ [Next]_vars
      => [(/\ ~InnerCommit /\ ~InnerRollback
           /\ OnlyDeclared) =>
          /\ \A k \in 1..Depth :
               (/\ k <= Len(frames') /\ frames[k].span = frames'[k].span
                /\ frames[k].span # 0 /\ owner[frames[k].span] > 0)
               => owner'[frames[k].span] > 0
          /\ \A p \in Portals :
               (/\ IsOpen(p) /\ portals'[p].lev > 0 /\ ~portals'[p].failed
                /\ portals[p].span # 0 /\ owner[portals[p].span] > 0)
               => owner'[portals[p].span] > 0]_vars
  BY <1>2 DEF CallsSurvive, CursorsSurvive
<1> QED
  BY <1>1, <1>3, SpanInvariant, LevelsNext, PTL DEF Spec, StatementSpansSurvive

-----------------------------------------------------------------------------
(* The slot of the parallel leader.  While nothing disturbs them, the      *)
(* bookkeeping stack and the slot tell the same story: the entries are     *)
(* those of open spans, in the order of the calls, and the last is in the  *)
(* slot.                                                                   *)
CalmEntry(e) ==
    /\ ~e.orphan
    /\ owner[e.ref] > 0
    /\ e.key < 0 => ~failed

SlotNames(stk, l) == l = IF stk = <<>> THEN 0 ELSE Last(stk).ref

Rising(stk) ==
    \A j, k \in 1..Len(stk) :
        j < k /\ stk[j].key > 0 /\ stk[k].key > 0 => stk[j].key < stk[k].key

Calm ==
    ~disturbed =>
        /\ OnlyDeclared
        /\ SlotNames(stmt_stack, leader)
        /\ \A e \in Items(stmt_stack) : CalmEntry(e)
        /\ Rising(stmt_stack)

LEMMA ThinnedRises ==
    ASSUME NEW s, NEW t, Thins(t, s), Rising(s)
    PROVE  Rising(t)
  BY DEF Thins, Rising

LEMMA LastEntry ==
    ASSUME NEW stk \in Seq(StmtSpanEntry), stk # <<>>
    PROVE  /\ Len(stk) \in 1..Len(stk) /\ Last(stk) = stk[Len(stk)]
           /\ Last(stk) \in Items(stk) /\ Last(stk).ref \in Spans
<1>1. Len(stk) \in 1..Len(stk) /\ Last(stk) = stk[Len(stk)]
  BY DEF Last
<1>2. Last(stk) \in Items(stk)
  BY <1>1 DEF Items
<1>3. Last(stk) \in StmtSpanEntry
  BY <1>2, ItemFacts
<1> QED
  BY <1>1, <1>2, <1>3, EntryFields

(* An entry belongs to a call or to a portal; two do not belong to one.    *)
LEMMA CalmKeys ==
    ASSUME StmtInv, Calm, ~disturbed, NEW e \in Items(stmt_stack)
    PROVE  /\ e \in StmtSpanEntry /\ e.ref \in Spans /\ owner[e.ref] > 0
           /\ \/ /\ e.key \in 1..Depth /\ frames[e.key].span = e.ref
                 /\ frames[e.key].span # 0
              \/ /\ e.key < 0 /\ -e.key \in Portals /\ IsOpen(-e.key)
                 /\ portals[-e.key].span = e.ref /\ portals[-e.key].span # 0
                 /\ portals[-e.key].declared /\ ~failed
<1>1. /\ e \in StmtSpanEntry /\ e.key \in Int /\ e.key # 0 /\ e.ref \in Spans
      /\ e.ref # 0
  BY EntryFacts, TracingAssumption
<1>2. /\ ~e.orphan /\ owner[e.ref] > 0 /\ (e.key < 0 => ~failed)
      /\ OnlyDeclared
  BY DEF Calm, CalmEntry
<1>3. LiveEntry(e) /\ e.key \in Key
  BY <1>1, <1>2, EntryFacts, EntryFields
<1>4. CASE e.key > 0
  <2>1. e.key <= Depth /\ frames[e.key].span = e.ref
    BY <1>3, <1>4 DEF LiveEntry
  <2>2. e.key \in 1..Depth
    BY <1>1, <1>4, <2>1, LevelFacts
  <2> QED
    BY <1>1, <1>2, <2>1, <2>2
<1>5. CASE e.key < 0
  <2>1. -e.key \in Portals
    BY <1>3, <1>5, KeyFacts
  <2> QED
    BY <1>1, <1>2, <1>3, <1>5, <2>1 DEF LiveEntry, OnlyDeclared
<1> QED
  BY <1>1, <1>4, <1>5

LEMMA UniqueKeys ==
    ASSUME StmtInv, Calm, ~disturbed,
           NEW j \in 1..Len(stmt_stack), NEW k \in 1..Len(stmt_stack),
           stmt_stack[j].key = stmt_stack[k].key
    PROVE  j = k
<1>1. \A i \in 1..Len(stmt_stack) : ~stmt_stack[i].orphan
  <2>1. \A i \in 1..Len(stmt_stack) : stmt_stack[i] \in Items(stmt_stack)
    BY DEF Items
  <2> QED
    BY <2>1 DEF Calm, CalmEntry
<1>2. ~(j < k) /\ ~(k < j)
  BY <1>1 DEF StmtInv, OrphansBelow
<1>3. j \in Int /\ k \in Int
  OBVIOUS
<1> QED
  BY <1>2, <1>3

(* Nothing happens to the stack and the slot.                              *)
LEMMA CalmStays ==
    ASSUME StmtInv, Calm, UNCHANGED <<stmt_stack, leader>>,
           ~disturbed' => ~disturbed, failed' => failed,
           OnlyDeclared => OnlyDeclared',
           ~disturbed => \A e \in Items(stmt_stack) : owner'[e.ref] > 0
    PROVE  Calm'
<1> SUFFICES ASSUME ~disturbed'
             PROVE  /\ OnlyDeclared'
                    /\ SlotNames(stmt_stack, leader)
                    /\ \A e \in Items(stmt_stack) : CalmEntry(e)'
                    /\ Rising(stmt_stack)
  BY DEF Calm
<1>1. /\ OnlyDeclared
      /\ SlotNames(stmt_stack, leader)
      /\ \A e \in Items(stmt_stack) : CalmEntry(e)
      /\ Rising(stmt_stack)
  BY DEF Calm
<1>2. \A e \in Items(stmt_stack) : owner'[e.ref] > 0
  OBVIOUS
<1> QED
  BY <1>1, <1>2 DEF CalmEntry

LEMMA NoEntries ==
    ASSUME NEW stk \in Seq(StmtSpanEntry), \A e \in Items(stk) : FALSE
    PROVE  stk = <<>>
<1>1. Len(stk) \in Nat
  OBVIOUS
<1>2. ~(Len(stk) > 0)
  <2>1. SUFFICES ASSUME Len(stk) > 0
                 PROVE  FALSE
    OBVIOUS
  <2>2. 1 \in DOMAIN stk
    BY <1>1, <2>1
  <2>3. stk[1] \in Items(stk)
    BY <2>2 DEF Items
  <2> QED
    BY <2>3
<1> QED
  BY <1>1, <1>2

(* There is nothing on the stack.                                          *)
LEMMA CalmEmpty ==
    ASSUME stmt_stack' = <<>>, ~disturbed' => leader' = 0 /\ OnlyDeclared'
    PROVE  Calm'
<1>1. Items(stmt_stack') = {} /\ Len(stmt_stack') = 0
  BY DEF Items
<1> QED
  BY <1>1 DEF Calm, SlotNames, Rising

(* A statement starts.                                                     *)
LEMMA CalmStarts ==
    ASSUME StmtInv, Calm, level > 0, NEW key \in Key, NEW c,
           NEW s \in Startable, NEW d \in BOOLEAN, StartAndPush(key, c, s, d),
           \A e \in Items(stmt_stack) : e.key > 0 /\ key > 0 => e.key < key,
           key < 0 => ~failed, UNCHANGED failed,
           NEW spi, Disturbs(s, spi), ~spi /\ OnlyDeclared => OnlyDeclared'
    PROVE  Calm'
<1>1. Types /\ level \in Nat /\ stmt_stack \in Seq(StmtSpanEntry)
  BY LevelFacts DEF StmtInv, Types
<1> SUFFICES ASSUME ~disturbed'
             PROVE  Calm'
  BY DEF Calm
<1>2. ~disturbed /\ ~(s # 0 /\ StackFull) /\ OnlyDeclared'
  BY DEF Disturbs, Calm
<1>3. /\ OnlyDeclared
      /\ SlotNames(stmt_stack, leader)
      /\ \A e \in Items(stmt_stack) : CalmEntry(e)
      /\ Rising(stmt_stack)
  BY <1>2 DEF Calm
<1>4. CASE s = 0
  <2>1. UNCHANGED <<stmt_stack, leader, owner>>
    BY <1>4 DEF StartAndPush
  <2>2. \A e \in Items(stmt_stack) : owner'[e.ref] > 0
    BY <1>3, <2>1 DEF CalmEntry
  <2> QED
    BY <1>2, <2>1, <2>2, CalmStays
<1>5. CASE s # 0
  <2>1. PICK x : x = Entry(key, s, d)
    OBVIOUS
  <2>2. /\ x.key = key /\ x.ref = s /\ x.detached = d /\ x.orphan = FALSE
    BY <2>1 DEF Entry
  <2>3. leader' = s /\ stmt_stack' = Append(stmt_stack, x)
    BY <1>2, <1>5, <2>1 DEF StartAndPush, Entry
  <2>4. PICK n \in Nat : n = Len(stmt_stack)
    BY <1>1
  <2>5. /\ Len(stmt_stack') = n + 1 /\ stmt_stack'[n + 1] = x
        /\ \A i \in 1..n : stmt_stack'[i] = stmt_stack[i]
        /\ stmt_stack' # <<>> /\ Last(stmt_stack') = x
    <3>1. /\ Len(stmt_stack') = n + 1 /\ stmt_stack'[n + 1] = x
          /\ \A i \in 1..n : stmt_stack'[i] = stmt_stack[i]
      BY <1>1, <2>3, <2>4
    <3>2. stmt_stack' # <<>>
      BY <2>4, <3>1
    <3> QED
      BY <3>1, <3>2 DEF Last
  <2>6. s \in Unused /\ s \in Spans
    BY <1>1, <1>5, StartEffect, UnusedFacts
  <2>7. owner'[s] > 0 /\ \A t \in Spans : t # s => owner'[t] = owner[t]
    <3>1. owner' = [owner EXCEPT ![s] = level] /\ owner \in [Spans -> 0..MAX_LEVEL]
      BY <1>1, <1>2, <1>5 DEF StartAndPush, Types
    <3> QED
      BY <1>1, <2>6, <3>1
  <2>8. ASSUME NEW e \in Items(stmt_stack)
        PROVE  CalmEntry(e)'
    <3>1. e.ref # s /\ e.ref \in Spans
      BY <1>1, <2>6, UnusedFacts, ItemFacts, EntryFields
    <3>2. CalmEntry(e)
      BY <1>3
    <3> QED
      BY <2>7, <3>1, <3>2 DEF CalmEntry
  <2>9. CalmEntry(x)'
    BY <1>2, <2>2, <2>7 DEF CalmEntry
  <2>10. ASSUME NEW e \in Items(stmt_stack')
         PROVE  CalmEntry(e)'
    <3>1. PICK i \in 1..(n + 1) : e = stmt_stack'[i]
      BY <2>5 DEF Items
    <3>2. CASE i = n + 1
      BY <2>5, <2>9, <3>1, <3>2
    <3>3. CASE i # n + 1
      <4>1. i \in 1..n
        BY <3>3
      <4>2. e \in Items(stmt_stack)
        BY <2>4, <2>5, <3>1, <4>1 DEF Items
      <4> QED
        BY <2>8, <4>2
    <3> QED
      BY <3>2, <3>3
  <2>11. Rising(stmt_stack')
    <3> SUFFICES ASSUME NEW j \in 1..(n + 1), NEW k \in 1..(n + 1), j < k,
                        stmt_stack'[j].key > 0, stmt_stack'[k].key > 0
                 PROVE  stmt_stack'[j].key < stmt_stack'[k].key
      BY <2>5 DEF Rising
    <3>1. j \in 1..n /\ (k \in 1..n \/ k = n + 1)
      OBVIOUS
    <3>2. stmt_stack'[j] = stmt_stack[j] /\ stmt_stack[j] \in Items(stmt_stack)
      BY <2>4, <2>5, <3>1 DEF Items
    <3>3. CASE k \in 1..n
      BY <1>3, <2>4, <2>5, <3>1, <3>2, <3>3 DEF Rising
    <3>4. CASE k = n + 1
      BY <2>2, <2>5, <3>2, <3>4
    <3> QED
      BY <3>1, <3>3, <3>4
  <2>12. SlotNames(stmt_stack', leader')
    BY <2>2, <2>3, <2>5 DEF SlotNames
  <2> QED
    BY <1>2, <2>10, <2>11, <2>12 DEF Calm
<1> QED
  BY <1>4, <1>5

(* A statement or a portal ends, and no other statement's span with it.    *)
LEMMA CalmPops ==
    ASSUME StmtInv, Calm, NEW key, NEW held, PopAndFinalize(key, held),
           ~disturbed => \A e \in Items(stmt_stack) :
                           e.key # key => owner'[e.ref] > 0,
           UNCHANGED <<disturbed, failed>>, OnlyDeclared => OnlyDeclared'
    PROVE  Calm'
<1>0. /\ Types /\ stmt_stack \in Seq(StmtSpanEntry)
      /\ owner \in [Spans -> 0..MAX_LEVEL] /\ OrphansBelow(stmt_stack)
  BY DEF StmtInv, Types
<1> SUFFICES ASSUME ~disturbed'
             PROVE  Calm'
  BY DEF Calm
<1>1. /\ ~disturbed /\ SlotNames(stmt_stack, leader) /\ OnlyDeclared
      /\ \A e \in Items(stmt_stack) : CalmEntry(e)
      /\ Rising(stmt_stack)
  BY DEF Calm
<1>2. /\ stmt_stack' = Popped(stmt_stack, key)
      /\ stmt_stack' \in Seq(StmtSpanEntry)
  BY <1>0, PopEffect
<1>3. /\ Thins(stmt_stack', stmt_stack)
      /\ \A e \in Items(stmt_stack') : e \in Items(stmt_stack) /\ e.key # key
  <2>1. /\ Thins(stmt_stack', stmt_stack)
        /\ \A e \in Items(stmt_stack') : e.key = key => e.orphan
    BY <1>0, <1>2, PoppedFacts
  <2>2. Items(stmt_stack') \subseteq Items(stmt_stack)
    BY <2>1 DEF Thins
  <2> QED
    BY <1>1, <2>1, <2>2 DEF CalmEntry
<1>4. \A e \in Items(stmt_stack') : owner'[e.ref] > 0
  BY <1>1, <1>3
<1>5. Rising(stmt_stack')
  BY <1>1, <1>3, ThinnedRises
<1>6. \A e \in Items(stmt_stack') : CalmEntry(e)'
  BY <1>1, <1>3, <1>4 DEF CalmEntry
<1>7. SlotNames(stmt_stack', leader')
  <2>1. PICK s : s = PoppedRef(stmt_stack, key)
    OBVIOUS
  <2>2. PICK own : own = IF s # 0 /\ owner[s] > 0
                         THEN EndSpans(owner, {s} \union Above(active, s))
                         ELSE owner
    OBVIOUS
  <2>3. /\ owner' = EndSpans(own, {held})
        /\ leader' = IF s = 0 THEN leader ELSE RestoredLeader(stmt_stack', own)
    BY <1>2, <2>1, <2>2 DEF PopAndFinalize
  <2>4. CASE s = 0
    <3>1. Found(stmt_stack, key) = {}
      <4>1. SUFFICES ASSUME Found(stmt_stack, key) # {}
                     PROVE  FALSE
        OBVIOUS
      <4>2. PICK n : n = FoundAt(stmt_stack, key)
        OBVIOUS
      <4>3. n \in 1..Len(stmt_stack) /\ s = stmt_stack[n].ref
        BY <1>0, <2>1, <4>1, <4>2, FoundAtFacts DEF PoppedRef
      <4>4. stmt_stack[n] \in StmtSpanEntry
        BY <1>0, <4>3
      <4> QED
        BY <2>4, <4>3, <4>4, EntryFields, TracingAssumption
    <3>2. stmt_stack' = stmt_stack
      BY <1>2, <3>1 DEF Popped
    <3> QED
      BY <1>1, <2>3, <2>4, <3>2
  <2>5. CASE s # 0
    <3>1. CASE stmt_stack' = <<>>
      BY <2>3, <2>5, <3>1 DEF RestoredLeader, SlotNames
    <3>2. CASE stmt_stack' # <<>>
      <4>1. Last(stmt_stack') \in Items(stmt_stack') /\ Last(stmt_stack').ref \in Spans
        BY <1>2, <3>2, LastEntry
      <4>2. PICK r \in Spans : r = Last(stmt_stack').ref
        BY <4>1
      <4>3. owner'[r] > 0
        BY <1>4, <4>1, <4>2
      <4>4. owner'[r] \in {0, own[r]}
        BY <2>3 DEF EndSpans
      <4>5. own[r] > 0
        BY <4>3, <4>4
      <4>6. RestoredLeader(stmt_stack', own) = r
        BY <3>2, <4>2, <4>5 DEF RestoredLeader
      <4> QED
        BY <2>3, <2>5, <3>2, <4>2, <4>6 DEF SlotNames
    <3> QED
      BY <3>1, <3>2
  <2> QED
    BY <2>4, <2>5
<1> QED
  BY <1>1, <1>5, <1>6, <1>7 DEF Calm

LEMMA HookCalm ==
    ASSUME StmtInv, Calm, NEW c, NEW s \in Startable,
           \/ ExecutorStart(c, s)
           \/ \E d \in Portals \union {0} : ProcessUtility(c, s, d)
           \/ \E p \in Portals, d \in BOOLEAN : PortalStart(p, c, s, d)
    PROVE  Calm'
<1>1. Types /\ Depth \in Nat /\ level \in Nat
  BY LevelFacts DEF StmtInv
<1>2. ASSUME NEW e \in Items(stmt_stack), e.key > 0
      PROVE  e.key < Depth + 1
  <2>1. e.key \in Int /\ e.key <= Depth
    BY <1>2, EntryFacts DEF LiveEntry
  <2> QED
    BY <1>1, <2>1
<1>3. UNCHANGED portals => (OnlyDeclared => OnlyDeclared')
  BY DEF OnlyDeclared, IsOpen
<1>4. CASE ExecutorStart(c, s)
  <2>1. /\ level > 0 /\ ~failed /\ UNCHANGED <<failed, portals>>
        /\ StartAndPush(Depth + 1, c, s, is_declaring_cursor(ActivePortal))
        /\ Disturbs(s, FALSE)
    BY <1>4 DEF ExecutorStart, coreVars
  <2>2. Depth + 1 \in Key /\ is_declaring_cursor(ActivePortal) \in BOOLEAN
    BY <1>1, <1>4, TracingAssumption DEF Key, ExecutorStart, is_declaring_cursor
  <2> QED
    BY <1>2, <1>3, <2>1, <2>2, CalmStarts
<1>5. ASSUME NEW d \in Portals \union {0}, ProcessUtility(c, s, d)
      PROVE  Calm'
  <2>1. level > 0 /\ UNCHANGED <<failed, portals>> /\ Disturbs(s, FALSE)
    BY <1>5 DEF ProcessUtility, coreVars
  <2>2. CASE Depth = 0
    <3>1. StartAndPush(1, c, s, FALSE)
      BY <1>5, <2>2 DEF ProcessUtility
    <3>2. PICK key \in Key : key = 1
      BY TracingAssumption DEF Key
    <3>3. \A e \in Items(stmt_stack) : e.key > 0 => e.key < key
      BY <1>2, <2>2, <3>2
    <3>4. StartAndPush(key, c, s, FALSE)
      BY <3>1, <3>2, Zenon
    <3>5. ~(key < 0)
      BY <3>2
    <3> QED
      BY <1>3, <2>1, <3>3, <3>4, <3>5, CalmStarts
  <2>3. CASE Depth # 0
    <3>1. s = 0 /\ UNCHANGED <<stmt_stack, leader, owner>>
      BY <1>5, <2>3 DEF ProcessUtility, spanVars
    <3>2. ~disturbed' => ~disturbed
      BY <2>1, Zenon DEF Disturbs
    <3>3. ~disturbed => \A e \in Items(stmt_stack) : owner'[e.ref] > 0
      BY <3>1 DEF Calm, CalmEntry
    <3> QED
      BY <1>3, <2>1, <3>1, <3>2, <3>3, CalmStays
  <2> QED
    BY <2>2, <2>3
<1>6. ASSUME NEW p \in Portals, NEW d \in BOOLEAN, PortalStart(p, c, s, d)
      PROVE  Calm'
  <2>1. /\ level > 0 /\ ~failed /\ UNCHANGED failed
        /\ StartAndPush(-p, c, s, is_declaring_cursor(p))
        /\ Disturbs(s, ~d)
        /\ \A q \in Portals : q # p => portals'[q] = portals[q]
        /\ portals'[p].declared = d
    BY <1>1, <1>6 DEF PortalStart, coreVars, Types
  <2>a. d /\ OnlyDeclared => OnlyDeclared'
    BY <2>1 DEF OnlyDeclared, IsOpen
  <2>2. -p \in Key /\ is_declaring_cursor(p) \in BOOLEAN
    BY DEF Key, is_declaring_cursor
  <2>3. ~(-p > 0)
    BY TracingAssumption
  <2> QED
    BY <2>1, <2>2, <2>3, <2>a, CalmStarts
<1> QED
  BY <1>4, <1>5, <1>6

LEMMA ReturnCalm ==
    ASSUME StmtInv, ActiveInv, OrphansEnded, Calm,
           \/ ExecutorEnd \/ ProcessUtilityReturns \/ ExecutorRunReturns
           \/ OtherPortalStart \/ PortalStartReturns
           \/ QueryRun \/ QueryRunReturns
           \/ \E p \in Portals : PortalEnd(p) \/ ExecutorRun(p)
    PROVE  Calm'
<1>0. Types /\ SpansDiffer
  BY DEF StmtInv, ActiveInv
<1>1. ASSUME MayReturn
      PROVE  /\ Depth \in 1..Depth /\ Last(frames) = frames[Depth]
  <2>1. Base \in 0..Depth /\ Depth > Base /\ Depth \in Nat
    BY <1>1, LevelFacts, BaseFacts DEF StmtInv, MayReturn, Base
  <2>2. Depth > 0
    BY <2>1
  <2> QED
    BY <2>2 DEF Last, Depth
<1>2. ASSUME UNCHANGED <<stmt_stack, leader, owner, disturbed, failed>>,
             OnlyDeclared => OnlyDeclared'
      PROVE  Calm'
  <2>1. ~disturbed => \A e \in Items(stmt_stack) : owner'[e.ref] > 0
    BY <1>2 DEF Calm, CalmEntry
  <2> QED
    BY <1>2, <2>1, CalmStays
<1>b. UNCHANGED portals => (OnlyDeclared => OnlyDeclared')
  BY DEF OnlyDeclared, IsOpen
<1>3. ASSUME MayReturn, PopAndFinalize(Depth, 0),
             UNCHANGED <<disturbed, failed, portals>>
      PROVE  Calm'
  <2>1. ASSUME ~disturbed, NEW e \in Items(stmt_stack), e.key # Depth
        PROVE  owner'[e.ref] > 0
    <3>1. /\ owner[e.ref] > 0
          /\ \/ e.key \in 1..Depth /\ frames[e.key].span = e.ref /\ e.ref # 0
             \/ /\ -e.key \in Portals /\ portals[-e.key].span = e.ref
                /\ e.ref # 0 /\ portals[-e.key].declared
      BY <2>1, CalmKeys
    <3>2. /\ \A k \in 1..Depth :
               k < Depth /\ frames[k].span # 0
               => owner'[frames[k].span] = owner[frames[k].span]
          /\ \A p \in Portals :
               portals[p].declared /\ portals[p].span # 0
               => owner'[portals[p].span] = owner[portals[p].span]
      BY <1>1, <1>3, StatementEndSpares
    <3>3. CASE e.key \in 1..Depth /\ frames[e.key].span = e.ref /\ e.ref # 0
      <4>1. e.key < Depth
        BY <2>1, <3>3, LevelFacts
      <4> QED
        BY <3>1, <3>2, <3>3, <4>1
    <3>4. CASE /\ -e.key \in Portals /\ portals[-e.key].span = e.ref
               /\ e.ref # 0 /\ portals[-e.key].declared
      BY <3>1, <3>2, <3>4
    <3> QED
      BY <3>1, <3>3, <3>4
  <2> QED
    BY <1>3, <1>b, <2>1, CalmPops
<1>4. CASE ExecutorEnd
  BY <1>3, <1>4 DEF ExecutorEnd, coreVars
<1>5. CASE ProcessUtilityReturns
  <2>1. CASE Last(frames).toplevel
    BY <1>3, <1>5, <2>1 DEF ProcessUtilityReturns, coreVars
  <2>2. CASE ~Last(frames).toplevel
    BY <1>2, <1>5, <1>b, <2>2 DEF ProcessUtilityReturns, coreVars, spanVars
  <2> QED
    BY <2>1, <2>2
<1>6. CASE ExecutorRunReturns \/ QueryRunReturns
  <2>1. /\ MayReturn /\ Deactivated(Last(frames).act)
        /\ UNCHANGED <<stmt_stack, leader, disturbed, failed, portals>>
    BY <1>6 DEF ExecutorRunReturns, QueryRunReturns, coreVars
  <2>2. ASSUME ~disturbed, NEW e \in Items(stmt_stack)
        PROVE  owner'[e.ref] > 0
    <3>1. /\ owner[e.ref] > 0
          /\ \/ e.key \in 1..Depth /\ frames[e.key].span = e.ref /\ e.ref # 0
             \/ /\ -e.key \in Portals /\ portals[-e.key].span = e.ref
                /\ e.ref # 0 /\ portals[-e.key].declared
      BY <2>2, CalmKeys
    <3>2. /\ \A k \in 1..Depth :
               frames[k].span # 0
               => owner'[frames[k].span] = owner[frames[k].span]
          /\ \A p \in Portals :
               portals[p].declared /\ portals[p].span # 0
               => owner'[portals[p].span] = owner[portals[p].span]
      BY <1>1, <2>1, RunEndSpares
    <3> QED
      BY <3>1, <3>2
  <2> QED
    BY <1>b, <2>1, <2>2, CalmStays
<1>7. ASSUME NEW p \in Portals, PortalEnd(p)
      PROVE  Calm'
  <2>1. /\ ~Running(p) /\ UNCHANGED <<disturbed, failed>>
        /\ \/ UNCHANGED <<stmt_stack, leader, owner>>
           \/ PopAndFinalize(-p, portals[p].span)
    BY <1>7 DEF PortalEnd, coreVars, spanVars
  <2>a. OnlyDeclared => OnlyDeclared'
    <3>1. \A q \in Portals : portals'[q] = IF q = p THEN NoPortal ELSE portals[q]
      BY <1>0, <1>7 DEF PortalEnd, Types
    <3> QED
      BY <3>1 DEF OnlyDeclared, IsOpen, NoPortal
  <2>2. CASE UNCHANGED <<stmt_stack, leader, owner>>
    BY <1>2, <2>1, <2>2, <2>a
  <2>3. CASE PopAndFinalize(-p, portals[p].span)
    <3>1. ASSUME ~disturbed
          PROVE  portals[p].declared \/ Found(stmt_stack, -p) = {}
      <4>1. SUFFICES ASSUME NEW n \in Found(stmt_stack, -p)
                     PROVE  portals[p].declared
        OBVIOUS
      <4>2. PICK e \in Items(stmt_stack) : e.key = -p
        BY <4>1 DEF Found, Items
      <4>3. ~(e.key \in 1..Depth) /\ -e.key = p
        BY <4>2, TracingAssumption
      <4> QED
        BY <3>1, <4>3, CalmKeys
    <3>2. ASSUME ~disturbed, NEW e \in Items(stmt_stack), e.key # -p
          PROVE  owner'[e.ref] > 0
      <4>1. \A t \in Spans : t # portals[p].span => owner'[t] = owner[t]
        BY <2>1, <2>3, <3>1, <3>2, PortalEndSpares
      <4>2. /\ e.ref \in Spans /\ owner[e.ref] > 0
            /\ \/ e.key \in 1..Depth /\ frames[e.key].span = e.ref /\ e.ref # 0
               \/ /\ -e.key \in Portals /\ portals[-e.key].span = e.ref
                  /\ e.ref # 0
        BY <3>2, CalmKeys
      <4>3. e.ref # portals[p].span
        <5>1. CASE e.key \in 1..Depth /\ frames[e.key].span = e.ref
          BY <1>0, <4>2, <5>1 DEF SpansDiffer
        <5>2. CASE -e.key \in Portals /\ portals[-e.key].span = e.ref
          <6>1. e.key \in Int
            BY EntryFacts
          <6>2. -e.key # p
            BY <3>2, <6>1, TracingAssumption
          <6>3. PICK q \in Portals : q = -e.key
            BY <5>2
          <6> QED
            BY <1>0, <4>2, <5>2, <6>2, <6>3 DEF SpansDiffer
        <5> QED
          BY <4>2, <5>1, <5>2
      <4> QED
        BY <4>1, <4>2, <4>3
    <3> QED
      BY <2>1, <2>3, <2>a, <3>2, CalmPops
  <2> QED
    BY <2>1, <2>2, <2>3
<1>8. ASSUME NEW p \in Portals, ExecutorRun(p)
      PROVE  Calm'
  BY <1>2, <1>8, <1>b DEF ExecutorRun, coreVars
<1>9. CASE OtherPortalStart \/ PortalStartReturns \/ QueryRun
  BY <1>2, <1>9, <1>b DEF OtherPortalStart, PortalStartReturns, QueryRun,
                       coreVars, spanVars
<1> QED
  BY <1>4, <1>5, <1>6, <1>7, <1>8, <1>9

LEMMA XactCalm ==
    ASSUME StmtInv, Calm,
           \/ BeginXact \/ BeginSub \/ CommitSub \/ CommitXact
           \/ RollbackTo \/ Rollback \/ InnerCommit \/ InnerRollback
           \/ MessageM \/ ReadyForQuery \/ Error \/ UNCHANGED vars
    PROVE  Calm'
<1>0. /\ Types /\ Depth \in Nat /\ level \in Nat
      /\ \A t \in Spans : owner[t] \in Nat
  BY LevelFacts, OwnerLevels DEF StmtInv
<1>b. UNCHANGED portals => (OnlyDeclared => OnlyDeclared')
  BY DEF OnlyDeclared, IsOpen
<1>1. CASE BeginXact \/ BeginSub \/ RollbackTo \/ MessageM \/ UNCHANGED vars
  <2>1. /\ UNCHANGED <<stmt_stack, leader, owner, disturbed, portals>>
        /\ failed' => failed
    BY <1>1 DEF BeginXact, BeginSub, RollbackTo, MessageM, vars, spanVars, coreVars
  <2>2. ~disturbed => \A e \in Items(stmt_stack) : owner'[e.ref] > 0
    BY <2>1 DEF Calm, CalmEntry
  <2> QED
    BY <1>b, <2>1, <2>2, CalmStays
<1>2. CASE Error \/ InnerCommit \/ InnerRollback
  <2>1. disturbed' = TRUE
    <3>1. CASE Error
      BY <3>1, Zenon DEF Error
    <3> QED
      BY <1>2, <3>1 DEF InnerCommit, InnerRollback
  <2> QED
    BY <2>1 DEF Calm
<1>3. CASE ReadyForQuery
  <2>1. /\ UNCHANGED <<stmt_stack, leader, owner, failed, portals>>
        /\ disturbed' = (disturbed /\
                            ~(stmt_stack = <<>> /\ leader = 0 /\ OnlyDeclared))
    BY <1>3 DEF ReadyForQuery, spanVars, coreVars
  <2>2. CASE disturbed /\ stmt_stack = <<>> /\ leader = 0 /\ OnlyDeclared
    BY <1>b, <2>1, <2>2, CalmEmpty
  <2>3. CASE ~(disturbed /\ stmt_stack = <<>> /\ leader = 0 /\ OnlyDeclared)
    <3>1. ~disturbed' => ~disturbed
      BY <2>1, <2>3, Zenon
    <3>2. UNCHANGED owner
      BY <2>1
    <3>3. ~disturbed => \A e \in Items(stmt_stack) : owner'[e.ref] > 0
      BY <3>2, Zenon DEF Calm, CalmEntry
    <3>4. UNCHANGED <<stmt_stack, leader>> /\ (failed' => failed)
      BY <2>1, Zenon
    <3> QED
      BY <1>b, <2>1, <3>1, <3>3, <3>4, CalmStays, Zenon
  <2> QED
    BY <2>2, <2>3
<1>4. CASE CommitSub
  <2>1. /\ UNCHANGED <<stmt_stack, leader, disturbed, failed>> /\ level > 1
        /\ owner' = [s \in Spans |->
                       IF owner[s] = level THEN level - 1 ELSE owner[s]]
    BY <1>4 DEF CommitSub
  <2>2. \A t \in Spans : owner[t] > 0 => owner'[t] > 0
    BY <1>0, <2>1
  <2>3. ~disturbed => \A e \in Items(stmt_stack) : owner'[e.ref] > 0
    BY <2>2, CalmKeys
  <2>4. ASSUME OnlyDeclared, NEW p \in Portals, portals'[p].lev > 0
        PROVE  portals'[p].declared
    <3>1. PICK b : b = [portals[p] EXCEPT !.lev = level - 1]
      OBVIOUS
    <3>2. b.declared = portals[p].declared /\ portals[p].lev \in Nat
      BY <1>0, <3>1, PortalFields, TracingAssumption DEF Portal
    <3>3. portals'[p] = IF portals[p].lev = level THEN b ELSE portals[p]
      BY <1>4, <3>1 DEF CommitSub
    <3>4. portals[p].lev > 0
      BY <1>0, <2>1, <2>4, <3>2, <3>3
    <3> QED
      BY <2>4, <3>2, <3>3, <3>4 DEF OnlyDeclared, IsOpen
  <2>5. OnlyDeclared => OnlyDeclared'
    BY <2>4 DEF OnlyDeclared, IsOpen
  <2> QED
    BY <2>1, <2>3, <2>5, CalmStays
<1>5. CASE CommitXact \/ Rollback
  <2>1. /\ Depth = 0 /\ UNCHANGED <<leader, disturbed>>
        /\ failed \/ \A p \in Portals : ~IsOpen(p)
        /\ stmt_stack' = stmt_stack \/ stmt_stack' = KeptEntries(stmt_stack, 1)
    BY <1>5 DEF CommitXact, Rollback
  <2> SUFFICES ASSUME ~disturbed'
               PROVE  Calm'
    BY DEF Calm
  <2>2. ASSUME NEW e \in Items(stmt_stack)
        PROVE  FALSE
    <3>1. ~disturbed
      BY <2>1
    <3>2. \/ e.key \in 1..Depth
          \/ -e.key \in Portals /\ IsOpen(-e.key) /\ ~failed
      BY <3>1, CalmKeys
    <3> QED
      BY <2>1, <3>2
  <2>3. stmt_stack = <<>>
    BY <1>0, <2>2, NoEntries DEF Types
  <2>4. leader = 0
    BY <2>1, <2>3 DEF Calm, SlotNames
  <2>6. OnlyDeclared'
    <3>1. CASE CommitXact
      BY <3>1 DEF CommitXact, OnlyDeclared, IsOpen
    <3>2. CASE Rollback
      <4>1. Aborted(1, owner, active, {})
        BY <3>2 DEF Rollback
      <4>2. ASSUME NEW p \in Portals, portals'[p].lev > 0
            PROVE  FALSE
        <5>1. PICK b : b = [portals[p] EXCEPT !.failed = @ \/ p \in {}]
          OBVIOUS
        <5>2. b.lev = portals[p].lev /\ portals[p].lev \in Nat
          BY <1>0, <5>1, PortalFields, TracingAssumption DEF Portal
        <5>3. portals'[p] = IF portals[p].lev >= 1 THEN NoPortal ELSE b
          BY <4>1, <5>1 DEF Aborted
        <5> QED
          BY <4>2, <5>2, <5>3 DEF NoPortal
      <4> QED
        BY <4>2 DEF OnlyDeclared, IsOpen
    <3> QED
      BY <1>5, <3>1, <3>2
  <2>5. stmt_stack' = <<>>
    <3>1. PICK t : t = KeptEntries(stmt_stack, 1)
      OBVIOUS
    <3>2. t \in Seq(StmtSpanEntry) /\ Items(t) \subseteq Items(stmt_stack)
      BY <1>0, <3>1, KeptThins DEF KeptEntries, Types, Thins
    <3>3. t = <<>>
      BY <2>2, <3>2, NoEntries
    <3> QED
      BY <2>1, <2>3, <3>1, <3>3
  <2> QED
    BY <2>1, <2>4, <2>5, <2>6, CalmEmpty
<1> QED
  BY <1>1, <1>2, <1>3, <1>4, <1>5

LEMMA CalmNext ==
    StmtInv /\ ActiveInv /\ OrphansEnded /\ Calm /\ [Next]_vars => Calm'
<1> SUFFICES ASSUME StmtInv, ActiveInv, OrphansEnded, Calm, [Next]_vars
             PROVE  Calm'
  OBVIOUS
<1>1. ASSUME NEW c \in Comments, NEW s \in Startable,
             \/ ExecutorStart(c, s)
             \/ \E d \in Portals \union {0} : ProcessUtility(c, s, d)
             \/ \E p \in Portals, d \in BOOLEAN : PortalStart(p, c, s, d)
      PROVE  Calm'
  BY <1>1, HookCalm
<1>2. CASE \/ ExecutorEnd \/ ProcessUtilityReturns \/ ExecutorRunReturns
           \/ OtherPortalStart \/ PortalStartReturns
           \/ QueryRun \/ QueryRunReturns
           \/ \E p \in Portals : PortalEnd(p) \/ ExecutorRun(p)
  BY <1>2, ReturnCalm
<1>3. CASE \/ BeginXact \/ BeginSub \/ CommitSub \/ CommitXact
           \/ RollbackTo \/ Rollback \/ InnerCommit \/ InnerRollback
           \/ MessageM \/ ReadyForQuery \/ Error \/ UNCHANGED vars
  BY <1>3, XactCalm
<1> QED
  BY <1>1, <1>2, <1>3 DEF Next

(* While nothing disturbs it and no cursor is open, the slot that parallel *)
(* workers read names the innermost running statement that has a span:     *)
(* restore_leader_context puts back the right one when a statement ends.   *)
THEOREM WorkersReadTheInnermost == Spec => []WorkersFindInnermost
<1>1. Init => Calm
  <2> SUFFICES ASSUME Init
               PROVE  Calm
    OBVIOUS
  <2>1. stmt_stack = <<>> /\ leader = 0
    BY DEF Init
  <2>2. Items(stmt_stack) = {} /\ Len(stmt_stack) = 0
    BY <2>1 DEF Items
  <2>3. OnlyDeclared
    BY DEF Init, NoPortal, OnlyDeclared, IsOpen
  <2> QED
    BY <2>1, <2>2, <2>3 DEF Calm, SlotNames, Rising
<1>2. StmtInv /\ Calm => WorkersFindInnermost
  <2> SUFFICES ASSUME StmtInv, Calm, ~disturbed, \A p \in Portals : ~IsOpen(p),
                      NEW Spanned,
                      Spanned = {k \in 1..Depth :
                                   frames[k].span # 0 /\ owner[frames[k].span] > 0}
               PROVE  \/ Spanned = {} /\ leader = 0
                      \/ \E k \in Spanned : /\ \A j \in Spanned : j <= k
                                            /\ leader = frames[k].span
    BY DEF WorkersFindInnermost
  <2>0. Types /\ stmt_stack \in Seq(StmtSpanEntry) /\ Depth \in Nat
    BY LevelFacts DEF StmtInv, Types
  <2>1. /\ SlotNames(stmt_stack, leader) /\ Rising(stmt_stack)
    BY DEF Calm
  <2>2. \A k \in Spanned : \E i \in 1..Len(stmt_stack) : stmt_stack[i].key = k
    BY DEF StmtInv, RunningStatementsKeepEntry, Items
  <2>3. CASE stmt_stack = <<>>
    <3>1. Spanned = {}
      BY <2>2, <2>3
    <3> QED
      BY <2>1, <2>3, <3>1 DEF SlotNames
  <2>4. CASE stmt_stack # <<>>
    <3>1. PICK e : e = Last(stmt_stack)
      OBVIOUS
    <3>2. /\ e \in Items(stmt_stack) /\ e = stmt_stack[Len(stmt_stack)]
          /\ Len(stmt_stack) \in 1..Len(stmt_stack)
      BY <2>0, <2>4, <3>1, LastEntry
    <3>3. /\ owner[e.ref] > 0 /\ e.key \in 1..Depth /\ frames[e.key].span = e.ref
          /\ frames[e.key].span # 0
      BY <3>2, CalmKeys
    <3>4. e.key \in Spanned /\ leader = frames[e.key].span
      BY <2>1, <2>4, <3>1, <3>3 DEF SlotNames
    <3>5. ASSUME NEW j \in Spanned
          PROVE  j <= e.key
      <4>1. PICK i \in 1..Len(stmt_stack) : stmt_stack[i].key = j
        BY <2>2
      <4>2. j > 0 /\ e.key > 0 /\ j \in Nat /\ e.key \in Nat
        BY <3>3
      <4>3. i = Len(stmt_stack) \/ i < Len(stmt_stack)
        BY <2>0
      <4> QED
        BY <2>1, <3>2, <4>1, <4>2, <4>3 DEF Rising
    <3> QED
      BY <3>4, <3>5
  <2> QED
    BY <2>3, <2>4
<1> QED
  BY <1>1, <1>2, SpanInvariant, CalmNext, PTL DEF Spec
=============================================================================

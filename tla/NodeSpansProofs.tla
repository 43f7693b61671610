--------------------------- MODULE NodeSpansProofs ---------------------------
(***************************************************************************)
(* Proofs about NodeSpans, for any queries, plans, sizes of the stacks and *)
(* nesting of transactions and executor calls.                             *)
(***************************************************************************)
EXTENDS NodeSpans, StackFacts

-----------------------------------------------------------------------------
(* The inductive invariant.  P, S and F are the entries of the three       *)
(* stacks that are not dead, sp and so spans and sorts, qs queries.        *)

Entries(stk) == {e \in Items(stk) : ~e.dead}

(* A node's entry that is not dead is its only one of that kind, and above *)
(* its dead ones: it is the one that Find finds.                           *)
OnTop(stk) ==
    \A j, k \in 1..Len(stk) :
        (stk[j].node = stk[k].node /\ ~stk[j].dead) => k <= j

LiveIn(qs, n) ==
    /\ qs[n[1]].lev > 0 /\ ~qs[n[1]].failed
    /\ n[2] \in 1..Len(qs[n[1]].plan)

(* Entries are those of live nodes.  An entry keeps the level its query    *)
(* was started at, which a RELEASE may leave above the query's.            *)
Fits(E, kind, qs) ==
    \A e \in E :
        /\ LiveIn(qs, e.node)
        /\ qs[e.node[1]].plan[e.node[2]].kind = kind
        /\ e.subxact_level >= qs[e.node[1]].lev
        /\ qs[e.node[1]].moved \/ e.subxact_level = qs[e.node[1]].lev

(* n is live, and has an entry unless its query has been moved.            *)
Tracked(n, E, qs) ==
    LiveIn(qs, n) /\ (qs[n[1]].moved \/ \E e \in E : e.node = n)

(* x may be the parent of n's span: the statement's span, one that another *)
(* query left, what is active if n is a scan, or an ancestor's open one.   *)
MayParent(x, n, sp, qs) ==
    \/ x \in {Stmt, Left}
    \/ x = Outer /\ qs[n[1]].plan[n[2]].kind = "fdw"
    \/ /\ x \in Nodes /\ x[1] = n[1] /\ sp[x] # NoSpan
       /\ x[2] \in Ancestors(qs[n[1]].plan, n[2])

ParentFits(n, sp, qs) == MayParent(sp[n], n, sp, qs)

NodeInv(P, S, F, sp, so, qs) ==
    /\ Fits(P, "span", qs) /\ Fits(S, "sort", qs) /\ Fits(F, "fdw", qs)
    /\ \A e \in P \union F : sp[e.node] # NoSpan
    /\ \A n \in Nodes : sp[n] # NoSpan =>
         Tracked(n, P \union F, qs) /\ ParentFits(n, sp, qs)
    /\ \A n \in Nodes : so[n] # "plain" => Tracked(n, S, qs)
    /\ \A e \in S : so[e.node] # "plain" /\ (e.ended <=> so[e.node] = "done")

(* Executor calls: a query runs once at a time, a Sort's first call is     *)
(* made by its query's run, and the calls below a subtransaction are of    *)
(* queries of outer levels.                                                *)
CallsNest ==
    /\ Len(frames) <= MAX_FRAMES
    /\ \A k \in 1..Len(frames) : IsOpen(frames[k].node[1])
    /\ \A j, k \in 1..Len(frames) :
         (/\ frames[j].kind # "sort" /\ frames[k].kind # "sort"
          /\ frames[j].node[1] = frames[k].node[1]) => j = k
    /\ \A k \in 1..Len(frames) : frames[k].kind = "sort" =>
         /\ k > 1 /\ sorts[frames[k].node] = "called"
         /\ frames[k - 1].kind # "sort"
         /\ frames[k - 1].node = <<frames[k].node[1], 0>>

LevelsNest ==
    /\ Len(bases) = IF level = 0 THEN 0 ELSE level - 1
    /\ \A l \in 1..Len(bases) : bases[l] <= Len(frames)
    /\ \A l, m \in 1..Len(bases) : l < m => bases[l] <= bases[m]
    /\ \A l \in 1..Len(bases) : \A k \in 1..Len(frames) :
         k <= bases[l] => queries[frames[k].node[1]].lev <= l
    /\ \A q \in Queries :
         queries[q].lev <= level /\ (IsOpen(q) => queries[q].plan \in Plans[q])

NodesInv ==
    NodeInv(Entries(planspans_stack), Entries(sortwrap_stack),
            Entries(fdw_scan_stack), spans, sorts, queries)

NodeSpansInv ==
    /\ TypeOK
    /\ OnTop(planspans_stack) /\ OnTop(sortwrap_stack) /\ OnTop(fdw_scan_stack)
    /\ NodesInv /\ CallsNest /\ LevelsNest
    /\ \A m \in minted : m.parent \in {Stmt, Left}

-----------------------------------------------------------------------------
(* Stacks of entries.                                                      *)

(* A nonempty set of numbers up to n has a greatest element.               *)
LEMMA GreatestUpTo ==
    ASSUME NEW n \in Nat, NEW A \in SUBSET (1..n), A # {}
    PROVE  Max(A) \in A /\ \A a \in A : a <= Max(A)
<1> DEFINE B == {m \in Nat : \A a \in A : a <= m}
<1>1. PICK m \in B : \A b \in B : m <= b
  <2>1. n \in B
    OBVIOUS
  <2> QED
    BY <2>1, LeastNat
<1>2. m \in A
  <2> SUFFICES ASSUME m \notin A
               PROVE  FALSE
    OBVIOUS
  <2>1. PICK a \in A : TRUE
    OBVIOUS
  <2>2. m - 1 \in Nat /\ \A b \in A : b <= m - 1
    BY <1>1, <2>1
  <2>3. m - 1 \in B
    BY <2>2
  <2> QED
    BY <1>1, <2>3
<1>3. \E x \in A : \A y \in A : x >= y
  BY <1>1, <1>2
<1>4. Max(A) \in A /\ \A y \in A : Max(A) >= y
  BY <1>3, Zenon DEF Max
<1> QED
  BY <1>4

(* The topmost entry of a node, if it has one.                             *)
LEMMA FindFacts ==
    ASSUME NEW T, NEW stk \in Seq(T), NEW n
    PROVE  /\ Find(stk, n) \in 0..Len(stk)
           /\ Find(stk, n) = 0 <=> \A k \in 1..Len(stk) : stk[k].node # n
           /\ Find(stk, n) # 0 =>
                /\ Find(stk, n) \in 1..Len(stk) /\ stk[Find(stk, n)].node = n
                /\ \A k \in 1..Len(stk) : stk[k].node = n => k <= Find(stk, n)
<1> DEFINE at == {k \in 1..Len(stk) : stk[k].node = n}
<1>1. Find(stk, n) = IF at = {} THEN 0 ELSE Max(at)
  BY DEF Find
<1>2. CASE at = {}
  BY <1>1, <1>2
<1>3. CASE at # {}
  <2>1. Max(at) \in at /\ \A a \in at : a <= Max(at)
    <3>1. at \in SUBSET (1..Len(stk)) /\ Len(stk) \in Nat
      OBVIOUS
    <3> HIDE DEF at
    <3> QED
      BY <1>3, <3>1, GreatestUpTo
  <2> QED
    BY <1>1, <1>3, <2>1
<1> QED
  BY <1>2, <1>3

(* An entry that is not dead is the one that is found.                     *)
LEMMA FindLive ==
    ASSUME NEW T, NEW stk \in Seq(T), OnTop(stk), NEW e \in Entries(stk)
    PROVE  Find(stk, e.node) # 0 /\ stk[Find(stk, e.node)] = e
<1>1. PICK j \in 1..Len(stk) : e = stk[j] /\ ~e.dead
  BY DEF Entries, Items
<1>2. /\ Find(stk, e.node) \in 1..Len(stk) /\ j <= Find(stk, e.node)
      /\ stk[Find(stk, e.node)].node = e.node
  BY <1>1, FindFacts
<1>3. Find(stk, e.node) <= j
  BY <1>1, <1>2 DEF OnTop
<1> QED
  BY <1>1, <1>2, <1>3

LEMMA EntryFacts ==
    ASSUME NEW T, NEW stk \in Seq(T)
    PROVE  /\ Entries(stk) \subseteq T
           /\ \A e \in Entries(stk) : e \in Items(stk) /\ ~e.dead
           /\ \A k \in 1..Len(stk) : ~stk[k].dead => stk[k] \in Entries(stk)
  BY DEF Entries, Items

(* Pushing the entry of a node that has none.                              *)
LEMMA PushTop ==
    ASSUME NEW T, NEW stk \in Seq(T), OnTop(stk), NEW x \in T, ~x.dead,
           \A e \in Entries(stk) : e.node # x.node
    PROVE  /\ OnTop(Append(stk, x))
           /\ Entries(Append(stk, x)) = Entries(stk) \union {x}
<1> DEFINE t == Append(stk, x)
<1>1. /\ Len(t) = Len(stk) + 1 /\ Len(stk) \in Nat
      /\ \A k \in 1..Len(stk) : t[k] = stk[k]
      /\ t[Len(stk) + 1] = x
      /\ Items(t) = Items(stk) \union {x}
  BY PushFacts
<1> HIDE DEF t
<1>2. OnTop(t)
  <2> SUFFICES ASSUME NEW j \in 1..Len(t), NEW k \in 1..Len(t),
                      t[j].node = t[k].node, ~t[j].dead
               PROVE  k <= j
    BY DEF OnTop
  <2>1. CASE j = Len(stk) + 1
    BY <1>1, <2>1
  <2>2. CASE j # Len(stk) + 1
    <3>1. j \in 1..Len(stk) /\ t[j] = stk[j] /\ stk[j] \in Entries(stk)
      BY <1>1, <2>2, EntryFacts
    <3>2. k \in 1..Len(stk) /\ t[k] = stk[k]
      BY <1>1, <2>2, <3>1
    <3> QED
      BY <3>1, <3>2 DEF OnTop
  <2> QED
    BY <2>1, <2>2
<1>3. Entries(t) = Entries(stk) \union {x}
  BY <1>1 DEF Entries
<1> QED
  BY <1>2, <1>3 DEF t

(* Removing a node's topmost entry takes the entry that is not dead, if    *)
(* there is one, and no other such.                                        *)
Others(E, n) == {e \in E : e.node # n}

TakenOff(T, stk, n, t) ==
    /\ t \in Seq(T) /\ Len(t) <= Len(stk) /\ OnTop(t)
    /\ Entries(t) = Others(Entries(stk), n) /\ Items(t) \subseteq Items(stk)

LEMMA RemoveTop ==
    ASSUME NEW T, NEW stk \in Seq(T), OnTop(stk), NEW n, Find(stk, n) # 0
    PROVE  TakenOff(T, stk, n, Without(stk, Find(stk, n)))
<1> DEFINE f == Find(stk, n)
           t == Remove(stk, f)
<1>1. /\ f \in 1..Len(stk) /\ stk[f].node = n
      /\ \A k \in 1..Len(stk) : stk[k].node = n => k <= f
      /\ Len(stk) \in Nat
  BY FindFacts
<1>2. t \in Seq(T) /\ Len(t) = Len(stk) - 1 /\ Items(t) \subseteq Items(stk)
  BY <1>1, RemoveFacts
<1>3. \A i \in 1..Len(t) : t[i] = IF i < f THEN stk[i] ELSE stk[i + 1]
  BY <1>1, <1>2 DEF Remove
<1> HIDE DEF f, t
<1>4. OnTop(t)
  <2> SUFFICES ASSUME NEW j \in 1..Len(t), NEW k \in 1..Len(t),
                      t[j].node = t[k].node, ~t[j].dead
               PROVE  k <= j
    BY DEF OnTop
  <2> DEFINE up(i) == IF i < f THEN i ELSE i + 1
  <2>1. /\ up(j) \in 1..Len(stk) /\ up(k) \in 1..Len(stk)
        /\ t[j] = stk[up(j)] /\ t[k] = stk[up(k)]
    BY <1>1, <1>2, <1>3
  <2>2. up(k) <= up(j)
    BY <2>1 DEF OnTop
  <2> QED
    BY <1>1, <1>2, <2>2
<1>5. ASSUME NEW e \in Entries(t)
      PROVE  e \in Entries(stk) /\ e.node # n
  <2>1. PICK i \in 1..Len(t) : e = t[i] /\ ~e.dead
    BY <1>5 DEF Entries, Items
  <2>2. PICK j \in 1..Len(stk) : j # f /\ e = stk[j]
    <3>1. CASE i < f
      BY <1>1, <1>2, <1>3, <2>1, <3>1
    <3>2. CASE ~(i < f)
      <4>1. i + 1 \in 1..Len(stk) /\ i + 1 # f /\ e = stk[i + 1]
        BY <1>1, <1>2, <1>3, <2>1, <3>2
      <4> QED
        BY <4>1
    <3> QED
      BY <3>1, <3>2
  <2>3. e \in Entries(stk)
    BY <2>1, <2>2, EntryFacts
  <2>4. e.node # n
    <3> SUFFICES ASSUME e.node = n
                 PROVE  FALSE
      OBVIOUS
    <3>1. j <= f /\ f <= j
      BY <1>1, <2>1, <2>2 DEF OnTop
    <3> QED
      BY <1>1, <2>2, <3>1
  <2> QED
    BY <2>3, <2>4
<1>6. ASSUME NEW e \in Entries(stk), e.node # n
      PROVE  e \in Entries(t)
  <2>1. PICK j \in 1..Len(stk) : e = stk[j] /\ ~e.dead
    BY <1>6 DEF Entries, Items
  <2>2. j # f
    BY <1>1, <1>6, <2>1
  <2>3. \E i \in 1..Len(t) : t[i] = e
    <3>1. CASE j < f
      <4>1. j \in 1..Len(t) /\ t[j] = e
        BY <1>1, <1>2, <1>3, <2>1, <3>1
      <4> QED
        BY <4>1
    <3>2. CASE ~(j < f)
      <4>1. j - 1 \in 1..Len(t) /\ ~(j - 1 < f) /\ (j - 1) + 1 = j
        BY <1>1, <1>2, <2>2, <3>2
      <4>2. t[j - 1] = e
        BY <1>3, <2>1, <4>1
      <4> QED
        BY <4>1, <4>2
    <3> QED
      BY <3>1, <3>2
  <2> QED
    BY <2>1, <2>3 DEF Entries, Items
<1>7. Entries(t) = {e \in Entries(stk) : e.node # n}
  BY <1>5, <1>6
<1>8. Len(t) <= Len(stk)
  BY <1>1, <1>2
<1> QED
  BY <1>2, <1>4, <1>7, <1>8 DEF f, t, Without, TakenOff, Others

(* The queries of Q die: their entries do not count any longer.            *)
LEMMA OutlivedTop ==
    ASSUME NEW T, NEW stk \in Seq(T), OnTop(stk), NEW Q,
           \A e \in T : /\ [e EXCEPT !.dead = TRUE] \in T
                        /\ [e EXCEPT !.dead = TRUE].dead = TRUE
                        /\ [e EXCEPT !.dead = TRUE].node = e.node
    PROVE  /\ Outlived(stk, Q) \in Seq(T)
           /\ Len(Outlived(stk, Q)) = Len(stk)
           /\ OnTop(Outlived(stk, Q))
           /\ Entries(Outlived(stk, Q)) = {e \in Entries(stk) : e.node[1] \notin Q}
<1> DEFINE t == Outlived(stk, Q)
<1>1. Len(stk) \in Nat /\ \A k \in 1..Len(stk) : stk[k] \in T
  OBVIOUS
<1>2. /\ t \in [1..Len(stk) -> T]
      /\ \A k \in 1..Len(stk) :
           /\ t[k].node = stk[k].node
           /\ stk[k].node[1] \in Q => t[k].dead
           /\ stk[k].node[1] \notin Q => t[k] = stk[k]
  BY <1>1 DEF Outlived
<1>3. t \in Seq(T) /\ Len(t) = Len(stk)
  BY <1>1, <1>2
<1> HIDE DEF t
<1>4. OnTop(t)
  <2> SUFFICES ASSUME NEW j \in 1..Len(stk), NEW k \in 1..Len(stk),
                      t[j].node = t[k].node, ~t[j].dead
               PROVE  k <= j
    BY <1>3 DEF OnTop
  <2>1. stk[j].node = stk[k].node /\ ~stk[j].dead
    BY <1>2
  <2> QED
    BY <2>1 DEF OnTop
<1>5. ASSUME NEW e \in Entries(t)
      PROVE  e \in Entries(stk) /\ e.node[1] \notin Q
  <2>1. PICK k \in 1..Len(stk) : e = t[k] /\ ~e.dead
    BY <1>3, <1>5 DEF Entries, Items
  <2>2. stk[k].node[1] \notin Q /\ e = stk[k]
    BY <1>2, <2>1
  <2> QED
    BY <2>1, <2>2, EntryFacts
<1>6. ASSUME NEW e \in Entries(stk), e.node[1] \notin Q
      PROVE  e \in Entries(t)
  <2>1. PICK k \in 1..Len(stk) : e = stk[k] /\ ~e.dead
    BY <1>6 DEF Entries, Items
  <2>2. t[k] = e
    BY <1>2, <1>6, <2>1
  <2> QED
    BY <1>3, <2>1, <2>2 DEF Entries, Items
<1> QED
  BY <1>3, <1>4, <1>5, <1>6 DEF t

(* An abort drops the entries of its level and above.                      *)
LEMMA KeptTop ==
    ASSUME NEW T, NEW stk \in Seq(T), OnTop(stk)
    PROVE  /\ Kept(stk) \in Seq(T) /\ Len(Kept(stk)) <= Len(stk)
           /\ OnTop(Kept(stk))
           /\ Entries(Kept(stk)) = {e \in Entries(stk) : e.subxact_level < level}
<1> DEFINE A == {e \in Items(stk) : e.subxact_level < level}
           t == Kept(stk)
<1>1. t = Keep(stk, A)
  BY DEF Kept
<1>2. t \in Seq(T) /\ Len(t) <= Len(stk) /\ Items(t) = Items(stk) \intersect A
  BY <1>1, KeepItems
<1>3. PICK at : Picks(at, Len(stk), stk, A, t)
  BY <1>1, KeepPicks
<1> HIDE DEF t
<1>4. OnTop(t)
  <2> SUFFICES ASSUME NEW j \in 1..Len(t), NEW k \in 1..Len(t),
                      t[j].node = t[k].node, ~t[j].dead, ~(k <= j)
               PROVE  FALSE
    BY DEF OnTop
  <2>1. j < k /\ Len(t) \in Nat
    BY <1>2
  <2>2. /\ at[j] \in 1..Len(stk) /\ at[k] \in 1..Len(stk) /\ at[j] < at[k]
        /\ t[j] = stk[at[j]] /\ t[k] = stk[at[k]]
    BY <1>3, <2>1 DEF Picks
  <2>3. at[k] <= at[j]
    BY <2>2 DEF OnTop
  <2> QED
    BY <2>2, <2>3
<1>5. Entries(t) = {e \in Entries(stk) : e.subxact_level < level}
  BY <1>2 DEF Entries
<1> QED
  BY <1>2, <1>4, <1>5 DEF t

(* A Sort's first call has returned.                                       *)
LEMMA SortReturnsTop ==
    ASSUME NEW stk \in Seq(SortEntry), OnTop(stk), NEW n
    PROVE  /\ SortReturns(stk, n) \in Seq(SortEntry)
           /\ Len(SortReturns(stk, n)) = Len(stk)
           /\ OnTop(SortReturns(stk, n))
           /\ Entries(SortReturns(stk, n)) =
                {IF e.node = n THEN [e EXCEPT !.ended = TRUE] ELSE e :
                   e \in Entries(stk)}
<1> DEFINE f == Find(stk, n)
           t == SortReturns(stk, n)
<1>1. Len(stk) \in Nat /\ \A k \in 1..Len(stk) : stk[k] \in SortEntry
  OBVIOUS
<1>2. /\ f \in 0..Len(stk)
      /\ \A k \in 1..Len(stk) : stk[k].node = n => f # 0 /\ k <= f
      /\ f # 0 => stk[f].node = n
  BY FindFacts
<1>3. /\ t \in [1..Len(stk) -> SortEntry]
      /\ \A k \in 1..Len(stk) :
           t[k] = IF k = f THEN [stk[k] EXCEPT !.ended = TRUE] ELSE stk[k]
  <2>1. \A e \in SortEntry : [e EXCEPT !.ended = TRUE] \in SortEntry
    BY DEF SortEntry
  <2>2. CASE f = 0
    BY <1>1, <2>2 DEF SortReturns
  <2>3. CASE f # 0
    <3>1. f \in 1..Len(stk)
      BY <1>2, <2>3
    <3>2. t = [stk EXCEPT ![f] = [stk[f] EXCEPT !.ended = TRUE]]
      BY <2>3, <3>1 DEF SortReturns
    <3>3. stk \in [1..Len(stk) -> SortEntry]
      BY <1>1
    <3>4. [stk[f] EXCEPT !.ended = TRUE] \in SortEntry
      BY <1>1, <2>1, <3>1
    <3> DEFINE x == [stk[f] EXCEPT !.ended = TRUE]
    <3>5. /\ t = [stk EXCEPT ![f] = x] /\ x \in SortEntry
          /\ \A k \in 1..Len(stk) : k = f =>
               [stk[k] EXCEPT !.ended = TRUE] = x
      BY <3>2, <3>4
    <3> HIDE DEF t, f, x
    <3>6. /\ t \in [1..Len(stk) -> SortEntry]
          /\ \A k \in 1..Len(stk) : t[k] = IF k = f THEN x ELSE stk[k]
      BY <3>1, <3>3, <3>5
    <3> QED
      BY <3>5, <3>6
  <2> QED
    BY <2>2, <2>3
<1>4. t \in Seq(SortEntry) /\ Len(t) = Len(stk)
  BY <1>1, <1>3
<1>5. \A k \in 1..Len(stk) : t[k].node = stk[k].node /\ t[k].dead = stk[k].dead
  BY <1>1, <1>3 DEF SortEntry
<1> HIDE DEF f, t
<1>6. OnTop(t)
  BY <1>4, <1>5 DEF OnTop
<1>7. \A k \in 1..Len(stk) : ~stk[k].dead =>
        t[k] = IF stk[k].node = n THEN [stk[k] EXCEPT !.ended = TRUE]
               ELSE stk[k]
  <2> SUFFICES ASSUME NEW k \in 1..Len(stk), ~stk[k].dead, stk[k].node = n
               PROVE  k = f
    BY <1>2, <1>3
  <2>1. f \in 1..Len(stk) /\ k <= f /\ stk[f].node = n
    BY <1>2
  <2>2. f <= k
    BY <2>1 DEF OnTop
  <2> QED
    BY <2>1, <2>2
<1>8. Entries(t) = {IF e.node = n THEN [e EXCEPT !.ended = TRUE] ELSE e :
                      e \in Entries(stk)}
  <2>1. Entries(t) = {t[k] : k \in {i \in 1..Len(stk) : ~stk[i].dead}}
    BY <1>4, <1>5 DEF Entries, Items
  <2>2. Entries(stk) = {stk[k] : k \in {i \in 1..Len(stk) : ~stk[i].dead}}
    BY DEF Entries, Items
  <2>3. ASSUME NEW x \in Entries(t)
        PROVE  \E e \in Entries(stk) :
                 x = IF e.node = n THEN [e EXCEPT !.ended = TRUE] ELSE e
    <3>1. PICK k \in 1..Len(stk) : ~stk[k].dead /\ x = t[k]
      BY <2>1, <2>3
    <3> QED
      BY <1>7, <2>2, <3>1
  <2>4. ASSUME NEW e \in Entries(stk)
        PROVE  (IF e.node = n THEN [e EXCEPT !.ended = TRUE] ELSE e)
                 \in Entries(t)
    <3>1. PICK k \in 1..Len(stk) : ~stk[k].dead /\ e = stk[k]
      BY <2>2, <2>4
    <3> QED
      BY <1>7, <2>1, <3>1
  <2> QED
    BY <2>3, <2>4
<1> QED
  BY <1>4, <1>6, <1>8 DEF f, t

-----------------------------------------------------------------------------
(* Nodes and their spans.                                                  *)

PlanSet == UNION {Plans[q] : q \in Queries}
QuerySet == [Queries -> Query \union {Closed}]
SpanSet == [Nodes -> Parent \union {NoSpan}]

LEMMA NodeFacts ==
    /\ \A n \in Nodes : n[1] \in Queries /\ n[2] \in Nat \ {0} /\ n = <<n[1], n[2]>>
    /\ \A q \in Queries : \A p \in Plans[q] : \A i \in 1..Len(p) :
         <<q, i>> \in Nodes
    /\ \A q \in Queries : \A p \in Plans[q] :
         p \in Seq(PlanNode) /\ Len(p) \in Nat
    /\ \A x \in {Stmt, NoSpan, Left, Outer} : x \notin Nodes
    /\ NoSpan \notin Parent
    /\ Stmt # Left /\ Stmt # Outer /\ Left # Outer
    /\ Nobody \notin Owner
<1>1. \A q \in Queries : \A p \in Plans[q] :
        /\ p \in Seq(PlanNode) /\ Len(p) \in Nat
        /\ Items(NodesOf(q, p)) = {<<q, i>> : i \in 1..Len(p)}
  <2> TAKE q \in Queries
  <2> TAKE p \in Plans[q]
  <2>1. p \in Seq(PlanNode) /\ Len(p) \in Nat
    BY NodeSpansAssumption
  <2>2. Len(NodesOf(q, p)) = Len(p)
    BY <2>1 DEF NodesOf
  <2> QED
    BY <2>1, <2>2 DEF Items, NodesOf
<1>2. ASSUME NEW n \in Nodes
      PROVE  n[1] \in Queries /\ n[2] \in Nat \ {0} /\ n = <<n[1], n[2]>>
  <2>0. PICK q \in Queries : n \in UNION {Items(NodesOf(q, p)) : p \in Plans[q]}
    BY DEF Nodes
  <2>1. PICK p \in Plans[q] : n \in Items(NodesOf(q, p))
    BY <2>0
  <2>2. PICK i \in 1..Len(p) : n = <<q, i>>
    BY <1>1, <2>1
  <2> QED
    BY <1>1, <2>2
<1>3. ASSUME NEW q \in Queries, NEW p \in Plans[q], NEW i \in 1..Len(p)
      PROVE  <<q, i>> \in Nodes
  <2>1. <<q, i>> \in Items(NodesOf(q, p))
    BY <1>1
  <2> QED
    BY <2>1 DEF Nodes
<1>4. \A n \in Nodes : n[1] # 0
  BY <1>2, NodeSpansAssumption
<1>5. \A x \in {Stmt, NoSpan, Left, Outer} : x[1] = 0
  BY DEF Stmt, NoSpan, Left, Outer
<1>6. \A x \in {Stmt, NoSpan, Left, Outer} : x \notin Nodes
  BY <1>4, <1>5
<1>7. /\ NoSpan \notin {Stmt, Left, Outer}
      /\ Stmt # Left /\ Stmt # Outer /\ Left # Outer
  BY DEF Stmt, NoSpan, Left, Outer
<1>8. NoSpan \notin Parent
  BY <1>6, <1>7 DEF Parent
<1>9. Nobody \notin Owner
  BY NodeSpansAssumption DEF Nobody, Owner
<1> QED
  BY <1>1, <1>2, <1>3, <1>6, <1>7, <1>8, <1>9

(* What of a query may change while it is open: a RELEASE lowers its level *)
(* and marks it.                                                           *)
Eases(a, b) ==
    /\ b.plan = a.plan /\ b.failed = a.failed
    /\ b.lev \in 1..a.lev /\ (b.lev = a.lev \/ b.moved)
    /\ a.moved => b.moved

QueriesEase(qs, qs1, D) ==
    \A q \in Queries :
        (q \notin D /\ qs[q].lev > 0) => Eases(qs[q], qs1[q])

OfNodes(E) == \A e \in E : e.node \in Nodes /\ e.subxact_level \in Nat

(* When the queries of D die, the other queries' entries all stay, unless  *)
(* a query has been moved.                                                 *)
Survive(E1, E, D, qs) ==
    /\ E1 \subseteq {e \in E : e.node[1] \notin D}
    /\ \A e \in E : (e.node[1] \notin D /\ ~qs[e.node[1]].moved) => e \in E1

LEMMA FitsCarries ==
    ASSUME NEW E, NEW E1, NEW D, NEW kind,
           OfNodes(E), NEW qs \in QuerySet, NEW qs1 \in QuerySet,
           Fits(E, kind, qs), Survive(E1, E, D, qs1),
           QueriesEase(qs, qs1, D)
    PROVE  Fits(E1, kind, qs1)
<1> SUFFICES ASSUME NEW e \in E1
             PROVE  /\ LiveIn(qs1, e.node)
                    /\ qs1[e.node[1]].plan[e.node[2]].kind = kind
                    /\ e.subxact_level >= qs1[e.node[1]].lev
                    /\ qs1[e.node[1]].moved
                       \/ e.subxact_level = qs1[e.node[1]].lev
  BY DEF Fits
<1> DEFINE a == qs[e.node[1]]
           b == qs1[e.node[1]]
<1>1. e \in E /\ e.node[1] \notin D /\ e.node[1] \in Queries
      /\ e.subxact_level \in Nat
  BY NodeFacts DEF Survive, OfNodes
<1>2. /\ a.lev > 0 /\ ~a.failed /\ e.node[2] \in 1..Len(a.plan)
      /\ a.plan[e.node[2]].kind = kind /\ e.subxact_level >= a.lev
      /\ a.moved \/ e.subxact_level = a.lev
  BY <1>1 DEF Fits, LiveIn
<1>3. Eases(a, b)
  BY <1>1, <1>2 DEF QueriesEase
<1>4. a.lev \in Nat /\ b.lev \in Nat
  <2>1. a \in Query \union {Closed} /\ b \in Query \union {Closed}
    BY <1>1 DEF QuerySet
  <2> HIDE DEF a, b
  <2> QED
    BY <2>1 DEF Query, Closed
<1> HIDE DEF a, b
<1>5. /\ b.lev > 0 /\ ~b.failed /\ e.node[2] \in 1..Len(b.plan)
      /\ b.plan[e.node[2]].kind = kind /\ e.subxact_level >= b.lev
  BY <1>1, <1>2, <1>3, <1>4 DEF Eases
<1>6. b.moved \/ e.subxact_level = b.lev
  BY <1>2, <1>3 DEF Eases
<1> QED
  BY <1>5, <1>6 DEF a, b, LiveIn

LEMMA TrackedCarries ==
    ASSUME NEW E, NEW E1, NEW D, NEW n \in Nodes,
           NEW qs \in QuerySet, NEW qs1 \in QuerySet,
           Tracked(n, E, qs), n[1] \notin D,
           Survive(E1, E, D, qs1),
           QueriesEase(qs, qs1, D)
    PROVE  Tracked(n, E1, qs1)
<1>1. n[1] \in Queries /\ LiveIn(qs, n) /\ Eases(qs[n[1]], qs1[n[1]])
  BY NodeFacts DEF Tracked, LiveIn, QueriesEase
<1>2. LiveIn(qs1, n) /\ (qs[n[1]].moved => qs1[n[1]].moved)
  BY <1>1 DEF LiveIn, Eases
<1>3. CASE qs1[n[1]].moved
  BY <1>2, <1>3 DEF Tracked
<1>4. CASE ~qs1[n[1]].moved
  <2>1. PICK e \in E : e.node = n
    BY <1>2, <1>4 DEF Tracked
  <2>2. e \in E1
    BY <1>4, <2>1 DEF Survive
  <2> QED
    BY <1>2, <2>1, <2>2 DEF Tracked
<1> QED
  BY <1>3, <1>4

LEMMA NodeEntryFacts ==
    /\ \A e \in NodeEntry : /\ e.node \in Nodes /\ e.subxact_level \in Nat
                            /\ [e EXCEPT !.dead = TRUE] \in NodeEntry
                            /\ [e EXCEPT !.dead = TRUE].dead = TRUE
                            /\ [e EXCEPT !.dead = TRUE].node = e.node
                            /\ ~e.dead => e.held = Nobody
                            /\ [e EXCEPT !.held = Nobody] \in NodeEntry
                            /\ [e EXCEPT !.held = Nobody].dead = e.dead
                            /\ [e EXCEPT !.held = Nobody].node = e.node
    /\ \A e \in NodeEntry : \A o \in Owner \union {Nobody} :
         /\ [e EXCEPT !.dead = TRUE, !.held = o] \in NodeEntry
         /\ [e EXCEPT !.dead = TRUE, !.held = o].dead = TRUE
         /\ [e EXCEPT !.dead = TRUE, !.held = o].node = e.node
    /\ \A e \in SortEntry : /\ e.node \in Nodes /\ e.subxact_level \in Nat
                            /\ [e EXCEPT !.dead = TRUE] \in SortEntry
                            /\ [e EXCEPT !.dead = TRUE].dead = TRUE
                            /\ [e EXCEPT !.dead = TRUE].node = e.node
<1>1. \A l \in 1..MAX_LEVEL : l \in Nat
  BY NodeSpansAssumption
<1> QED
  BY <1>1 DEF NodeEntry, SortEntry

(* The queries of Q die, and an owner has their open spans.                *)
LEMMA LeftWithTop ==
    ASSUME NEW stk \in Seq(NodeEntry), OnTop(stk), NEW Q,
           NEW o \in Owner \union {Nobody}
    PROVE  /\ LeftWith(stk, Q, o) \in Seq(NodeEntry)
           /\ Len(LeftWith(stk, Q, o)) = Len(stk)
           /\ OnTop(LeftWith(stk, Q, o))
           /\ Entries(LeftWith(stk, Q, o)) =
                {e \in Entries(stk) : e.node[1] \notin Q}
<1> DEFINE t == LeftWith(stk, Q, o)
<1>1. Len(stk) \in Nat /\ \A k \in 1..Len(stk) : stk[k] \in NodeEntry
  OBVIOUS
<1>2. /\ t \in [1..Len(stk) -> NodeEntry]
      /\ \A k \in 1..Len(stk) :
           /\ t[k].node = stk[k].node
           /\ stk[k].dead => t[k] = stk[k]
           /\ stk[k].node[1] \in Q /\ ~stk[k].dead => t[k].dead
           /\ stk[k].node[1] \notin Q => t[k] = stk[k]
  BY <1>1, NodeEntryFacts DEF LeftWith
<1>3. t \in Seq(NodeEntry) /\ Len(t) = Len(stk)
  BY <1>1, <1>2
<1> HIDE DEF t
<1>4. OnTop(t)
  <2> SUFFICES ASSUME NEW j \in 1..Len(stk), NEW k \in 1..Len(stk),
                      t[j].node = t[k].node, ~t[j].dead
               PROVE  k <= j
    BY <1>3 DEF OnTop
  <2>1. stk[j].node = stk[k].node /\ ~stk[j].dead
    BY <1>2
  <2> QED
    BY <2>1 DEF OnTop
<1>5. ASSUME NEW e \in Entries(t)
      PROVE  e \in Entries(stk) /\ e.node[1] \notin Q
  <2>1. PICK k \in 1..Len(stk) : e = t[k] /\ ~e.dead
    BY <1>3, <1>5 DEF Entries, Items
  <2>2. stk[k].node[1] \notin Q /\ e = stk[k]
    BY <1>2, <2>1
  <2> QED
    BY <2>1, <2>2, EntryFacts
<1>6. ASSUME NEW e \in Entries(stk), e.node[1] \notin Q
      PROVE  e \in Entries(t)
  <2>1. PICK k \in 1..Len(stk) : e = stk[k] /\ ~e.dead
    BY <1>6 DEF Entries, Items
  <2>2. t[k] = e
    BY <1>2, <1>6, <2>1
  <2> QED
    BY <1>3, <2>1, <2>2 DEF Entries, Items
<1> QED
  BY <1>3, <1>4, <1>5, <1>6 DEF t

(* Owners that are released hold nothing for an entry that is not dead.    *)
LEMMA OwnersReleased ==
    ASSUME NEW stk \in Seq(NodeEntry), OnTop(stk), NEW O, Nobody \notin O
    PROVE  /\ OwnersRelease(stk, O) \in Seq(NodeEntry)
           /\ Len(OwnersRelease(stk, O)) = Len(stk)
           /\ OnTop(OwnersRelease(stk, O))
           /\ Entries(OwnersRelease(stk, O)) = Entries(stk)
<1> DEFINE t == OwnersRelease(stk, O)
<1>1. Len(stk) \in Nat /\ \A k \in 1..Len(stk) : stk[k] \in NodeEntry
  OBVIOUS
<1>2. /\ t \in [1..Len(stk) -> NodeEntry]
      /\ \A k \in 1..Len(stk) :
           /\ t[k].node = stk[k].node /\ t[k].dead = stk[k].dead
           /\ ~stk[k].dead => t[k] = stk[k]
  BY <1>1, NodeEntryFacts DEF OwnersRelease
<1>3. t \in Seq(NodeEntry) /\ Len(t) = Len(stk)
  BY <1>1, <1>2
<1> HIDE DEF t
<1>4. OnTop(t)
  <2> SUFFICES ASSUME NEW j \in 1..Len(stk), NEW k \in 1..Len(stk),
                      t[j].node = t[k].node, ~t[j].dead
               PROVE  k <= j
    BY <1>3 DEF OnTop
  <2>1. stk[j].node = stk[k].node /\ ~stk[j].dead
    BY <1>2
  <2> QED
    BY <2>1 DEF OnTop
<1>5. Entries(t) \subseteq Entries(stk) /\ Entries(stk) \subseteq Entries(t)
  <2>1. ASSUME NEW e \in Entries(t)
        PROVE  e \in Entries(stk)
    <3>1. PICK k \in 1..Len(stk) : e = t[k] /\ ~e.dead
      BY <1>3, <2>1 DEF Entries, Items
    <3> QED
      BY <1>2, <3>1, EntryFacts
  <2>2. ASSUME NEW e \in Entries(stk)
        PROVE  e \in Entries(t)
    <3>1. PICK k \in 1..Len(stk) : e = stk[k] /\ ~e.dead
      BY <2>2 DEF Entries, Items
    <3>2. t[k] = e
      BY <1>2, <3>1
    <3> QED
      BY <1>3, <3>1, <3>2 DEF Entries, Items
  <2> QED
    BY <2>1, <2>2
<1> QED
  BY <1>3, <1>4, <1>5 DEF t

LEMMA NodeInvCarries ==
    ASSUME NEW P \in SUBSET NodeEntry, NEW S \in SUBSET SortEntry,
           NEW F \in SUBSET NodeEntry, NEW sp \in SpanSet,
           NEW so \in [Nodes -> SortStatus], NEW qs \in QuerySet,
           NodeInv(P, S, F, sp, so, qs),
           NEW P1, NEW S1, NEW F1, NEW qs1 \in QuerySet, NEW D,
           Survive(P1, P, D, qs1), Survive(S1, S, D, qs1), Survive(F1, F, D, qs1),
           QueriesEase(qs, qs1, D)
    PROVE  NodeInv(P1, S1, F1, Released(sp, D), Forgotten(so, D), qs1)
<1> DEFINE sp1 == Released(sp, D)
           so1 == Forgotten(so, D)
<1>1. /\ \A n \in Nodes : sp1[n] = IF n[1] \in D THEN NoSpan ELSE sp[n]
      /\ \A n \in Nodes : so1[n] = IF n[1] \in D THEN "plain" ELSE so[n]
  BY DEF Released, Forgotten
<1> HIDE DEF sp1, so1
<1>0. OfNodes(P) /\ OfNodes(S) /\ OfNodes(F)
  BY NodeEntryFacts DEF OfNodes
<1>9. Fits(P, "span", qs) /\ Fits(S, "sort", qs) /\ Fits(F, "fdw", qs)
  BY DEF NodeInv
<1>2. Fits(P1, "span", qs1)
  BY <1>0, <1>9, FitsCarries
<1>3. Fits(S1, "sort", qs1)
  BY <1>0, <1>9, FitsCarries
<1>4. Fits(F1, "fdw", qs1)
  BY <1>0, <1>9, FitsCarries
<1>5. \A e \in P1 \union F1 : sp1[e.node] # NoSpan
  <2> TAKE e \in P1 \union F1
  <2>1. e \in P \union F /\ e.node[1] \notin D /\ e.node \in Nodes
    BY NodeEntryFacts DEF Survive
  <2> QED
    BY <1>1, <2>1 DEF NodeInv
<1>6. \A n \in Nodes : sp1[n] # NoSpan =>
        Tracked(n, P1 \union F1, qs1) /\ ParentFits(n, sp1, qs1)
  <2> SUFFICES ASSUME NEW n \in Nodes, sp1[n] # NoSpan
               PROVE  Tracked(n, P1 \union F1, qs1) /\ ParentFits(n, sp1, qs1)
    OBVIOUS
  <2>1. n[1] \notin D /\ sp1[n] = sp[n] /\ sp[n] # NoSpan
    BY <1>1
  <2>2. Tracked(n, P \union F, qs) /\ ParentFits(n, sp, qs)
    BY <2>1 DEF NodeInv
  <2>4. Tracked(n, P1 \union F1, qs1)
    <3> DEFINE E == P \union F
               E1 == P1 \union F1
    <3>1. Tracked(n, E, qs) /\ Survive(E1, E, D, qs1)
      BY <2>2 DEF Survive
    <3> HIDE DEF E, E1
    <3>2. Tracked(n, E1, qs1)
      BY <2>1, <3>1, TrackedCarries
    <3> QED
      BY <3>2 DEF E1
  <2>5. qs1[n[1]].plan = qs[n[1]].plan
    BY <2>1, <2>2, NodeFacts DEF Tracked, LiveIn, Eases, QueriesEase
  <2>6. ParentFits(n, sp1, qs1)
    BY <1>1, <2>1, <2>2, <2>5 DEF ParentFits, MayParent
  <2> QED
    BY <2>4, <2>6
<1>7. \A n \in Nodes : so1[n] # "plain" => Tracked(n, S1, qs1)
  <2> SUFFICES ASSUME NEW n \in Nodes, so1[n] # "plain"
               PROVE  Tracked(n, S1, qs1)
    OBVIOUS
  <2>1. n[1] \notin D /\ so[n] # "plain"
    BY <1>1
  <2>2. Tracked(n, S, qs)
    BY <2>1 DEF NodeInv
  <2> QED
    BY <2>1, <2>2, TrackedCarries
<1>8. \A e \in S1 : so1[e.node] # "plain" /\ (e.ended <=> so1[e.node] = "done")
  <2> TAKE e \in S1
  <2>1. e \in S /\ e.node[1] \notin D /\ e.node \in Nodes
    BY NodeEntryFacts DEF Survive
  <2> QED
    BY <1>1, <2>1 DEF NodeInv
<1> QED
  BY <1>2, <1>3, <1>4, <1>5, <1>6, <1>7, <1>8 DEF NodeInv, sp1, so1

(* Ancestors' recursive function exists, so that it is what its definition *)
(* says.                                                                   *)
AncestorsEqn(plan, n, F) ==
    F = [k \in 0..n |-> IF k = 0 THEN {} ELSE {plan[k].up} \union F[plan[k].up]]

WellFormed(plan) ==
    plan \in Seq(PlanNode) /\ \A i \in 1..Len(plan) : plan[i].up < i

LEMMA WellFormedFacts ==
    ASSUME NEW plan, WellFormed(plan)
    PROVE  /\ Len(plan) \in Nat
           /\ \A k \in 1..Len(plan) :
                plan[k].up \in Nat /\ plan[k].up \in 0..(k - 1)
<1>1. Len(plan) \in Nat /\ \A k \in 1..Len(plan) : plan[k] \in PlanNode
  BY DEF WellFormed
<1>2. \A k \in 1..Len(plan) : plan[k].up \in Nat /\ plan[k].up < k
  BY <1>1 DEF WellFormed, PlanNode
<1> QED
  BY <1>1, <1>2

LEMMA AncestorsExist ==
    ASSUME NEW plan, WellFormed(plan), NEW n \in 0..Len(plan)
    PROVE  \E F : AncestorsEqn(plan, n, F)
<1>1. /\ Len(plan) \in Nat
      /\ \A i \in 1..Len(plan) : plan[i].up \in 0..(i - 1)
  BY WellFormedFacts
<1> DEFINE Good == {m \in Nat : m <= Len(plan) =>
                      \E F : AncestorsEqn(plan, m, F)}
<1>2. 0 \in Good
  <2> DEFINE F == [k \in 0..0 |-> {}]
  <2>1. AncestorsEqn(plan, 0, F)
    BY DEF AncestorsEqn
  <2> QED
    BY <2>1
<1>3. ASSUME NEW m \in Nat, m \in Good
      PROVE  m + 1 \in Good
  <2> SUFFICES ASSUME m + 1 <= Len(plan)
               PROVE  \E F : AncestorsEqn(plan, m + 1, F)
    OBVIOUS
  <2>1. PICK F : AncestorsEqn(plan, m, F)
    BY <1>1, <1>3
  <2>2. \A k \in 0..m : F[k] = IF k = 0 THEN {}
                               ELSE {plan[k].up} \union F[plan[k].up]
    BY <2>1 DEF AncestorsEqn
  <2> DEFINE G == [k \in 0..(m + 1) |->
                     IF k = m + 1 THEN {plan[k].up} \union F[plan[k].up]
                     ELSE F[k]]
             H == [k \in 0..(m + 1) |->
                     IF k = 0 THEN {} ELSE {plan[k].up} \union G[plan[k].up]]
  <2>6. \A k \in 0..(m + 1) :
          /\ G[k] = IF k = m + 1 THEN {plan[k].up} \union F[plan[k].up] ELSE F[k]
          /\ H[k] = IF k = 0 THEN {} ELSE {plan[k].up} \union G[plan[k].up]
    OBVIOUS
  <2> HIDE DEF G, H
  <2>3. \A k \in 0..(m + 1) : G[k] = H[k]
    <3> SUFFICES ASSUME NEW k \in 0..(m + 1)
                 PROVE  G[k] = H[k]
      OBVIOUS
    <3>1. CASE k = 0
      <4>1. k # m + 1 /\ 0 \in 0..m
        BY <3>1
      <4> QED
        BY <2>2, <2>6, <3>1, <4>1
    <3>2. CASE k # 0
      <4>1. k \in 1..Len(plan) /\ plan[k].up \in 0..m
        BY <1>1, <3>2
      <4>2. plan[k].up # m + 1 /\ plan[k].up \in 0..(m + 1)
        BY <4>1
      <4>3. G[plan[k].up] = F[plan[k].up]
        BY <2>6, <4>2
      <4>4. G[k] = {plan[k].up} \union F[plan[k].up]
        <5>1. CASE k = m + 1
          BY <2>6, <5>1
        <5>2. CASE k # m + 1
          <6>1. k \in 0..m
            BY <5>2
          <6> QED
            BY <2>2, <2>6, <3>2, <5>2, <6>1
        <5> QED
          BY <5>1, <5>2
      <4> QED
        BY <2>6, <3>2, <4>3, <4>4
    <3> QED
      BY <3>1, <3>2
  <2>4. G = H
    BY <2>3 DEF G, H
  <2>5. AncestorsEqn(plan, m + 1, G)
    BY <2>4 DEF AncestorsEqn, G, H
  <2> QED
    BY <2>5
<1>4. n \in Nat /\ n \in Good
  <2>1. Nat \subseteq Good
    BY <1>2, <1>3, SetInduction
  <2> QED
    BY <1>1, <2>1
<1> QED
  BY <1>1, <1>4

(* A node's ancestors come before it in the walk.                          *)
LEMMA AncestorsBefore ==
    ASSUME NEW plan, WellFormed(plan), NEW i \in 1..Len(plan)
    PROVE  Ancestors(plan, i) \subseteq 1..(i - 1)
<1> DEFINE F == CHOOSE F : AncestorsEqn(plan, Len(plan), F)
<1>0. /\ Len(plan) \in Nat
      /\ \A k \in 1..Len(plan) : plan[k].up \in 0..(k - 1)
  BY WellFormedFacts
<1>1. AncestorsEqn(plan, Len(plan), F)
  BY <1>0, AncestorsExist
<1>2. Ancestors(plan, i) = F[i] \ {0}
  BY DEF Ancestors, AncestorsEqn
<1> HIDE DEF F
<1>3. \A k \in 0..Len(plan) :
        F[k] = IF k = 0 THEN {} ELSE {plan[k].up} \union F[plan[k].up]
  BY <1>1 DEF AncestorsEqn
<1> DEFINE Good == {m \in Nat : \A k \in 0..m : k <= Len(plan) =>
                      F[k] \subseteq 0..(k - 1)}
<1>4. 0 \in Good
  <2>0. 0 \in 0..Len(plan)
    BY <1>0
  <2>1. F[0] = {}
    BY <1>3, <2>0
  <2> QED
    BY <2>1
<1>5. ASSUME NEW m \in Nat, m \in Good
      PROVE  m + 1 \in Good
  <2> SUFFICES ASSUME m + 1 <= Len(plan)
               PROVE  F[m + 1] \subseteq 0..m
    <3>1. \A k \in 0..(m + 1) : k # m + 1 => k \in 0..m
      OBVIOUS
    <3> QED
      BY <1>5, <3>1
  <2>1. m + 1 \in 1..Len(plan) /\ plan[m + 1].up \in 0..m
    BY <1>0
  <2> DEFINE u == plan[m + 1].up
  <2>2. F[u] \subseteq 0..m
    <3>1. u <= Len(plan) /\ F[u] \subseteq 0..(u - 1)
      BY <1>0, <1>5, <2>1
    <3> QED
      BY <2>1, <3>1
  <2>3. F[m + 1] = {u} \union F[u]
    <3>1. m + 1 # 0 /\ m + 1 \in 0..Len(plan)
      BY <1>0, <2>1
    <3> QED
      BY <1>3, <3>1
  <2> QED
    BY <2>1, <2>2, <2>3
<1>6. i \in Nat /\ i \in Good
  <2>1. Nat \subseteq Good
    BY <1>4, <1>5, SetInduction
  <2>2. i \in Nat
    BY <1>0
  <2> QED
    BY <2>1, <2>2
<1>7. F[i] \subseteq 0..(i - 1)
  BY <1>0, <1>6
<1> QED
  BY <1>0, <1>2, <1>7

LEMMA PlansWellFormed ==
    \A q \in Queries : \A p \in Plans[q] : WellFormed(p)
BY NodeSpansAssumption DEF WellFormed

(***************************************************************************)
(* Starting and ending spans.                                              *)
(***************************************************************************)

(* The ref that planspans_parent gives is of an ancestor's entry.          *)
LEMMA ParentFound ==
    ASSUME NEW w, w.ps \in Seq(NodeEntry), NEW plan, WellFormed(plan),
           NEW q \in Queries, NEW j \in 1..Len(plan)
    PROVE  \/ planspans_parent(w, plan, <<q, j>>) = Stmt
           \/ \E e \in Items(w.ps) :
                /\ planspans_parent(w, plan, <<q, j>>) = ref(e)
                /\ e.node \in Nodes /\ e.node[1] = q
                /\ e.node[2] \in Ancestors(plan, j)
<1> DEFINE n == <<q, j>>
           tracked == {a \in Remembered(plan, n[2]) :
                         Find(w.ps, <<n[1], a>>) # 0}
<1>1. planspans_parent(w, plan, n) =
        IF tracked = {} THEN Stmt
        ELSE ref(w.ps[Find(w.ps, <<n[1], Max(tracked)>>)])
  BY DEF planspans_parent
<1>2. /\ tracked \subseteq Ancestors(plan, j)
      /\ \A a \in tracked : Find(w.ps, <<q, a>>) # 0
  BY DEF Remembered
<1>3. CASE tracked = {}
  BY <1>1, <1>3
<1>4. CASE tracked # {}
  <2>1. j - 1 \in Nat /\ tracked \in SUBSET (1..(j - 1))
    BY <1>2, AncestorsBefore DEF WellFormed
  <2> HIDE DEF tracked
  <2>2. Max(tracked) \in tracked
    BY <1>4, <2>1, GreatestUpTo
  <2> DEFINE f == Find(w.ps, <<q, Max(tracked)>>)
  <2>3. f \in 1..Len(w.ps) /\ w.ps[f].node = <<q, Max(tracked)>>
    BY <1>2, <2>2, FindFacts
  <2>4. planspans_parent(w, plan, n) = ref(w.ps[f])
    BY <1>1, <1>4
  <2> HIDE DEF f
  <2>5. w.ps[f] \in Items(w.ps) /\ w.ps[f] \in NodeEntry
    BY <2>3, ItemFacts
  <2>6. w.ps[f].node \in Nodes
    BY <2>5, NodeEntryFacts
  <2>7. w.ps[f].node[1] = q /\ w.ps[f].node[2] = Max(tracked)
    BY <2>3
  <2> QED
    BY <1>2, <2>2, <2>4, <2>5, <2>6, <2>7
<1> QED
  BY <1>3, <1>4

(* A span that starts gets an entry, and an open parent in its query.      *)
LEMMA SpanOpens ==
    ASSUME NEW P \in SUBSET NodeEntry, NEW S \in SUBSET SortEntry,
           NEW F \in SUBSET NodeEntry, NEW sp \in SpanSet,
           NEW so \in [Nodes -> SortStatus], NEW qs \in QuerySet,
           NodeInv(P, S, F, sp, so, qs),
           NEW e \in NodeEntry, NEW parent \in Parent,
           LiveIn(qs, e.node), ~qs[e.node[1]].moved,
           e.subxact_level = qs[e.node[1]].lev, sp[e.node] = NoSpan,
           MayParent(parent, e.node, sp, qs),
           NEW P1, NEW F1,
           \/ /\ qs[e.node[1]].plan[e.node[2]].kind = "span"
              /\ P1 = P \union {e} /\ F1 = F
           \/ /\ qs[e.node[1]].plan[e.node[2]].kind = "fdw"
              /\ P1 = P /\ F1 = F \union {e}
    PROVE  NodeInv(P1, S, F1, [sp EXCEPT ![e.node] = parent], so, qs)
<1> DEFINE sp1 == [sp EXCEPT ![e.node] = parent]
           n == e.node
<1>1. /\ n \in Nodes /\ n[1] \in Queries /\ e.subxact_level \in Nat
      /\ \A x \in {Stmt, NoSpan, Left, Outer} : x \notin Nodes
      /\ NoSpan \notin Parent
      /\ \A x \in P \union F : x.node \in Nodes
  BY NodeFacts, NodeEntryFacts
<1>2. /\ \A m \in Nodes : sp1[m] = IF m = n THEN parent ELSE sp[m]
      /\ parent # NoSpan
  BY <1>1 DEF SpanSet
<1>3. P1 \union F1 = (P \union F) \union {e}
  OBVIOUS
<1>4. Fits(P1, "span", qs) /\ Fits(F1, "fdw", qs)
  <2>1. e.subxact_level >= qs[n[1]].lev
    BY <1>1
  <2> QED
    BY <2>1, Zenon DEF NodeInv, Fits
<1> HIDE DEF sp1
<1>5. \A x \in P1 \union F1 : sp1[x.node] # NoSpan
  BY <1>1, <1>2, <1>3 DEF NodeInv
<1>6. ASSUME NEW m \in Nodes, sp1[m] # NoSpan
      PROVE  Tracked(m, P1 \union F1, qs) /\ ParentFits(m, sp1, qs)
  <2>1. Tracked(m, P1 \union F1, qs)
    <3>1. CASE m = n
      BY <1>3, <3>1 DEF Tracked
    <3>2. CASE m # n
      <4>1. Tracked(m, P \union F, qs)
        BY <1>2, <1>6, <3>2 DEF NodeInv
      <4> QED
        BY <1>3, <4>1 DEF Tracked
    <3> QED
      BY <3>1, <3>2
  <2>2. ParentFits(m, sp1, qs)
    <3>1. CASE m = n
      BY <1>1, <1>2, <3>1 DEF ParentFits, MayParent
    <3>2. CASE m # n
      <4>1. ParentFits(m, sp, qs) /\ sp1[m] = sp[m]
        BY <1>2, <1>6, <3>2 DEF NodeInv
      <4> QED
        BY <1>1, <1>2, <4>1 DEF ParentFits, MayParent
    <3> QED
      BY <3>1, <3>2
  <2> QED
    BY <2>1, <2>2
<1>7. /\ Fits(S, "sort", qs)
      /\ \A m \in Nodes : so[m] # "plain" => Tracked(m, S, qs)
      /\ \A x \in S : so[x.node] # "plain" /\ (x.ended <=> so[x.node] = "done")
  BY DEF NodeInv
<1> QED
  BY <1>4, <1>5, <1>6, <1>7 DEF NodeInv, sp1

(* What a Sort's first call comes to: S1 and the new status agree.         *)
LEMMA SortMoves ==
    ASSUME NEW P \in SUBSET NodeEntry, NEW S \in SUBSET SortEntry,
           NEW F \in SUBSET NodeEntry, NEW sp \in SpanSet,
           NEW so \in [Nodes -> SortStatus], NEW qs \in QuerySet,
           NodeInv(P, S, F, sp, so, qs),
           NEW n \in Nodes, NEW status \in SortStatus, status # "plain",
           NEW S1 \in SUBSET SortEntry,
           Fits(S1, "sort", qs), Tracked(n, S1, qs),
           \A m \in Nodes : m # n =>
             \A e \in SortEntry : e.node = m => (e \in S1 <=> e \in S),
           \A e \in S1 : e.node = n => (e.ended <=> status = "done")
    PROVE  NodeInv(P, S1, F, sp, [so EXCEPT ![n] = status], qs)
<1> DEFINE so1 == [so EXCEPT ![n] = status]
<1>1. \A m \in Nodes : so1[m] = IF m = n THEN status ELSE so[m]
  OBVIOUS
<1> HIDE DEF so1
<1>2. ASSUME NEW m \in Nodes, so1[m] # "plain"
      PROVE  Tracked(m, S1, qs)
  <2>1. CASE m = n
    BY <2>1
  <2>2. CASE m # n
    <3>1. Tracked(m, S, qs)
      BY <1>1, <1>2, <2>2 DEF NodeInv
    <3>2. \A e \in S : e.node = m => e \in S1
      BY <2>2
    <3> QED
      BY <3>1, <3>2 DEF Tracked
  <2> QED
    BY <2>1, <2>2
<1>3. ASSUME NEW e \in S1
      PROVE  so1[e.node] # "plain" /\ (e.ended <=> so1[e.node] = "done")
  <2>1. e \in SortEntry /\ e.node \in Nodes
    BY NodeEntryFacts
  <2>2. CASE e.node = n
    BY <1>1, <2>1, <2>2
  <2>3. CASE e.node # n
    <3>1. e \in S /\ so1[e.node] = so[e.node]
      BY <1>1, <2>1, <2>3
    <3> QED
      BY <3>1 DEF NodeInv
  <2> QED
    BY <2>2, <2>3
<1> QED
  BY <1>2, <1>3 DEF NodeInv, so1

-----------------------------------------------------------------------------
(* The walk of ExecutorStart.                                              *)

WalkSet == [ps : Seq(NodeEntry), sw : Seq(SortEntry), fd : Seq(NodeEntry),
            sp : SpanSet, so : [Nodes -> SortStatus],
            mi : SUBSET [node : Nodes, parent : Parent]]

WalkFits(w) ==
    /\ w \in WalkSet
    /\ Len(w.ps) <= OTEL_PLANSPANS_STACK_MAX
    /\ Len(w.sw) <= OTEL_PLANSPANS_STACK_MAX
    /\ Len(w.fd) <= OTEL_FDW_SCAN_STACK_MAX
    /\ OnTop(w.ps) /\ OnTop(w.sw) /\ OnTop(w.fd)

(* The entries of q are those of its first i nodes.                        *)
Upto(E, q, i) == \A e \in E : e.node[1] = q => e.node[2] <= i

(* The walk has begun spans for the first i nodes of q, and has left the   *)
(* other queries' Sorts as they were.                                      *)
StartInv(w, q, i, qs) ==
    /\ WalkFits(w) /\ w.mi = {}
    /\ NodeInv(Entries(w.ps), Entries(w.sw), Entries(w.fd), w.sp, w.so, qs)
    /\ Upto(Entries(w.ps), q, i) /\ Upto(Entries(w.sw), q, i)
    /\ Upto(Entries(w.fd), q, i)
    /\ \A n \in Nodes : sorts[n] # "plain" => w.so[n] = sorts[n]

LEMMA WalkFields ==
    ASSUME NEW w \in WalkSet
    PROVE  /\ w.ps \in Seq(NodeEntry) /\ w.sw \in Seq(SortEntry)
           /\ w.fd \in Seq(NodeEntry) /\ w.sp \in SpanSet
           /\ w.so \in [Nodes -> SortStatus]
           /\ w.mi \in SUBSET [node : Nodes, parent : Parent]
           /\ Entries(w.ps) \in SUBSET NodeEntry
           /\ Entries(w.sw) \in SUBSET SortEntry
           /\ Entries(w.fd) \in SUBSET NodeEntry
<1>1. /\ w.ps \in Seq(NodeEntry) /\ w.sw \in Seq(SortEntry)
      /\ w.fd \in Seq(NodeEntry) /\ w.sp \in SpanSet
      /\ w.so \in [Nodes -> SortStatus]
      /\ w.mi \in SUBSET [node : Nodes, parent : Parent]
  BY DEF WalkSet
<1> QED
  BY <1>1, EntryFacts

(* A query that has just been opened.                                      *)
Fresh(qs, q, plan) ==
    /\ qs \in QuerySet /\ q \in Queries /\ plan \in Plans[q]
    /\ qs[q] = [Closed EXCEPT !.plan = plan, !.lev = level]
    /\ level \in 1..MAX_LEVEL

LEMMA FreshFacts ==
    ASSUME NEW qs, NEW q, NEW plan, Fresh(qs, q, plan), NEW j \in 1..Len(plan)
    PROVE  /\ qs \in QuerySet /\ q \in Queries /\ plan \in Plans[q]
           /\ qs[q].plan = plan /\ qs[q].lev = level
           /\ ~qs[q].failed /\ ~qs[q].moved
           /\ level \in 1..MAX_LEVEL /\ level > 0
           /\ <<q, j>> \in Nodes /\ LiveIn(qs, <<q, j>>)
           /\ <<q, j>>[1] = q /\ <<q, j>>[2] = j
<1>1. /\ qs \in QuerySet /\ q \in Queries /\ plan \in Plans[q]
      /\ qs[q] = [plan |-> plan, lev |-> level, failed |-> FALSE, moved |-> FALSE]
      /\ level \in 1..MAX_LEVEL /\ MAX_LEVEL \in Nat
  BY NodeSpansAssumption DEF Fresh, Closed
<1>2. <<q, j>> \in Nodes
  BY <1>1, NodeFacts
<1> QED
  BY <1>1, <1>2 DEF LiveIn

(* The next node has no entry yet, and no span.                            *)
LEMMA NextIsFree ==
    ASSUME NEW w, NEW qs, NEW q, NEW plan, NEW i \in Nat,
           StartInv(w, q, i, qs), Fresh(qs, q, plan), i + 1 \in 1..Len(plan)
    PROVE  /\ \A e \in Entries(w.ps) \union Entries(w.sw) \union Entries(w.fd) :
                e.node # <<q, i + 1>>
           /\ w.sp[<<q, i + 1>>] = NoSpan /\ w.so[<<q, i + 1>>] = "plain"
<1> DEFINE n == <<q, i + 1>>
<1>1. n \in Nodes /\ n[1] = q /\ n[2] = i + 1 /\ ~qs[n[1]].moved
  BY FreshFacts
<1>2. \A e \in Entries(w.ps) \union Entries(w.sw) \union Entries(w.fd) :
        e.node # n
  BY <1>1 DEF StartInv, Upto
<1>3. ~Tracked(n, Entries(w.ps) \union Entries(w.fd), qs)
      /\ ~Tracked(n, Entries(w.sw), qs)
  BY <1>1, <1>2 DEF Tracked
<1>4. w.sp[n] = NoSpan /\ w.so[n] = "plain"
  BY <1>1, <1>3 DEF StartInv, NodeInv
<1> QED
  BY <1>2, <1>4

(* An entry is added to the first i nodes' ones.                           *)
LEMMA UptoNext ==
    ASSUME NEW E, OfNodes(E), NEW q, NEW i \in Nat, Upto(E, q, i)
    PROVE  /\ Upto(E, q, i + 1)
           /\ \A e : e.node = <<q, i + 1>> => Upto(E \union {e}, q, i + 1)
<1>1. \A e \in E : e.node[2] \in Nat
  BY NodeFacts DEF OfNodes
<1>2. Upto(E, q, i + 1)
  BY <1>1 DEF Upto
<1> QED
  BY <1>2 DEF Upto

LEMMA StepsOver ==
    ASSUME NEW w, NEW qs, NEW q, NEW i \in Nat, StartInv(w, q, i, qs)
    PROVE  StartInv(w, q, i + 1, qs)
<1>1. /\ OfNodes(Entries(w.ps)) /\ OfNodes(Entries(w.sw))
      /\ OfNodes(Entries(w.fd))
  BY WalkFields, NodeEntryFacts DEF StartInv, WalkFits, OfNodes
<1> QED
  BY <1>1, UptoNext DEF StartInv

LEMMA FdwBegins ==
    ASSUME NEW w, NEW qs, NEW q, NEW plan, NEW i \in Nat,
           StartInv(w, q, i, qs), Fresh(qs, q, plan), i + 1 \in 1..Len(plan),
           plan[i + 1].kind = "fdw", NEW stmt, NEW G
    PROVE  StartInv(otel_fdw_scan_begin(w, <<q, i + 1>>, stmt, G), q, i + 1, qs)
<1> DEFINE n == <<q, i + 1>>
           e == [node |-> n, subxact_level |-> level, dead |-> FALSE,
                 held |-> Nobody]
           parent == IF stmt = "current" THEN Stmt ELSE Outer
           w1 == [w EXCEPT !.sp[n] = parent, !.fd = Push(@, n)]
<1>0. parent \in {Stmt, Outer}
  OBVIOUS
<1>1. CASE ~(Len(w.fd) < OTEL_FDW_SCAN_STACK_MAX /\ n \in G)
  BY <1>1, StepsOver DEF otel_fdw_scan_begin
<1>2. CASE Len(w.fd) < OTEL_FDW_SCAN_STACK_MAX /\ n \in G
  <2>1. w \in WalkSet
    BY DEF StartInv, WalkFits
  <2>2. /\ w1.ps = w.ps /\ w1.sw = w.sw /\ w1.fd = Append(w.fd, e)
        /\ w1.sp = [w.sp EXCEPT ![n] = parent] /\ w1.so = w.so /\ w1.mi = w.mi
        /\ w1 = [ps |-> w1.ps, sw |-> w1.sw, fd |-> w1.fd, sp |-> w1.sp,
                 so |-> w1.so, mi |-> w1.mi]
    <3> DEFINE a == [w.sp EXCEPT ![n] = parent]
               b == Push(w.fd, n)
    <3> HIDE DEF parent
    <3>1. w = [ps |-> w.ps, sw |-> w.sw, fd |-> w.fd, sp |-> w.sp,
               so |-> w.so, mi |-> w.mi]
      BY <2>1 DEF WalkSet
    <3>2. w1 = [w EXCEPT !.sp = a, !.fd = b]
      BY <3>1
    <3>3. b = Append(w.fd, e)
      BY DEF Push
    <3> HIDE DEF w1, e, b, a
    <3>4. w1 = [ps |-> w.ps, sw |-> w.sw, fd |-> b, sp |-> a,
                so |-> w.so, mi |-> w.mi]
      BY <3>1, <3>2
    <3> QED
      BY <3>3, <3>4 DEF a
  <2>3. /\ n \in Nodes /\ LiveIn(qs, n) /\ ~qs[n[1]].moved
        /\ qs[n[1]].lev = level /\ level \in 1..MAX_LEVEL
        /\ qs[n[1]].plan[n[2]].kind = "fdw" /\ qs \in QuerySet
    BY FreshFacts
  <2>4. e \in NodeEntry /\ e.node = n /\ ~e.dead /\ e.subxact_level = level
    BY <2>3 DEF NodeEntry
  <2> HIDE DEF e, w1, parent
  <2>5. /\ w.ps \in Seq(NodeEntry) /\ w.sw \in Seq(SortEntry)
        /\ w.fd \in Seq(NodeEntry) /\ w.sp \in SpanSet
        /\ w.so \in [Nodes -> SortStatus]
        /\ Entries(w.ps) \in SUBSET NodeEntry
        /\ Entries(w.sw) \in SUBSET SortEntry
        /\ Entries(w.fd) \in SUBSET NodeEntry
    BY <2>1, WalkFields
  <2>6. /\ w.sp[n] = NoSpan
        /\ \A x \in Entries(w.fd) : x.node # n
    BY NextIsFree
  <2>7. /\ w1.fd \in Seq(NodeEntry) /\ Len(w1.fd) = Len(w.fd) + 1
        /\ OnTop(w1.fd) /\ Entries(w1.fd) = Entries(w.fd) \union {e}
    <3>1. OnTop(w.fd)
      BY DEF StartInv, WalkFits
    <3>2. Append(w.fd, e) \in Seq(NodeEntry) /\ Len(Append(w.fd, e)) = Len(w.fd) + 1
      BY <2>4, <2>5, PushFacts
    <3>3. /\ OnTop(Append(w.fd, e))
          /\ Entries(Append(w.fd, e)) = Entries(w.fd) \union {e}
      <4>1. \A x \in Entries(w.fd) : x.node # e.node
        BY <2>4, <2>6
      <4> QED
        BY <2>4, <2>5, <3>1, <4>1, PushTop, SMTT(60)
    <3> QED
      BY <2>2, <3>2, <3>3
  <2>8. w1.sp \in SpanSet
    BY <1>0, <2>2, <2>3, <2>5 DEF SpanSet, Parent
  <2>9. WalkFits(w1)
    <3>1. w1 \in WalkSet
      BY <2>1, <2>2, <2>5, <2>7, <2>8 DEF WalkSet
    <3>2. Len(w1.fd) <= OTEL_FDW_SCAN_STACK_MAX
      BY <1>2, <2>5, <2>7, NodeSpansAssumption
    <3> QED
      BY <2>2, <2>7, <3>1, <3>2 DEF WalkFits, StartInv
  <2>10. NodeInv(Entries(w1.ps), Entries(w1.sw), Entries(w1.fd), w1.sp, w1.so, qs)
    <3>1. NodeInv(Entries(w.ps), Entries(w.sw), Entries(w.fd), w.sp, w.so, qs)
      BY DEF StartInv
    <3>2. NodeInv(Entries(w.ps), Entries(w.sw), Entries(w.fd) \union {e},
                  [w.sp EXCEPT ![e.node] = parent], w.so, qs)
      <4> DEFINE F1 == Entries(w.fd) \union {e}
      <4>1. parent \in Parent /\ MayParent(parent, e.node, w.sp, qs)
        BY <1>0, <2>3, <2>4 DEF Parent, MayParent
      <4>2. /\ LiveIn(qs, e.node) /\ ~qs[e.node[1]].moved
            /\ e.subxact_level = qs[e.node[1]].lev /\ w.sp[e.node] = NoSpan
            /\ qs[e.node[1]].plan[e.node[2]].kind = "fdw"
        BY <2>3, <2>4, <2>6
      <4>3. F1 = Entries(w.fd) \union {e}
        OBVIOUS
      <4> HIDE DEF F1
      <4>4. NodeInv(Entries(w.ps), Entries(w.sw), F1,
                    [w.sp EXCEPT ![e.node] = parent], w.so, qs)
        BY <2>3, <2>4, <2>5, <3>1, <4>1, <4>2, <4>3, SpanOpens
      <4> QED
        BY <4>4 DEF F1
    <3> QED
      BY <2>2, <2>4, <2>7, <3>2
  <2>11. /\ Upto(Entries(w1.ps), q, i + 1) /\ Upto(Entries(w1.sw), q, i + 1)
         /\ Upto(Entries(w1.fd), q, i + 1)
    <3>1. /\ OfNodes(Entries(w.ps)) /\ OfNodes(Entries(w.sw))
          /\ OfNodes(Entries(w.fd))
      BY <2>5, NodeEntryFacts DEF OfNodes
    <3>2. Upto(Entries(w.fd) \union {e}, q, i + 1)
      BY <2>4, <3>1, UptoNext DEF StartInv
    <3> QED
      BY <2>2, <2>7, <3>1, <3>2, UptoNext DEF StartInv
  <2>12. StartInv(w1, q, i + 1, qs)
    BY <2>2, <2>9, <2>10, <2>11 DEF StartInv
  <2> QED
    BY <1>2, <2>12 DEF otel_fdw_scan_begin, w1, parent
<1> QED
  BY <1>1, <1>2

(* A Sort's node is wrapped.                                               *)
LEMMA SortWraps ==
    ASSUME NEW w, NEW qs, NEW q, NEW plan, NEW i \in Nat,
           StartInv(w, q, i, qs), Fresh(qs, q, plan), i + 1 \in 1..Len(plan),
           plan[i + 1].kind = "sort",
           Len(w.sw) < OTEL_PLANSPANS_STACK_MAX, NEW G
    PROVE  StartInv(planspans_node_begin(w, plan, <<q, i + 1>>, G), q, i + 1, qs)
<1> DEFINE n == <<q, i + 1>>
           e == [node |-> n, ended |-> FALSE, subxact_level |-> level,
                 dead |-> FALSE]
           w1 == [w EXCEPT !.sw = Append(@, e), !.so[n] = "wrapped"]
<1>1. planspans_node_begin(w, plan, n, G) = w1
  BY DEF planspans_node_begin
<1>2. w \in WalkSet
  BY DEF StartInv, WalkFits
<1>3. /\ w1.ps = w.ps /\ w1.sw = Append(w.sw, e) /\ w1.fd = w.fd
      /\ w1.sp = w.sp /\ w1.so = [w.so EXCEPT ![n] = "wrapped"] /\ w1.mi = w.mi
      /\ w1 = [ps |-> w1.ps, sw |-> w1.sw, fd |-> w1.fd, sp |-> w1.sp,
               so |-> w1.so, mi |-> w1.mi]
  <2> DEFINE a == [w.so EXCEPT ![n] = "wrapped"]
             b == Append(w.sw, e)
  <2>1. w = [ps |-> w.ps, sw |-> w.sw, fd |-> w.fd, sp |-> w.sp,
             so |-> w.so, mi |-> w.mi]
    BY <1>2 DEF WalkSet
  <2>2. w1 = [w EXCEPT !.sw = b, !.so = a]
    BY <2>1
  <2> HIDE DEF w1, e, b, a
  <2>3. w1 = [ps |-> w.ps, sw |-> b, fd |-> w.fd, sp |-> w.sp,
              so |-> a, mi |-> w.mi]
    BY <2>1, <2>2
  <2> QED
    BY <2>3 DEF a, b
<1>4. /\ n \in Nodes /\ LiveIn(qs, n) /\ ~qs[n[1]].moved
      /\ qs[n[1]].lev = level /\ level \in 1..MAX_LEVEL
      /\ qs[n[1]].plan[n[2]].kind = "sort" /\ qs \in QuerySet
      /\ MAX_LEVEL \in Nat
  BY FreshFacts, NodeSpansAssumption
<1>5. /\ e \in SortEntry /\ e.node = n /\ ~e.dead /\ ~e.ended
      /\ e.subxact_level = level
  BY <1>4 DEF SortEntry
<1> HIDE DEF e, w1
<1>6. /\ w.ps \in Seq(NodeEntry) /\ w.sw \in Seq(SortEntry)
      /\ w.fd \in Seq(NodeEntry) /\ w.sp \in SpanSet
      /\ w.so \in [Nodes -> SortStatus]
      /\ Entries(w.ps) \in SUBSET NodeEntry
      /\ Entries(w.sw) \in SUBSET SortEntry
      /\ Entries(w.fd) \in SUBSET NodeEntry
  BY <1>2, WalkFields
<1>7. w.so[n] = "plain" /\ \A x \in Entries(w.sw) : x.node # n
  BY NextIsFree
<1>8. /\ w1.sw \in Seq(SortEntry) /\ Len(w1.sw) = Len(w.sw) + 1
      /\ OnTop(w1.sw) /\ Entries(w1.sw) = Entries(w.sw) \union {e}
  <2>1. OnTop(w.sw)
    BY DEF StartInv, WalkFits
  <2>2. Append(w.sw, e) \in Seq(SortEntry) /\ Len(Append(w.sw, e)) = Len(w.sw) + 1
    BY <1>5, <1>6, PushFacts
  <2>3. /\ OnTop(Append(w.sw, e))
        /\ Entries(Append(w.sw, e)) = Entries(w.sw) \union {e}
    <3>1. \A x \in Entries(w.sw) : x.node # e.node
      BY <1>5, <1>7
    <3> QED
      BY <1>5, <1>6, <2>1, <3>1, PushTop
  <2> QED
    BY <1>3, <2>2, <2>3
<1>9. w1.so \in [Nodes -> SortStatus]
  BY <1>3, <1>4, <1>6 DEF SortStatus
<1>10. WalkFits(w1)
  <2>1. w1 \in WalkSet
    BY <1>2, <1>3, <1>6, <1>8, <1>9 DEF WalkSet
  <2>2. Len(w1.sw) <= OTEL_PLANSPANS_STACK_MAX
    BY <1>6, <1>8, NodeSpansAssumption
  <2> QED
    BY <1>3, <1>8, <2>1, <2>2 DEF WalkFits, StartInv
<1>11. NodeInv(Entries(w1.ps), Entries(w1.sw), Entries(w1.fd), w1.sp, w1.so, qs)
  <2> DEFINE S == Entries(w.sw)
             S1 == Entries(w.sw) \union {e}
  <2>1. NodeInv(Entries(w.ps), S, Entries(w.fd), w.sp, w.so, qs)
    BY DEF StartInv
  <2>2. Fits(S1, "sort", qs)
    <3>1. e.subxact_level >= qs[n[1]].lev
      BY <1>4, <1>5
    <3> QED
      BY <1>4, <1>5, <2>1, <3>1, Zenon DEF NodeInv, Fits
  <2>3. Tracked(n, S1, qs) /\ S1 \in SUBSET SortEntry /\ S \in SUBSET SortEntry
    BY <1>4, <1>5, <1>6 DEF Tracked
  <2>4. /\ \A m \in Nodes : m # n =>
             \A x \in SortEntry : x.node = m => (x \in S1 <=> x \in S)
        /\ \A x \in S1 : x.node = n => (x.ended <=> "wrapped" = "done")
    BY <1>5, <1>7
  <2>5. "wrapped" \in SortStatus /\ "wrapped" # "plain"
    BY DEF SortStatus
  <2> HIDE DEF S, S1
  <2>6. NodeInv(Entries(w.ps), S1, Entries(w.fd), w.sp,
                [w.so EXCEPT ![n] = "wrapped"], qs)
    BY <1>4, <1>6, <2>1, <2>2, <2>3, <2>4, <2>5, SortMoves
  <2> QED
    BY <1>3, <1>8, <2>6 DEF S1
<1>12. /\ Upto(Entries(w1.ps), q, i + 1) /\ Upto(Entries(w1.sw), q, i + 1)
       /\ Upto(Entries(w1.fd), q, i + 1)
  <2>1. /\ OfNodes(Entries(w.ps)) /\ OfNodes(Entries(w.sw))
        /\ OfNodes(Entries(w.fd))
    BY <1>6, NodeEntryFacts DEF OfNodes
  <2>2. Upto(Entries(w.sw) \union {e}, q, i + 1)
    BY <1>5, <2>1, UptoNext DEF StartInv
  <2> QED
    BY <1>3, <1>8, <2>1, <2>2, UptoNext DEF StartInv
<1>13. \A m \in Nodes : sorts[m] # "plain" => w1.so[m] = sorts[m]
  <2> SUFFICES ASSUME NEW m \in Nodes, sorts[m] # "plain"
               PROVE  w1.so[m] = sorts[m]
    OBVIOUS
  <2>1. w.so[m] = sorts[m] /\ m # n
    BY <1>7 DEF StartInv
  <2> QED
    BY <1>3, <1>6, <2>1
<1>14. StartInv(w1, q, i + 1, qs)
  BY <1>3, <1>10, <1>11, <1>12, <1>13 DEF StartInv
<1> QED
  BY <1>1, <1>14

(* A curated node's span starts under the parent that was found.           *)
LEMMA SpanBegins ==
    ASSUME NEW w, NEW qs, NEW q, NEW plan, NEW i \in Nat,
           StartInv(w, q, i, qs), Fresh(qs, q, plan), i + 1 \in 1..Len(plan),
           plan[i + 1].kind = "span", NEW G, <<q, i + 1>> \in G,
           Len(w.ps) < OTEL_PLANSPANS_STACK_MAX,
           Startable(w, planspans_parent(w, plan, <<q, i + 1>>))
    PROVE  StartInv(planspans_node_begin(w, plan, <<q, i + 1>>, G), q, i + 1, qs)
<1> DEFINE n == <<q, i + 1>>
           e == [node |-> n, subxact_level |-> level, dead |-> FALSE,
                 held |-> Nobody]
           parent == planspans_parent(w, plan, n)
           w1 == [w EXCEPT !.sp[n] = parent, !.ps = Push(@, n)]
<1>1. planspans_node_begin(w, plan, n, G) = w1
  BY DEF planspans_node_begin
<1>2. w \in WalkSet
  BY DEF StartInv, WalkFits
<1>3. /\ w1.ps = Append(w.ps, e) /\ w1.sw = w.sw /\ w1.fd = w.fd
      /\ w1.sp = [w.sp EXCEPT ![n] = parent] /\ w1.so = w.so /\ w1.mi = w.mi
      /\ w1 = [ps |-> w1.ps, sw |-> w1.sw, fd |-> w1.fd, sp |-> w1.sp,
               so |-> w1.so, mi |-> w1.mi]
  <2> DEFINE a == [w.sp EXCEPT ![n] = parent]
             b == Push(w.ps, n)
  <2>1. w = [ps |-> w.ps, sw |-> w.sw, fd |-> w.fd, sp |-> w.sp,
             so |-> w.so, mi |-> w.mi]
    BY <1>2 DEF WalkSet
  <2> HIDE DEF parent
  <2>2. w1 = [w EXCEPT !.sp = a, !.ps = b]
    BY <2>1
  <2>3. b = Append(w.ps, e)
    BY DEF Push
  <2> HIDE DEF w1, e, b, a
  <2>4. w1 = [ps |-> b, sw |-> w.sw, fd |-> w.fd, sp |-> a,
              so |-> w.so, mi |-> w.mi]
    BY <2>1, <2>2
  <2> QED
    BY <2>3, <2>4 DEF a
<1>4. /\ n \in Nodes /\ LiveIn(qs, n) /\ ~qs[n[1]].moved
      /\ qs[n[1]].lev = level /\ level \in 1..MAX_LEVEL
      /\ qs[n[1]].plan[n[2]].kind = "span" /\ qs \in QuerySet
      /\ qs[n[1]].plan = plan /\ n[1] = q /\ n[2] = i + 1
      /\ q \in Queries /\ WellFormed(plan)
  BY FreshFacts, PlansWellFormed
<1>5. e \in NodeEntry /\ e.node = n /\ ~e.dead /\ e.subxact_level = level
  BY <1>4 DEF NodeEntry
<1> HIDE DEF e, w1
<1>6. /\ w.ps \in Seq(NodeEntry) /\ w.sw \in Seq(SortEntry)
      /\ w.fd \in Seq(NodeEntry) /\ w.sp \in SpanSet
      /\ w.so \in [Nodes -> SortStatus]
      /\ Entries(w.ps) \in SUBSET NodeEntry
      /\ Entries(w.sw) \in SUBSET SortEntry
      /\ Entries(w.fd) \in SUBSET NodeEntry
  BY <1>2, WalkFields
<1>7. w.sp[n] = NoSpan /\ \A x \in Entries(w.ps) : x.node # n
  BY NextIsFree
<1>8. parent \in Parent /\ MayParent(parent, n, w.sp, qs)
  <2>1. CASE parent \in {Stmt, Left}
    BY <2>1 DEF Parent, MayParent
  <2>2. CASE parent \notin {Stmt, Left}
    <3>1. parent \in Nodes /\ w.sp[parent] # NoSpan
      BY <2>2 DEF Startable
    <3>2. PICK x \in Items(w.ps) :
            /\ parent = ref(x) /\ x.node \in Nodes /\ x.node[1] = q
            /\ x.node[2] \in Ancestors(plan, i + 1)
      BY <1>4, <1>6, <2>2, ParentFound
    <3>3. parent = x.node
      BY <3>1, <3>2, NodeFacts DEF ref
    <3> QED
      BY <1>4, <3>1, <3>2, <3>3 DEF Parent, MayParent
  <2> QED
    BY <2>1, <2>2
<1> HIDE DEF parent
<1>9. /\ w1.ps \in Seq(NodeEntry) /\ Len(w1.ps) = Len(w.ps) + 1
      /\ OnTop(w1.ps) /\ Entries(w1.ps) = Entries(w.ps) \union {e}
  <2>1. OnTop(w.ps)
    BY DEF StartInv, WalkFits
  <2>2. Append(w.ps, e) \in Seq(NodeEntry) /\ Len(Append(w.ps, e)) = Len(w.ps) + 1
    BY <1>5, <1>6, PushFacts
  <2>3. /\ OnTop(Append(w.ps, e))
        /\ Entries(Append(w.ps, e)) = Entries(w.ps) \union {e}
    <3>1. \A x \in Entries(w.ps) : x.node # e.node
      BY <1>5, <1>7
    <3> QED
      BY <1>5, <1>6, <2>1, <3>1, PushTop
  <2> QED
    BY <1>3, <2>2, <2>3
<1>10. w1.sp \in SpanSet
  BY <1>3, <1>4, <1>6, <1>8 DEF SpanSet
<1>11. WalkFits(w1)
  <2>1. w1 \in WalkSet
    BY <1>2, <1>3, <1>6, <1>9, <1>10 DEF WalkSet
  <2>2. Len(w1.ps) <= OTEL_PLANSPANS_STACK_MAX
    BY <1>6, <1>9, NodeSpansAssumption
  <2> QED
    BY <1>3, <1>9, <2>1, <2>2 DEF WalkFits, StartInv
<1>12. NodeInv(Entries(w1.ps), Entries(w1.sw), Entries(w1.fd), w1.sp, w1.so, qs)
  <2>1. NodeInv(Entries(w.ps), Entries(w.sw), Entries(w.fd), w.sp, w.so, qs)
    BY DEF StartInv
  <2>2. NodeInv(Entries(w.ps) \union {e}, Entries(w.sw), Entries(w.fd),
                [w.sp EXCEPT ![e.node] = parent], w.so, qs)
    <3>1. /\ LiveIn(qs, e.node) /\ ~qs[e.node[1]].moved
          /\ e.subxact_level = qs[e.node[1]].lev /\ w.sp[e.node] = NoSpan
          /\ qs[e.node[1]].plan[e.node[2]].kind = "span"
      BY <1>4, <1>5, <1>7
    <3>2. MayParent(parent, e.node, w.sp, qs)
      BY <1>5, <1>8
    <3> QED
      BY <1>4, <1>5, <1>6, <1>8, <2>1, <3>1, <3>2, SpanOpens
  <2> QED
    BY <1>3, <1>5, <1>9, <2>2
<1>13. /\ Upto(Entries(w1.ps), q, i + 1) /\ Upto(Entries(w1.sw), q, i + 1)
       /\ Upto(Entries(w1.fd), q, i + 1)
  <2>1. /\ OfNodes(Entries(w.ps)) /\ OfNodes(Entries(w.sw))
        /\ OfNodes(Entries(w.fd))
    BY <1>6, NodeEntryFacts DEF OfNodes
  <2>2. Upto(Entries(w.ps) \union {e}, q, i + 1)
    BY <1>5, <2>1, UptoNext DEF StartInv
  <2> QED
    BY <1>3, <1>9, <2>1, <2>2, UptoNext DEF StartInv
<1>14. StartInv(w1, q, i + 1, qs)
  BY <1>3, <1>11, <1>12, <1>13 DEF StartInv
<1> QED
  BY <1>1, <1>14

LEMMA NodeStarts ==
    ASSUME NEW w, NEW qs, NEW q, NEW plan, NEW i \in Nat,
           StartInv(w, q, i, qs), Fresh(qs, q, plan), i + 1 \in 1..Len(plan),
           NEW G, NEW stmt
    PROVE  StartInv(StartNode(w, plan, <<q, i + 1>>, stmt, G),
                    q, i + 1, qs)
<1> DEFINE n == <<q, i + 1>>
           w1 == planspans_node_begin(w, plan, n, G)
           parent == planspans_parent(w, plan, n)
<1>1. n[2] = i + 1
  OBVIOUS
<1>2. StartInv(w1, q, i + 1, qs)
  <2>1. CASE plan[i + 1].kind = "sort" /\ Len(w.sw) < OTEL_PLANSPANS_STACK_MAX
    BY <2>1, SortWraps
  <2>2. CASE /\ plan[i + 1].kind = "span" /\ Len(w.ps) < OTEL_PLANSPANS_STACK_MAX
             /\ n \in G /\ Startable(w, parent)
    BY <2>2, SpanBegins
  <2>3. CASE /\ ~(plan[i + 1].kind = "sort"
                  /\ Len(w.sw) < OTEL_PLANSPANS_STACK_MAX)
             /\ ~(/\ plan[i + 1].kind = "span"
                  /\ Len(w.ps) < OTEL_PLANSPANS_STACK_MAX
                  /\ n \in G /\ Startable(w, parent))
    <3>1. w1 = w
      BY <1>1, <2>3, Zenon DEF planspans_node_begin
    <3> QED
      BY <3>1, StepsOver
  <2> QED
    BY <2>1, <2>2, <2>3
<1>3. CASE plan[i + 1].kind = "fdw" /\ (CORE_HOOKS \/ stmt # "none")
  <2>1. StartNode(w, plan, n, stmt, G) = otel_fdw_scan_begin(w, n, stmt, G)
    BY <1>1, <1>3 DEF StartNode
  <2> QED
    BY <1>3, <2>1, FdwBegins
<1>4. CASE plan[i + 1].kind # "fdw" /\ stmt # "none" /\ child_spans
  <2>1. StartNode(w, plan, n, stmt, G) = w1
    BY <1>1, <1>4 DEF StartNode
  <2> QED
    BY <1>2, <2>1
<1>5. CASE /\ ~(plan[i + 1].kind = "fdw" /\ (CORE_HOOKS \/ stmt # "none"))
           /\ ~(plan[i + 1].kind # "fdw" /\ stmt # "none" /\ child_spans)
  <2>1. StartNode(w, plan, n, stmt, G) = w
    BY <1>1, <1>5 DEF StartNode
  <2> QED
    BY <2>1, StepsOver
<1> QED
  BY <1>3, <1>4, <1>5

(* The walk's recursive function exists, so that it is what its definition *)
(* says.                                                                   *)
StartEqn(q, plan, stmt, G, n, F) ==
    F = [i \in 0..n |-> IF i = 0 THEN Walk
                        ELSE StartNode(F[i - 1], plan, <<q, i>>, stmt, G)]

LEMMA StartExists ==
    ASSUME NEW q, NEW plan, NEW stmt, NEW G, NEW n \in Nat
    PROVE  \E F : StartEqn(q, plan, stmt, G, n, F)
<1> DEFINE Good == {m \in Nat : \E F : StartEqn(q, plan, stmt, G, m, F)}
<1>1. 0 \in Good
  <2> DEFINE F == [i \in 0..0 |-> Walk]
  <2>1. StartEqn(q, plan, stmt, G, 0, F)
    BY DEF StartEqn
  <2> QED
    BY <2>1
<1>2. ASSUME NEW m \in Nat, m \in Good
      PROVE  m + 1 \in Good
  <2>1. PICK F : StartEqn(q, plan, stmt, G, m, F)
    BY <1>2
  <2> DEFINE next == StartNode(F[m], plan, <<q, m + 1>>, stmt, G)
             A == [i \in 0..(m + 1) |-> IF i = m + 1 THEN next ELSE F[i]]
             B == [i \in 0..(m + 1) |->
                     IF i = 0 THEN Walk
                     ELSE StartNode(A[i - 1], plan, <<q, i>>, stmt, G)]
  <2>2. \A i \in 0..m :
          F[i] = IF i = 0 THEN Walk
                 ELSE StartNode(F[i - 1], plan, <<q, i>>, stmt, G)
    BY <2>1 DEF StartEqn
  <2>3. \A i \in 0..(m + 1) :
          /\ A[i] = IF i = m + 1 THEN next ELSE F[i]
          /\ B[i] = IF i = 0 THEN Walk
                    ELSE StartNode(A[i - 1], plan, <<q, i>>, stmt, G)
    OBVIOUS
  <2>4. next = StartNode(F[m], plan, <<q, m + 1>>, stmt, G)
    OBVIOUS
  <2> HIDE DEF A, B, next
  <2>5. \A i \in 0..(m + 1) : A[i] = B[i]
    <3> SUFFICES ASSUME NEW i \in 0..(m + 1)
                 PROVE  A[i] = B[i]
      OBVIOUS
    <3>1. CASE i = 0
      <4>1. 0 # m + 1 /\ 0 \in 0..m /\ 0 \in 0..(m + 1)
        OBVIOUS
      <4> QED
        BY <2>2, <2>3, <3>1, <4>1
    <3>2. CASE i # 0
      <4>1. i - 1 \in 0..(m + 1) /\ i - 1 # m + 1
        BY <3>2
      <4>2. A[i - 1] = F[i - 1]
        BY <2>3, <4>1
      <4>3. A[i] = StartNode(F[i - 1], plan, <<q, i>>, stmt, G)
        <5>1. CASE i = m + 1
          <6>1. i - 1 = m
            BY <5>1
          <6> QED
            BY <2>3, <2>4, <5>1, <6>1
        <5>2. CASE i # m + 1
          <6>1. i \in 0..m
            BY <5>2
          <6> QED
            BY <2>2, <2>3, <3>2, <5>2, <6>1
        <5> QED
          BY <5>1, <5>2
      <4> QED
        BY <2>3, <3>2, <4>2, <4>3
    <3> QED
      BY <3>1, <3>2
  <2>6. A = B
    BY <2>5 DEF A, B
  <2>7. StartEqn(q, plan, stmt, G, m + 1, A)
    BY <2>6 DEF StartEqn, A, B
  <2> QED
    BY <2>7
<1>3. Nat \subseteq Good
  BY <1>1, <1>2, SetInduction
<1> QED
  BY <1>3

LEMMA StartWalkKeeps ==
    ASSUME NEW qs, NEW q, NEW plan, Fresh(qs, q, plan),
           StartInv(Walk, q, 0, qs), NEW stmt, NEW G
    PROVE  StartInv(StartWalk(q, plan, stmt, G), q, Len(plan), qs)
<1>0. Len(plan) \in Nat
  BY NodeFacts DEF Fresh
<1> DEFINE F == CHOOSE F : StartEqn(q, plan, stmt, G, Len(plan), F)
<1>1. StartEqn(q, plan, stmt, G, Len(plan), F)
  BY <1>0, StartExists
<1>2. StartWalk(q, plan, stmt, G) = F[Len(plan)]
  BY DEF StartWalk, StartEqn
<1> HIDE DEF F
<1>3. \A i \in 0..Len(plan) :
        F[i] = IF i = 0 THEN Walk
               ELSE StartNode(F[i - 1], plan, <<q, i>>, stmt, G)
  BY <1>1 DEF StartEqn
<1> DEFINE Good == {i \in Nat : i <= Len(plan) => StartInv(F[i], q, i, qs)}
<1>4. 0 \in Good
  <2>1. 0 \in 0..Len(plan)
    BY <1>0
  <2> QED
    BY <1>3, <2>1
<1>5. ASSUME NEW i \in Nat, i \in Good
      PROVE  i + 1 \in Good
  <2> SUFFICES ASSUME i + 1 <= Len(plan)
               PROVE  StartInv(F[i + 1], q, i + 1, qs)
    OBVIOUS
  <2>1. StartInv(F[i], q, i, qs) /\ i + 1 \in 1..Len(plan)
    BY <1>0, <1>5
  <2>2. F[i + 1] = StartNode(F[i], plan, <<q, i + 1>>, stmt, G)
    <3>1. i + 1 \in 0..Len(plan) /\ i + 1 # 0 /\ (i + 1) - 1 = i
      BY <1>0
    <3> QED
      BY <1>3, <3>1
  <2> QED
    BY <2>1, <2>2, NodeStarts
<1>6. Nat \subseteq Good
  BY <1>4, <1>5, SetInduction
<1>7. Len(plan) \in Good
  BY <1>0, <1>6
<1> QED
  BY <1>0, <1>2, <1>7

-----------------------------------------------------------------------------
(* The walk of ExecutorEnd.                                                *)

(* Without the entries of q's first i nodes.                               *)
Past(E, q, i) == {e \in E : ~(e.node[1] = q /\ e.node[2] <= i)}

EndEqn(q, plan, G, n, F) ==
    F = [i \in 0..n |-> IF i = 0 THEN Walk ELSE EndNode(F[i - 1], plan, <<q, i>>, G)]

LEMMA EndExists ==
    ASSUME NEW q, NEW plan, NEW G, NEW n \in Nat
    PROVE  \E F : EndEqn(q, plan, G, n, F)
<1> DEFINE Good == {m \in Nat : \E F : EndEqn(q, plan, G, m, F)}
<1>1. 0 \in Good
  <2> DEFINE F == [i \in 0..0 |-> Walk]
  <2>1. EndEqn(q, plan, G, 0, F)
    BY DEF EndEqn
  <2> QED
    BY <2>1
<1>2. ASSUME NEW m \in Nat, m \in Good
      PROVE  m + 1 \in Good
  <2>1. PICK F : EndEqn(q, plan, G, m, F)
    BY <1>2
  <2> DEFINE next == EndNode(F[m], plan, <<q, m + 1>>, G)
             A == [i \in 0..(m + 1) |-> IF i = m + 1 THEN next ELSE F[i]]
             B == [i \in 0..(m + 1) |->
                     IF i = 0 THEN Walk ELSE EndNode(A[i - 1], plan, <<q, i>>, G)]
  <2>2. \A i \in 0..m :
          F[i] = IF i = 0 THEN Walk ELSE EndNode(F[i - 1], plan, <<q, i>>, G)
    BY <2>1 DEF EndEqn
  <2>3. \A i \in 0..(m + 1) :
          /\ A[i] = IF i = m + 1 THEN next ELSE F[i]
          /\ B[i] = IF i = 0 THEN Walk ELSE EndNode(A[i - 1], plan, <<q, i>>, G)
    OBVIOUS
  <2>4. next = EndNode(F[m], plan, <<q, m + 1>>, G)
    OBVIOUS
  <2> HIDE DEF A, B, next
  <2>5. \A i \in 0..(m + 1) : A[i] = B[i]
    <3> SUFFICES ASSUME NEW i \in 0..(m + 1)
                 PROVE  A[i] = B[i]
      OBVIOUS
    <3>1. CASE i = 0
      <4>1. 0 # m + 1 /\ 0 \in 0..m /\ 0 \in 0..(m + 1)
        OBVIOUS
      <4> QED
        BY <2>2, <2>3, <3>1, <4>1
    <3>2. CASE i # 0
      <4>1. i - 1 \in 0..(m + 1) /\ i - 1 # m + 1
        BY <3>2
      <4>2. A[i - 1] = F[i - 1]
        BY <2>3, <4>1
      <4>3. A[i] = EndNode(F[i - 1], plan, <<q, i>>, G)
        <5>1. CASE i = m + 1
          <6>1. i - 1 = m
            BY <5>1
          <6> QED
            BY <2>3, <2>4, <5>1, <6>1
        <5>2. CASE i # m + 1
          <6>1. i \in 0..m
            BY <5>2
          <6> QED
            BY <2>2, <2>3, <3>2, <5>2, <6>1
        <5> QED
          BY <5>1, <5>2
      <4> QED
        BY <2>3, <3>2, <4>2, <4>3
    <3> QED
      BY <3>1, <3>2
  <2>6. A = B
    BY <2>5 DEF A, B
  <2>7. EndEqn(q, plan, G, m + 1, A)
    BY <2>6 DEF EndEqn, A, B
  <2> QED
    BY <2>7
<1>3. Nat \subseteq Good
  BY <1>1, <1>2, SetInduction
<1> QED
  BY <1>3

NoneDead(ps, sw, q) ==
    \A e \in Items(ps) \union Items(sw) : e.node[1] = q => ~e.dead

P0 == Entries(planspans_stack)
S0 == Entries(sortwrap_stack)
F0 == Entries(fdw_scan_stack)

(* What the Sorts among the first i nodes of q get: those whose first call *)
(* returned, if otel_span_start grants it.                                 *)
Due(n, G) == (\E e \in S0 : e.node = n /\ e.ended) /\ n \in G

Measured(mi, q, i, G) ==
    /\ \A m \in mi : /\ m.parent \in {Stmt, Left}
                     /\ m.node[1] = q /\ m.node[2] <= i
    /\ (child_spans /\ NoneDead(planspans_stack, sortwrap_stack, q)) =>
         \A j \in 1..i : (\E m \in mi : m.node = <<q, j>>) <=> Due(<<q, j>>, G)

(* The walk has ended what the first i nodes of q left, and has given      *)
(* spans to the Sorts among them that are due one.                         *)
EndInv(w, q, i, G) ==
    /\ WalkFits(w)
    /\ Entries(w.fd) = Past(F0, q, i)
    /\ Entries(w.ps) = IF child_spans THEN Past(P0, q, i) ELSE P0
    /\ Entries(w.sw) = IF child_spans THEN Past(S0, q, i) ELSE S0
    /\ \A n \in Nodes : n[1] # q => w.sp[n] = spans[n]
    /\ w.so = sorts
    /\ NoneDead(planspans_stack, sortwrap_stack, q) => NoneDead(w.ps, w.sw, q)
    /\ Measured(w.mi, q, i, G)

LEMMA PastNext ==
    ASSUME NEW E, OfNodes(E), NEW q, NEW i \in Nat
    PROVE  /\ Past(E, q, i + 1) = Others(Past(E, q, i), <<q, i + 1>>)
           /\ (\A e \in E : e.node # <<q, i + 1>>) =>
                Past(E, q, i + 1) = Past(E, q, i)
<1>1. \A e \in E : /\ e.node[2] \in Nat
                   /\ e.node = <<q, i + 1>> <=>
                        e.node[1] = q /\ e.node[2] = i + 1
  BY NodeFacts DEF OfNodes
<1>2. \A e \in E :
        (e.node[1] = q /\ e.node[2] <= i + 1)
        <=> \/ e.node[1] = q /\ e.node[2] <= i
            \/ e.node = <<q, i + 1>>
  BY <1>1
<1> QED
  BY <1>2, Zenon DEF Past, Others

(* The query that ends.                                                    *)
Ending(q, plan) ==
    /\ NodeSpansInv
    /\ q \in Queries /\ plan = queries[q].plan /\ plan \in Plans[q]
    /\ queries[q].lev > 0 /\ ~queries[q].failed

LEMMA EndingFacts ==
    ASSUME NEW q, NEW plan, Ending(q, plan)
    PROVE  /\ OfNodes(P0) /\ OfNodes(S0) /\ OfNodes(F0)
           /\ P0 \in SUBSET NodeEntry /\ S0 \in SUBSET SortEntry
           /\ F0 \in SUBSET NodeEntry
           /\ WellFormed(plan) /\ Len(plan) \in Nat
           /\ \A j \in 1..Len(plan) :
                /\ <<q, j>> \in Nodes
                /\ plan[j].kind # "span" => \A e \in P0 : e.node # <<q, j>>
                /\ plan[j].kind # "sort" => \A e \in S0 : e.node # <<q, j>>
                /\ plan[j].kind # "fdw" => \A e \in F0 : e.node # <<q, j>>
           /\ \A e \in P0 \union S0 \union F0 :
                e.node[1] = q => e.node[2] \in 1..Len(plan)
<1>1. /\ planspans_stack \in Seq(NodeEntry) /\ sortwrap_stack \in Seq(SortEntry)
      /\ fdw_scan_stack \in Seq(NodeEntry)
  BY DEF Ending, NodeSpansInv, TypeOK
<1>2. /\ P0 \in SUBSET NodeEntry /\ S0 \in SUBSET SortEntry
      /\ F0 \in SUBSET NodeEntry
  BY <1>1, EntryFacts DEF P0, S0, F0
<1>3. OfNodes(P0) /\ OfNodes(S0) /\ OfNodes(F0)
  BY <1>2, NodeEntryFacts DEF OfNodes
<1>4. WellFormed(plan) /\ Len(plan) \in Nat
  BY PlansWellFormed, WellFormedFacts DEF Ending
<1>5. Fits(P0, "span", queries) /\ Fits(S0, "sort", queries)
      /\ Fits(F0, "fdw", queries)
  BY DEF Ending, NodeSpansInv, NodesInv, NodeInv, P0, S0, F0
<1>6. plan = queries[q].plan /\ q \in Queries /\ plan \in Plans[q]
  BY DEF Ending
<1>7. ASSUME NEW j \in 1..Len(plan)
      PROVE  /\ <<q, j>> \in Nodes
             /\ plan[j].kind # "span" => \A e \in P0 : e.node # <<q, j>>
             /\ plan[j].kind # "sort" => \A e \in S0 : e.node # <<q, j>>
             /\ plan[j].kind # "fdw" => \A e \in F0 : e.node # <<q, j>>
  <2>1. <<q, j>> \in Nodes
    BY <1>6, NodeFacts
  <2> QED
    BY <1>5, <1>6, <2>1 DEF Fits
<1>8. \A e \in P0 \union S0 \union F0 :
        e.node[1] = q => e.node[2] \in 1..Len(plan)
  BY <1>5, <1>6 DEF Fits, LiveIn
<1> QED
  BY <1>2, <1>3, <1>4, <1>7, <1>8

(* Nothing is added to it, and the next node was not a Sort's.             *)
LEMMA MeasuredSkips ==
    ASSUME NEW q, NEW G, NEW w, w.mi \in SUBSET [node : Nodes, parent : Parent],
           NEW i \in Nat, EndInv(w, q, i, G),
           child_spans => \A e \in S0 : e.node # <<q, i + 1>>
    PROVE  Measured(w.mi, q, i + 1, G)
<1>1. \A m \in w.mi : /\ m.parent \in {Stmt, Left} /\ m.node[1] = q
                      /\ m.node[2] <= i /\ m.node[2] \in Nat
  BY NodeFacts DEF EndInv, Measured
<1>2. \A m \in w.mi : m.node[2] <= i + 1 /\ m.node # <<q, i + 1>>
  BY <1>1
<1>3. ASSUME child_spans, NoneDead(planspans_stack, sortwrap_stack, q)
      PROVE  \A j \in 1..(i + 1) :
               (\E m \in w.mi : m.node = <<q, j>>) <=> Due(<<q, j>>, G)
  <2>1. \A j \in 1..i : (\E m \in w.mi : m.node = <<q, j>>)
                        <=> Due(<<q, j>>, G)
    BY <1>3 DEF EndInv, Measured
  <2>2. \A j \in 1..(i + 1) : j = i + 1 \/ j \in 1..i
    OBVIOUS
  <2>3. \A e \in S0 : e.node # <<q, i + 1>>
    BY <1>3
  <2> DEFINE got(j) == \E m \in w.mi : m.node = <<q, j>>
             due(j) == Due(<<q, j>>, G)
  <2>4. ~got(i + 1) /\ ~due(i + 1)
    BY <1>2, <2>3 DEF Due
  <2>5. \A j \in 1..i : got(j) <=> due(j)
    BY <2>1
  <2> HIDE DEF got, due
  <2>6. \A j \in 1..(i + 1) : got(j) <=> due(j)
    BY <2>2, <2>4, <2>5
  <2> QED
    BY <2>6 DEF got, due
<1> QED
  BY <1>1, <1>2, <1>3 DEF Measured

(* A node that nothing is done about, and that has no entries of the kinds *)
(* the walk looks after.                                                   *)
LEMMA EndSkips ==
    ASSUME NEW q, NEW plan, Ending(q, plan), NEW w, NEW G, NEW i \in Nat,
           EndInv(w, q, i, G), i + 1 \in 1..Len(plan),
           \A e \in F0 : e.node # <<q, i + 1>>,
           child_spans => \A e \in P0 \union S0 : e.node # <<q, i + 1>>
    PROVE  EndInv(w, q, i + 1, G)
<1>1. /\ OfNodes(P0) /\ OfNodes(S0) /\ OfNodes(F0)
  BY EndingFacts
<1>2. /\ Past(F0, q, i + 1) = Past(F0, q, i)
      /\ child_spans => /\ Past(P0, q, i + 1) = Past(P0, q, i)
                        /\ Past(S0, q, i + 1) = Past(S0, q, i)
  BY <1>1, PastNext
<1>3. Measured(w.mi, q, i + 1, G)
  <2>1. w.mi \in SUBSET [node : Nodes, parent : Parent]
    BY WalkFields DEF EndInv, WalkFits
  <2> QED
    BY <2>1, MeasuredSkips
<1> QED
  BY <1>2, <1>3 DEF EndInv

LEMMA FdwEnds ==
    ASSUME NEW q, NEW plan, Ending(q, plan), NEW w, NEW G, NEW i \in Nat,
           EndInv(w, q, i, G), i + 1 \in 1..Len(plan), plan[i + 1].kind = "fdw",
           NEW n, n = <<q, i + 1>>
    PROVE  EndInv(otel_fdw_scan_end(w, n), q, i + 1, G)
<1> DEFINE w1 == otel_fdw_scan_end(w, n)
<1>1. /\ w \in WalkSet /\ OnTop(w.fd)
      /\ w.ps \in Seq(NodeEntry) /\ w.sw \in Seq(SortEntry)
      /\ w.fd \in Seq(NodeEntry) /\ w.sp \in SpanSet
      /\ w.so \in [Nodes -> SortStatus]
      /\ w.mi \in SUBSET [node : Nodes, parent : Parent]
  BY WalkFields DEF EndInv, WalkFits
<1>2. /\ OfNodes(P0) /\ OfNodes(S0) /\ OfNodes(F0) /\ n \in Nodes
      /\ n[1] = q /\ \A e \in P0 \union S0 : e.node # n
  BY EndingFacts
<1>3. CASE Find(w.fd, n) = 0
  <2>1. w1 = w
    BY <1>3 DEF otel_fdw_scan_end
  <2>2. \A e \in Entries(w.fd) : e.node # n
    <3>1. \A k \in 1..Len(w.fd) : w.fd[k].node # n
      BY <1>1, <1>3, FindFacts
    <3> QED
      BY <3>1 DEF Entries, Items
  <2>3. \A e \in F0 : e.node # n
    <3>1. \A e \in F0 : e.node = n => e \in Past(F0, q, i)
      BY DEF Past
    <3> QED
      BY <2>2, <3>1 DEF EndInv
  <2> QED
    BY <1>2, <2>1, <2>3, EndSkips
<1>4. CASE Find(w.fd, n) # 0
  <2> DEFINE k == Find(w.fd, n)
             a == Ended(w.sp, w.fd[k])
             b == Without(w.fd, k)
  <2>1. w1 = [ps |-> w.ps, sw |-> w.sw, fd |-> b, sp |-> a, so |-> w.so,
              mi |-> w.mi]
    <3>1. w = [ps |-> w.ps, sw |-> w.sw, fd |-> w.fd, sp |-> w.sp,
               so |-> w.so, mi |-> w.mi]
      BY <1>1 DEF WalkSet
    <3>2. w1 = [w EXCEPT !.sp = a, !.fd = b]
      BY <1>4 DEF otel_fdw_scan_end
    <3> HIDE DEF a, b, w1
    <3> QED
      BY <3>1, <3>2
  <2>2. k \in 1..Len(w.fd) /\ w.fd[k].node = n
    BY <1>1, <1>4, FindFacts
  <2>3. /\ b \in Seq(NodeEntry) /\ Len(b) <= Len(w.fd) /\ OnTop(b)
        /\ Entries(b) = Others(Entries(w.fd), n)
    <3>1. TakenOff(NodeEntry, w.fd, n, b)
      BY <1>1, <1>4, RemoveTop
    <3> QED
      BY <3>1, Zenon DEF TakenOff
  <2>4. /\ a \in SpanSet /\ n[1] = q
        /\ \A m \in Nodes : m[1] # q => a[m] = w.sp[m]
    BY <1>1, <1>2, <2>2 DEF Ended, SpanSet
  <2> HIDE DEF a, b, k, w1
  <2>5. /\ w1.ps = w.ps /\ w1.sw = w.sw /\ w1.fd = b /\ w1.sp = a
        /\ w1.so = w.so /\ w1.mi = w.mi
    BY <2>1
  <2>6. WalkFits(w1)
    <3>1. w1 \in WalkSet
      BY <1>1, <2>1, <2>3, <2>4 DEF WalkSet
    <3>2. Len(w1.fd) <= OTEL_FDW_SCAN_STACK_MAX
      <4>1. Len(w.fd) <= OTEL_FDW_SCAN_STACK_MAX /\ Len(w.fd) \in Nat
        BY <1>1 DEF EndInv, WalkFits
      <4> QED
        BY <2>3, <2>5, <4>1, NodeSpansAssumption
    <3> QED
      BY <2>3, <2>5, <3>1, <3>2 DEF EndInv, WalkFits
  <2>7. Entries(w1.fd) = Past(F0, q, i + 1)
    <3>1. Past(F0, q, i + 1) = Others(Past(F0, q, i), n)
      BY <1>2, PastNext
    <3>2. Entries(w.fd) = Past(F0, q, i)
      BY DEF EndInv
    <3> QED
      BY <2>3, <2>5, <3>1, <3>2
  <2>8. /\ Past(P0, q, i + 1) = Past(P0, q, i)
        /\ Past(S0, q, i + 1) = Past(S0, q, i)
    <3>1. /\ \A e \in P0 : e.node # <<q, i + 1>>
          /\ \A e \in S0 : e.node # <<q, i + 1>>
      BY <1>2
    <3> QED
      BY <1>2, <3>1, PastNext
  <2>9. Measured(w.mi, q, i + 1, G)
    BY <1>1, <1>2, MeasuredSkips
  <2>10. EndInv(w1, q, i + 1, G)
    BY <2>4, <2>5, <2>6, <2>7, <2>8, <2>9 DEF EndInv
  <2> QED
    BY <2>10 DEF w1
<1> QED
  BY <1>3, <1>4

LEMMA SpanEnds ==
    ASSUME NEW q, NEW plan, Ending(q, plan), NEW w, NEW G, NEW i \in Nat,
           EndInv(w, q, i, G), i + 1 \in 1..Len(plan), plan[i + 1].kind = "span",
           NEW n, n = <<q, i + 1>>, child_spans
    PROVE  EndInv(planspans_node_end(w, plan, n, G), q, i + 1, G)
<1> DEFINE w1 == planspans_node_end(w, plan, n, G)
<1>1. /\ w \in WalkSet /\ OnTop(w.ps)
      /\ w.ps \in Seq(NodeEntry) /\ w.sw \in Seq(SortEntry)
      /\ w.fd \in Seq(NodeEntry) /\ w.sp \in SpanSet
      /\ w.so \in [Nodes -> SortStatus]
      /\ w.mi \in SUBSET [node : Nodes, parent : Parent]
  BY WalkFields DEF EndInv, WalkFits
<1>2. /\ OfNodes(P0) /\ OfNodes(S0) /\ OfNodes(F0) /\ n \in Nodes
      /\ n[1] = q /\ n[2] = i + 1
      /\ (\A e \in F0 : e.node # <<q, i + 1>>)
      /\ (\A e \in S0 : e.node # <<q, i + 1>>)
  BY EndingFacts
<1>3. CASE Find(w.ps, n) = 0
  <2>1. w1 = w
    BY <1>2, <1>3 DEF planspans_node_end
  <2>2. \A e \in Entries(w.ps) : e.node # n
    <3>1. \A k \in 1..Len(w.ps) : w.ps[k].node # n
      BY <1>1, <1>3, FindFacts
    <3> QED
      BY <3>1 DEF Entries, Items
  <2>3. \A e \in P0 : e.node # n
    <3>1. \A e \in P0 : e.node = n => e \in Past(P0, q, i)
      BY DEF Past
    <3> QED
      BY <2>2, <3>1 DEF EndInv
  <2> QED
    BY <1>2, <2>1, <2>3, EndSkips
<1>4. CASE Find(w.ps, n) # 0
  <2> DEFINE k == Find(w.ps, n)
             a == Ended(w.sp, w.ps[k])
             b == Without(w.ps, k)
  <2>1. w1 = [ps |-> b, sw |-> w.sw, fd |-> w.fd, sp |-> a, so |-> w.so,
              mi |-> w.mi]
    <3>1. w = [ps |-> w.ps, sw |-> w.sw, fd |-> w.fd, sp |-> w.sp,
               so |-> w.so, mi |-> w.mi]
      BY <1>1 DEF WalkSet
    <3>2. w1 = [w EXCEPT !.sp = a, !.ps = b]
      BY <1>2, <1>4 DEF planspans_node_end
    <3> HIDE DEF a, b, w1
    <3> QED
      BY <3>1, <3>2
  <2>2. k \in 1..Len(w.ps) /\ w.ps[k].node = n
    BY <1>1, <1>4, FindFacts
  <2>3. /\ b \in Seq(NodeEntry) /\ Len(b) <= Len(w.ps) /\ OnTop(b)
        /\ Entries(b) = Others(Entries(w.ps), n)
        /\ \A e \in Items(b) : e \in Items(w.ps)
    <3>1. TakenOff(NodeEntry, w.ps, n, b)
      BY <1>1, <1>4, RemoveTop
    <3> QED
      BY <3>1, Zenon DEF TakenOff
  <2>4. /\ a \in SpanSet
        /\ \A m \in Nodes : m[1] # q => a[m] = w.sp[m]
    BY <1>1, <1>2, <2>2 DEF Ended, SpanSet
  <2> HIDE DEF a, b, k, w1
  <2>5. /\ w1.ps = b /\ w1.sw = w.sw /\ w1.fd = w.fd /\ w1.sp = a
        /\ w1.so = w.so /\ w1.mi = w.mi
    BY <2>1
  <2>6. WalkFits(w1)
    <3>1. w1 \in WalkSet
      BY <1>1, <2>1, <2>3, <2>4 DEF WalkSet
    <3>2. Len(w1.ps) <= OTEL_PLANSPANS_STACK_MAX
      <4>1. Len(w.ps) <= OTEL_PLANSPANS_STACK_MAX /\ Len(w.ps) \in Nat
        BY <1>1 DEF EndInv, WalkFits
      <4> QED
        BY <2>3, <2>5, <4>1, NodeSpansAssumption
    <3> QED
      BY <2>3, <2>5, <3>1, <3>2 DEF EndInv, WalkFits
  <2>7. Entries(w1.ps) = Past(P0, q, i + 1)
    <3>1. Past(P0, q, i + 1) = Others(Past(P0, q, i), n)
      BY <1>2, PastNext
    <3>2. Entries(w.ps) = Past(P0, q, i)
      BY DEF EndInv
    <3> QED
      BY <2>3, <2>5, <3>1, <3>2
  <2>8. /\ Past(F0, q, i + 1) = Past(F0, q, i)
        /\ Past(S0, q, i + 1) = Past(S0, q, i)
    BY <1>2, PastNext
  <2>9. NoneDead(planspans_stack, sortwrap_stack, q) => NoneDead(w1.ps, w1.sw, q)
    <3>1. NoneDead(planspans_stack, sortwrap_stack, q) => NoneDead(w.ps, w.sw, q)
      BY DEF EndInv
    <3> QED
      BY <2>3, <2>5, <3>1 DEF NoneDead
  <2>10. Measured(w.mi, q, i + 1, G)
    BY <1>1, <1>2, MeasuredSkips
  <2>11. EndInv(w1, q, i + 1, G)
    BY <2>4, <2>5, <2>6, <2>7, <2>8, <2>9, <2>10 DEF EndInv
  <2> QED
    BY <2>11 DEF w1
<1> QED
  BY <1>3, <1>4

(* When a node ends, its ancestors' entries are gone: what is found of one *)
(* is dead, and a span that starts under it is one that was left open.     *)
LEMMA AncestorsAreGone ==
    ASSUME NEW q, NEW plan, Ending(q, plan), NEW w, NEW G, NEW i \in Nat,
           EndInv(w, q, i, G), i + 1 \in 1..Len(plan), child_spans
    PROVE  LET parent == planspans_parent(w, plan, <<q, i + 1>>)
           IN /\ Startable(w, parent) => parent \in {Stmt, Left}
              /\ NoneDead(w.ps, w.sw, q) => parent = Stmt
<1> DEFINE parent == planspans_parent(w, plan, <<q, i + 1>>)
<1>1. w.ps \in Seq(NodeEntry) /\ Entries(w.ps) = Past(P0, q, i)
  BY WalkFields DEF EndInv, WalkFits
<1>2. WellFormed(plan) /\ q \in Queries /\ OfNodes(P0)
  BY EndingFacts DEF Ending
<1>3. \A x \in Items(w.ps) :
        (x.node[1] = q /\ x.node[2] \in Ancestors(plan, i + 1)) => x.dead
  <2> SUFFICES ASSUME NEW x \in Items(w.ps), x.node[1] = q, ~x.dead,
                      x.node[2] \in Ancestors(plan, i + 1)
               PROVE  FALSE
    OBVIOUS
  <2>1. x.node[2] \in 1..i
    <3>1. Ancestors(plan, i + 1) \subseteq 1..((i + 1) - 1)
      BY <1>2, AncestorsBefore
    <3> QED
      BY <3>1
  <2>2. x \in Past(P0, q, i)
    BY <1>1 DEF Entries
  <2> QED
    BY <2>1, <2>2 DEF Past
<1>4. CASE parent = Stmt
  BY <1>4
<1>5. CASE parent # Stmt
  <2>1. PICK x \in Items(w.ps) :
          /\ parent = ref(x) /\ x.node[1] = q
          /\ x.node[2] \in Ancestors(plan, i + 1)
    BY <1>1, <1>2, <1>5, ParentFound
  <2>2. x.dead /\ parent \in {Left, NoSpan}
    BY <1>3, <2>1 DEF ref
  <2> HIDE DEF parent
  <2>3. Startable(w, parent) => parent = Left
    BY <2>2, NodeFacts DEF Startable, Parent
  <2>4. ~NoneDead(w.ps, w.sw, q)
    BY <2>1, <2>2 DEF NoneDead
  <2> QED
    BY <2>3, <2>4 DEF parent
<1> QED
  BY <1>4, <1>5

LEMMA SortEnds ==
    ASSUME NEW q, NEW plan, Ending(q, plan), NEW w, NEW G, NEW i \in Nat,
           EndInv(w, q, i, G), i + 1 \in 1..Len(plan), plan[i + 1].kind = "sort",
           NEW n, n = <<q, i + 1>>, child_spans
    PROVE  EndInv(planspans_sort_span(w, plan, n, G), q, i + 1, G)
<1> DEFINE w1 == planspans_sort_span(w, plan, n, G)
           parent == planspans_parent(w, plan, n)
<1>1. /\ w \in WalkSet /\ OnTop(w.sw)
      /\ w.ps \in Seq(NodeEntry) /\ w.sw \in Seq(SortEntry)
      /\ w.fd \in Seq(NodeEntry) /\ w.sp \in SpanSet
      /\ w.so \in [Nodes -> SortStatus]
      /\ w.mi \in SUBSET [node : Nodes, parent : Parent]
  BY WalkFields DEF EndInv, WalkFits
<1>2. /\ OfNodes(P0) /\ OfNodes(S0) /\ OfNodes(F0) /\ n \in Nodes
      /\ n[1] = q /\ n[2] = i + 1
      /\ (\A e \in F0 : e.node # <<q, i + 1>>)
      /\ (\A e \in P0 : e.node # <<q, i + 1>>)
  BY EndingFacts
<1>3. CASE Find(w.sw, n) = 0
  <2>1. w1 = w
    BY <1>3 DEF planspans_sort_span
  <2>2. \A e \in Entries(w.sw) : e.node # n
    <3>1. \A k \in 1..Len(w.sw) : w.sw[k].node # n
      BY <1>1, <1>3, FindFacts
    <3> QED
      BY <3>1 DEF Entries, Items
  <2>3. \A e \in S0 : e.node # n
    <3>1. \A e \in S0 : e.node = n => e \in Past(S0, q, i)
      BY DEF Past
    <3> QED
      BY <2>2, <3>1 DEF EndInv
  <2> QED
    BY <1>2, <2>1, <2>3, EndSkips
<1>4. CASE Find(w.sw, n) # 0
  <2> DEFINE k == Find(w.sw, n)
             b == Without(w.sw, k)
             new == {m \in {[node |-> n, parent |-> parent]} :
                       /\ w.sw[k].ended
                       /\ n \in G /\ Startable(w, parent)}
             c == w.mi \union new
  <2>1. w1 = [ps |-> w.ps, sw |-> b, fd |-> w.fd, sp |-> w.sp, so |-> w.so,
              mi |-> c]
    <3>1. w = [ps |-> w.ps, sw |-> w.sw, fd |-> w.fd, sp |-> w.sp,
               so |-> w.so, mi |-> w.mi]
      BY <1>1 DEF WalkSet
    <3>2. w1 = [w EXCEPT !.sw = b, !.mi = c]
      BY <1>4 DEF planspans_sort_span
    <3> HIDE DEF b, c, w1
    <3> QED
      BY <3>1, <3>2
  <2>2. k \in 1..Len(w.sw) /\ w.sw[k].node = n
    BY <1>1, <1>4, FindFacts
  <2>3. /\ b \in Seq(SortEntry) /\ Len(b) <= Len(w.sw) /\ OnTop(b)
        /\ Entries(b) = Others(Entries(w.sw), n)
        /\ \A e \in Items(b) : e \in Items(w.sw)
    <3>1. TakenOff(SortEntry, w.sw, n, b)
      BY <1>1, <1>4, RemoveTop
    <3> QED
      BY <3>1, Zenon DEF TakenOff
  <2>4. /\ Startable(w, parent) => parent \in {Stmt, Left}
        /\ NoneDead(w.ps, w.sw, q) => parent = Stmt
    BY AncestorsAreGone
  <2>5. /\ \A m \in new : /\ m.node = n /\ m.parent \in {Stmt, Left}
                          /\ m \in [node : Nodes, parent : Parent]
        /\ new # {} <=> /\ w.sw[k].ended
                        /\ n \in G /\ Startable(w, parent)
    <3> DEFINE x == [node |-> n, parent |-> parent]
    <3>1. x.node = n /\ x.parent = parent
      OBVIOUS
    <3>2. parent \in {Stmt, Left} => x \in [node : Nodes, parent : Parent]
      BY <1>2 DEF Parent
    <3>3. new = IF w.sw[k].ended /\ n \in G /\ Startable(w, parent)
                THEN {x} ELSE {}
      OBVIOUS
    <3> HIDE DEF parent, k, new, x
    <3> QED
      BY <2>4, <3>1, <3>2, <3>3
  <2>6. NoneDead(planspans_stack, sortwrap_stack, q) =>
          (new # {} <=> Due(n, G))
    <3> SUFFICES ASSUME NoneDead(planspans_stack, sortwrap_stack, q)
                 PROVE  w.sw[k].ended <=> \E e \in S0 : e.node = n /\ e.ended
      <4>1. NoneDead(planspans_stack, sortwrap_stack, q) => Startable(w, parent)
        BY <2>4 DEF EndInv, Startable
      <4> QED
        BY <2>5, <4>1 DEF Due
    <3>1. NoneDead(w.ps, w.sw, q) /\ Entries(w.sw) = Past(S0, q, i)
      BY DEF EndInv
    <3>2. w.sw[k] \in Items(w.sw) /\ ~w.sw[k].dead
      <4>1. w.sw[k] \in Items(w.sw) /\ w.sw[k].node[1] = q
        BY <1>1, <1>2, <2>2, ItemFacts
      <4> HIDE DEF k
      <4> QED
        BY <3>1, <4>1 DEF NoneDead
    <3>3. w.sw[k] \in S0
      BY <3>1, <3>2 DEF Entries, Past
    <3>4. ASSUME NEW e \in S0, e.node = n
          PROVE  e = w.sw[k]
      <4>1. e \in Entries(w.sw)
        BY <1>2, <3>1, <3>4 DEF Past
      <4>2. w.sw[Find(w.sw, e.node)] = e
        BY <1>1, <4>1, FindLive
      <4> QED
        BY <3>4, <4>2
    <3> HIDE DEF k
    <3> QED
      BY <2>2, <3>3, <3>4
  <2> HIDE DEF b, c, k, w1, new, parent
  <2>7. /\ w1.ps = w.ps /\ w1.sw = b /\ w1.fd = w.fd /\ w1.sp = w.sp
        /\ w1.so = w.so /\ w1.mi = c
    BY <2>1
  <2>8. c \in SUBSET [node : Nodes, parent : Parent]
    BY <1>1, <2>5 DEF c
  <2>9. WalkFits(w1)
    <3>1. w1 \in WalkSet
      BY <1>1, <2>1, <2>3, <2>8 DEF WalkSet
    <3>2. Len(w1.sw) <= OTEL_PLANSPANS_STACK_MAX
      <4>1. Len(w.sw) <= OTEL_PLANSPANS_STACK_MAX /\ Len(w.sw) \in Nat
        BY <1>1 DEF EndInv, WalkFits
      <4> QED
        BY <2>3, <2>7, <4>1, NodeSpansAssumption
    <3> QED
      BY <2>3, <2>7, <3>1, <3>2 DEF EndInv, WalkFits
  <2>10. Entries(w1.sw) = Past(S0, q, i + 1)
    <3>1. Past(S0, q, i + 1) = Others(Past(S0, q, i), n)
      BY <1>2, PastNext
    <3>2. Entries(w.sw) = Past(S0, q, i)
      BY DEF EndInv
    <3> QED
      BY <2>3, <2>7, <3>1, <3>2
  <2>11. /\ Past(F0, q, i + 1) = Past(F0, q, i)
         /\ Past(P0, q, i + 1) = Past(P0, q, i)
    BY <1>2, PastNext
  <2>12. NoneDead(planspans_stack, sortwrap_stack, q) => NoneDead(w1.ps, w1.sw, q)
    <3>1. NoneDead(planspans_stack, sortwrap_stack, q) => NoneDead(w.ps, w.sw, q)
      BY DEF EndInv
    <3> QED
      BY <2>3, <2>7, <3>1 DEF NoneDead
  <2>13. \A m \in w.mi : /\ m.parent \in {Stmt, Left} /\ m.node[1] = q
                         /\ m.node[2] <= i /\ m.node[2] \in Nat
    BY <1>1, NodeFacts DEF EndInv, Measured
  <2>14. \A m \in c : /\ m.parent \in {Stmt, Left}
                      /\ m.node[1] = q /\ m.node[2] <= i + 1
    <3>1. \A m \in w.mi : m.node[2] <= i + 1
      BY <2>13
    <3>2. \A m \in new : /\ m.parent \in {Stmt, Left}
                         /\ m.node[1] = q /\ m.node[2] <= i + 1
      BY <1>2, <2>5
    <3> QED
      BY <2>13, <3>1, <3>2 DEF c
  <2>15. ASSUME NoneDead(planspans_stack, sortwrap_stack, q)
         PROVE  \A j \in 1..(i + 1) :
                  (\E m \in c : m.node = <<q, j>>) <=> Due(<<q, j>>, G)
    <3> SUFFICES ASSUME NEW j \in 1..(i + 1)
                 PROVE  (\E m \in c : m.node = <<q, j>>) <=> Due(<<q, j>>, G)
      OBVIOUS
    <3>1. CASE j = i + 1
      <4>1. \A m \in w.mi : m.node # n
        BY <1>2, <2>13
      <4>2. (\E m \in c : m.node = n) <=> new # {}
        BY <2>5, <4>1 DEF c
      <4> QED
        BY <2>6, <2>15, <3>1, <4>2
    <3>2. CASE j # i + 1
      <4>1. j \in 1..i /\ <<q, j>> # n
        BY <3>2
      <4>2. (\E m \in w.mi : m.node = <<q, j>>) <=> Due(<<q, j>>, G)
        BY <2>15, <4>1 DEF EndInv, Measured
      <4>3. \A m \in new : m.node # <<q, j>>
        BY <2>5, <4>1
      <4> QED
        BY <4>2, <4>3 DEF c
    <3> QED
      BY <3>1, <3>2
  <2>16. EndInv(w1, q, i + 1, G)
    BY <2>7, <2>9, <2>10, <2>11, <2>12, <2>14, <2>15 DEF EndInv, Measured
  <2> QED
    BY <2>16 DEF w1
<1> QED
  BY <1>3, <1>4

LEMMA NodeEnds ==
    ASSUME NEW q, NEW plan, Ending(q, plan), NEW w, NEW G, NEW i \in Nat,
           EndInv(w, q, i, G), i + 1 \in 1..Len(plan)
    PROVE  EndInv(EndNode(w, plan, <<q, i + 1>>, G), q, i + 1, G)
<1> DEFINE n == <<q, i + 1>>
           kind == plan[i + 1].kind
<1>1. n[2] = i + 1
  OBVIOUS
<1>2. /\ kind # "span" => \A e \in P0 : e.node # n
      /\ kind # "sort" => \A e \in S0 : e.node # n
      /\ kind # "fdw" => \A e \in F0 : e.node # n
  BY EndingFacts
<1>3. CASE kind = "fdw"
  <2>1. EndNode(w, plan, n, G) = otel_fdw_scan_end(w, n)
    BY <1>1, <1>3 DEF EndNode
  <2> QED
    BY <1>3, <2>1, FdwEnds
<1>4. CASE kind = "span" /\ child_spans
  <2>1. EndNode(w, plan, n, G) = planspans_node_end(w, plan, n, G)
    BY <1>1, <1>4 DEF EndNode
  <2> QED
    BY <1>4, <2>1, SpanEnds
<1>5. CASE kind = "sort" /\ child_spans
  <2>1. EndNode(w, plan, n, G) = planspans_sort_span(w, plan, n, G)
    BY <1>1, <1>5 DEF EndNode, planspans_node_end
  <2> QED
    BY <1>5, <2>1, SortEnds
<1>6. CASE kind # "fdw" /\ ~(kind = "span" /\ child_spans)
           /\ ~(kind = "sort" /\ child_spans)
  <2>1. EndNode(w, plan, n, G) = w
    BY <1>1, <1>6, Zenon DEF EndNode, planspans_node_end
  <2>2. EndInv(w, q, i + 1, G)
    BY <1>2, <1>6, EndSkips
  <2> QED
    BY <2>1, <2>2
<1> QED
  BY <1>3, <1>4, <1>5, <1>6

(* The walk starts from the state.                                         *)
LEMMA WalkStarts ==
    ASSUME NodeSpansInv
    PROVE  /\ WalkFits(Walk) /\ Walk.mi = {}
           /\ Walk.ps = planspans_stack /\ Walk.sw = sortwrap_stack
           /\ Walk.fd = fdw_scan_stack /\ Walk.sp = spans /\ Walk.so = sorts
<1>1. /\ planspans_stack \in Seq(NodeEntry) /\ sortwrap_stack \in Seq(SortEntry)
      /\ fdw_scan_stack \in Seq(NodeEntry) /\ spans \in SpanSet
      /\ sorts \in [Nodes -> SortStatus]
  BY DEF NodeSpansInv, TypeOK, SpanSet
<1>2. Walk \in WalkSet
  BY <1>1 DEF Walk, WalkSet
<1> QED
  BY <1>2 DEF NodeSpansInv, TypeOK, Walk, WalkFits

LEMMA PastNone ==
    ASSUME NEW E, OfNodes(E), NEW q
    PROVE  Past(E, q, 0) = E
<1>1. \A e \in E : e.node[2] \in Nat \ {0}
  BY NodeFacts DEF OfNodes
<1>2. \A e \in E : ~(e.node[2] <= 0)
  BY <1>1
<1> QED
  BY <1>2, Zenon DEF Past

LEMMA EndWalkDoes ==
    ASSUME NEW q, NEW plan, Ending(q, plan), NEW G
    PROVE  EndInv(EndWalk(q, plan, G), q, Len(plan), G)
<1>0. Len(plan) \in Nat /\ OfNodes(P0) /\ OfNodes(S0) /\ OfNodes(F0)
  BY EndingFacts
<1> DEFINE F == CHOOSE F : EndEqn(q, plan, G, Len(plan), F)
<1>1. EndEqn(q, plan, G, Len(plan), F)
  BY <1>0, EndExists
<1>2. EndWalk(q, plan, G) = F[Len(plan)]
  BY DEF EndWalk, EndEqn
<1> HIDE DEF F
<1>3. \A i \in 0..Len(plan) :
        F[i] = IF i = 0 THEN Walk ELSE EndNode(F[i - 1], plan, <<q, i>>, G)
  BY <1>1 DEF EndEqn
<1> DEFINE Good == {i \in Nat : i <= Len(plan) => EndInv(F[i], q, i, G)}
<1>4. 0 \in Good
  <2>1. 0 \in 0..Len(plan)
    BY <1>0
  <2>2. F[0] = Walk
    BY <1>3, <2>1
  <2>3. EndInv(Walk, q, 0, G)
    <3>1. /\ Past(P0, q, 0) = P0 /\ Past(S0, q, 0) = S0 /\ Past(F0, q, 0) = F0
      BY <1>0, PastNone
    <3>2. /\ WalkFits(Walk) /\ Walk.mi = {}
          /\ Walk.ps = planspans_stack /\ Walk.sw = sortwrap_stack
          /\ Walk.fd = fdw_scan_stack /\ Walk.sp = spans /\ Walk.so = sorts
      BY WalkStarts DEF Ending
    <3>3. Measured({}, q, 0, G)
      BY DEF Measured
    <3> QED
      BY <3>1, <3>2, <3>3 DEF EndInv, P0, S0, F0
  <2> QED
    BY <2>2, <2>3
<1>5. ASSUME NEW i \in Nat, i \in Good
      PROVE  i + 1 \in Good
  <2> SUFFICES ASSUME i + 1 <= Len(plan)
               PROVE  EndInv(F[i + 1], q, i + 1, G)
    OBVIOUS
  <2>1. EndInv(F[i], q, i, G) /\ i + 1 \in 1..Len(plan)
    BY <1>0, <1>5
  <2>2. F[i + 1] = EndNode(F[i], plan, <<q, i + 1>>, G)
    <3>1. i + 1 \in 0..Len(plan) /\ i + 1 # 0 /\ (i + 1) - 1 = i
      BY <1>0
    <3> QED
      BY <1>3, <3>1
  <2> QED
    BY <2>1, <2>2, NodeEnds
<1>6. Nat \subseteq Good
  BY <1>4, <1>5, SetInduction
<1>7. Len(plan) \in Good
  BY <1>0, <1>6
<1> QED
  BY <1>0, <1>2, <1>7

-----------------------------------------------------------------------------
(* The invariant is inductive.                                             *)

LEMMA StateFacts ==
    ASSUME NodeSpansInv
    PROVE  /\ P0 \in SUBSET NodeEntry /\ S0 \in SUBSET SortEntry
           /\ F0 \in SUBSET NodeEntry
           /\ OfNodes(P0) /\ OfNodes(S0) /\ OfNodes(F0)
           /\ spans \in SpanSet /\ sorts \in [Nodes -> SortStatus]
           /\ queries \in QuerySet
           /\ NodeInv(P0, S0, F0, spans, sorts, queries)
           /\ \A q \in Queries : queries[q].lev \in Nat
           /\ level \in Nat /\ Len(bases) \in Nat /\ Len(frames) \in Nat
           /\ level <= MAX_LEVEL /\ MAX_LEVEL \in Nat /\ MAX_FRAMES \in Nat
           /\ \A l \in 1..Len(bases) : bases[l] \in Nat
<1>1. /\ P0 \in SUBSET NodeEntry /\ S0 \in SUBSET SortEntry
      /\ F0 \in SUBSET NodeEntry
  BY EntryFacts DEF NodeSpansInv, TypeOK, P0, S0, F0
<1>2. OfNodes(P0) /\ OfNodes(S0) /\ OfNodes(F0)
  BY <1>1, NodeEntryFacts DEF OfNodes
<1>3. /\ spans \in SpanSet /\ sorts \in [Nodes -> SortStatus]
      /\ queries \in QuerySet
  BY DEF NodeSpansInv, TypeOK, SpanSet, QuerySet
<1>4. NodeInv(P0, S0, F0, spans, sorts, queries)
  BY DEF NodeSpansInv, NodesInv, P0, S0, F0
<1>5. \A q \in Queries : queries[q].lev \in Nat
  <2>1. \A l \in 1..MAX_LEVEL : l \in Nat
    BY NodeSpansAssumption
  <2> QED
    BY <1>3, <2>1 DEF QuerySet, Query, Closed
<1>6. /\ level \in Nat /\ Len(bases) \in Nat /\ Len(frames) \in Nat
      /\ level <= MAX_LEVEL /\ MAX_LEVEL \in Nat /\ MAX_FRAMES \in Nat
  BY NodeSpansAssumption DEF NodeSpansInv, TypeOK
<1>7. \A l \in 1..Len(bases) : bases[l] \in Nat
  <2> DEFINE B == 0..MAX_FRAMES
  <2>0. bases \in Seq(B)
    BY DEF NodeSpansInv, TypeOK
  <2> HIDE DEF B
  <2>1. \A l \in 1..Len(bases) : bases[l] \in B
    BY <2>0, ItemFacts
  <2> QED
    BY <1>6, <2>1 DEF B
<1> QED
  BY <1>1, <1>2, <1>3, <1>4, <1>5, <1>6, <1>7

(* With nothing open and no entries.                                       *)
LEMMA NothingOpen ==
    /\ OnTop(<<>>)
    /\ \A qs : NodeInv(Entries(<<>>), Entries(<<>>), Entries(<<>>),
                       [n \in Nodes |-> NoSpan], [n \in Nodes |-> "plain"], qs)
<1>1. Entries(<<>>) = {} /\ OnTop(<<>>)
  BY DEF Entries, Items, OnTop
<1> QED
  BY <1>1 DEF NodeInv, Fits

LEMMA StartsEmpty ==
    ASSUME Init
    PROVE  NodeSpansInv
<1>1. TypeOK
  BY NodeSpansAssumption DEF Init, TypeOK, SortStatus, Closed
<1>2. /\ OnTop(planspans_stack) /\ OnTop(sortwrap_stack) /\ OnTop(fdw_scan_stack)
      /\ NodesInv
  BY NothingOpen DEF Init, NodesInv
<1>3. CallsNest
  BY NodeSpansAssumption DEF Init, CallsNest
<1>4. LevelsNest
  BY DEF Init, LevelsNest, IsOpen, Closed
<1> QED
  BY <1>1, <1>2, <1>3, <1>4 DEF NodeSpansInv, Init

LEMMA AbortKeeps ==
    ASSUME NodeSpansInv, Abort
    PROVE  NodeSpansInv'
<1>1. TypeOK'
  BY NodeSpansAssumption DEF NodeSpansInv, Abort, TypeOK, SortStatus, Closed
<1>2. /\ OnTop(planspans_stack)' /\ OnTop(sortwrap_stack)'
      /\ OnTop(fdw_scan_stack)' /\ NodesInv'
  BY NothingOpen DEF Abort, NodesInv
<1>3. CallsNest'
  BY NodeSpansAssumption DEF Abort, CallsNest
<1>4. LevelsNest'
  BY DEF Abort, LevelsNest, IsOpen, Closed
<1> QED
  BY <1>1, <1>2, <1>3, <1>4 DEF NodeSpansInv, Abort

(* Steps that leave the nodes alone.                                       *)
LEMMA NodesUntouched ==
    ASSUME NodeSpansInv, UNCHANGED <<stackVars, queries, sorts, spans>>
    PROVE  /\ OnTop(planspans_stack)' /\ OnTop(sortwrap_stack)'
           /\ OnTop(fdw_scan_stack)' /\ NodesInv'
  BY DEF NodeSpansInv, NodesInv, stackVars

LEMMA LevelKeeps ==
    ASSUME NodeSpansInv, BeginXact \/ CommitXact
    PROVE  NodeSpansInv'
<1>1. UNCHANGED <<child_spans, stackVars, bases, frames, queries, sorts, spans>>
  BY DEF BeginXact, CommitXact
<1>2. TypeOK'
  <2>1. 0 \in 0..MAX_LEVEL /\ 1 \in 0..MAX_LEVEL
    BY NodeSpansAssumption
  <2> QED
    BY <1>1, <2>1 DEF NodeSpansInv, BeginXact, CommitXact, TypeOK, stackVars
<1>3. CallsNest'
  BY <1>1 DEF NodeSpansInv, CallsNest, IsOpen
<1>4. LevelsNest'
  <2>1. Len(bases) = 0
    BY DEF NodeSpansInv, LevelsNest, BeginXact, CommitXact
  <2>2. \A q \in Queries : queries[q].lev <= level'
    <3>1. CASE BeginXact
      BY <3>1, StateFacts DEF NodeSpansInv, LevelsNest, BeginXact
    <3>2. CASE CommitXact
      BY <3>2, StateFacts DEF CommitXact, IsOpen
    <3> QED
      BY <3>1, <3>2
  <2> QED
    BY <1>1, <2>1, <2>2 DEF NodeSpansInv, LevelsNest, BeginXact, CommitXact, IsOpen
<1>5. minted' = {}
  BY DEF BeginXact, CommitXact
<1> QED
  BY <1>1, <1>2, <1>3, <1>4, <1>5, NodesUntouched DEF NodeSpansInv

LEMMA SetChildSpansKeeps ==
    ASSUME NodeSpansInv, SetChildSpans
    PROVE  NodeSpansInv'
<1>1. UNCHANGED <<stackVars, coreVars, spans>> /\ minted' = {}
  BY DEF SetChildSpans
<1>2. TypeOK'
  BY DEF NodeSpansInv, SetChildSpans, TypeOK, stackVars, coreVars
<1>3. CallsNest' /\ LevelsNest'
  BY <1>1 DEF NodeSpansInv, CallsNest, LevelsNest, IsOpen, coreVars
<1> QED
  BY <1>1, <1>2, <1>3, NodesUntouched DEF NodeSpansInv, coreVars

LEMMA StutterKeeps ==
    ASSUME NodeSpansInv, UNCHANGED vars
    PROVE  NodeSpansInv'
<1>1. UNCHANGED <<child_spans, stackVars, coreVars, spans, minted>>
  BY DEF vars
<1>2. TypeOK'
  BY <1>1 DEF NodeSpansInv, TypeOK, stackVars, coreVars
<1>3. CallsNest' /\ LevelsNest'
  BY <1>1 DEF NodeSpansInv, CallsNest, LevelsNest, IsOpen, coreVars
<1> QED
  BY <1>1, <1>2, <1>3, NodesUntouched DEF NodeSpansInv, coreVars

LEMMA BeginSubKeeps ==
    ASSUME NodeSpansInv, BeginSub
    PROVE  NodeSpansInv'
<1>1. /\ UNCHANGED <<child_spans, stackVars, frames, queries, sorts, spans>>
      /\ minted' = {} /\ level' = level + 1 /\ level > 0 /\ level < MAX_LEVEL
      /\ bases' = Append(bases, Len(frames))
  BY DEF BeginSub
<1>2. /\ level \in Nat /\ Len(bases) \in Nat /\ Len(frames) \in Nat
      /\ \A q \in Queries : queries[q].lev \in Nat
  BY StateFacts
<1>3. /\ bases \in Seq(0..MAX_FRAMES) /\ Len(frames) \in 0..MAX_FRAMES
  BY <1>2, NodeSpansAssumption DEF NodeSpansInv, TypeOK, CallsNest
<1>4. /\ bases' \in Seq(0..MAX_FRAMES) /\ Len(bases') = Len(bases) + 1
      /\ \A l \in 1..Len(bases) : bases'[l] = bases[l]
      /\ bases'[Len(bases) + 1] = Len(frames)
  BY <1>1, <1>3, PushFacts
<1>5. TypeOK'
  <2>1. level' \in 0..MAX_LEVEL
    BY <1>1, <1>2, NodeSpansAssumption
  <2> QED
    BY <1>1, <1>4, <2>1 DEF NodeSpansInv, TypeOK, stackVars
<1>6. CallsNest'
  BY <1>1 DEF NodeSpansInv, CallsNest, IsOpen
<1>7. LevelsNest'
  <2>1. Len(bases) = level - 1
    BY <1>1 DEF NodeSpansInv, LevelsNest
  <2>2. \A l \in 1..Len(bases') : l \in 1..Len(bases) \/ l = Len(bases) + 1
    BY <1>2, <1>4
  <2>3. \A l \in 1..Len(bases') : bases'[l] <= Len(frames')
    BY <1>1, <1>2, <1>4, <2>2 DEF NodeSpansInv, LevelsNest
  <2>4. ASSUME NEW l \in 1..Len(bases'), NEW m \in 1..Len(bases'), l < m
        PROVE  bases'[l] <= bases'[m]
    <3>1. l \in 1..Len(bases)
      BY <1>2, <1>4, <2>4
    <3> QED
      BY <1>4, <2>2, <2>4, <3>1 DEF NodeSpansInv, LevelsNest
  <2>5. ASSUME NEW l \in 1..Len(bases'), NEW k \in 1..Len(frames'), k <= bases'[l]
        PROVE  queries'[frames'[k].node[1]].lev <= l
    <3>1. CASE l \in 1..Len(bases)
      BY <1>1, <1>4, <2>5, <3>1 DEF NodeSpansInv, LevelsNest
    <3>2. CASE l = Len(bases) + 1
      <4>1. frames[k].node[1] \in Queries
        <5>1. frames[k] \in Frame
          BY <1>1 DEF NodeSpansInv, TypeOK
        <5> QED
          BY <5>1, NodeFacts DEF Frame
      <4>2. queries'[frames'[k].node[1]].lev <= level
        BY <1>1, <4>1 DEF NodeSpansInv, LevelsNest
      <4> QED
        BY <1>2, <2>1, <3>2, <4>2
    <3> QED
      BY <2>2, <3>1, <3>2
  <2>6. \A q \in Queries :
          queries'[q].lev <= level' /\ (IsOpen(q)' => queries'[q].plan \in Plans[q])
    BY <1>1, <1>2 DEF NodeSpansInv, LevelsNest, IsOpen
  <2>7. Len(bases') = IF level' = 0 THEN 0 ELSE level' - 1
    BY <1>1, <1>2, <1>4, <2>1
  <2> QED
    BY <2>3, <2>4, <2>5, <2>6, <2>7 DEF LevelsNest
<1> QED
  BY <1>1, <1>5, <1>6, <1>7, NodesUntouched DEF NodeSpansInv

LEMMA NoneReleased ==
    ASSUME NodeSpansInv
    PROVE  Released(spans, {}) = spans /\ Forgotten(sorts, {}) = sorts
<1>1. spans \in SpanSet /\ sorts \in [Nodes -> SortStatus]
  BY StateFacts
<1> QED
  BY <1>1 DEF Released, Forgotten, SpanSet

LEMMA AllSurvive ==
    ASSUME NEW E, NEW qs
    PROVE  Survive(E, E, {}, qs)
  BY DEF Survive

(* What becomes of a query.                                                *)
OpenedAs(p, l, b)  == b = [Closed EXCEPT !.plan = p, !.lev = l]
MovedTo(a, l, b)   == b = [a EXCEPT !.lev = l, !.moved = TRUE]

LEMMA Opened ==
    ASSUME NEW q \in Queries, NEW p \in Plans[q], NEW l \in 1..MAX_LEVEL,
           NEW b, OpenedAs(p, l, b)
    PROVE  b \in Query /\ b.plan = p /\ b.lev = l
<1> DEFINE A == [plan : {<<>>} \union UNION {Plans[r] : r \in Queries},
                 lev : {0} \union 1..MAX_LEVEL, failed : BOOLEAN,
                 moved : BOOLEAN]
<1>1. p \in UNION {Plans[r] : r \in Queries}
  OBVIOUS
<1>2. Closed \in A /\ b \in A /\ b.plan = p /\ b.lev = l
  BY <1>1 DEF Closed, OpenedAs
<1> QED
  BY <1>1, <1>2 DEF Query

LEMMA Moved ==
    ASSUME NEW a \in Query, NEW l \in 1..MAX_LEVEL,
           NEW b, MovedTo(a, l, b)
    PROVE  /\ b \in Query /\ b.lev = l /\ b.moved
           /\ b.plan = a.plan /\ b.failed = a.failed
  BY DEF Query, MovedTo

LEMMA Failed ==
    ASSUME NEW a \in Query, NEW b, b = [a EXCEPT !.failed = TRUE]
    PROVE  b \in Query /\ b.lev = a.lev /\ b.plan = a.plan
  BY DEF Query

(* A RELEASE gives the queries of its level to the outer one.              *)
LEMMA CommitSubKeeps ==
    ASSUME NodeSpansInv, CommitSub
    PROVE  NodeSpansInv'
<1> DEFINE new(q) == [queries[q] EXCEPT !.lev = level - 1, !.moved = TRUE]
<1>1. /\ UNCHANGED <<child_spans, sortwrap_stack, fdw_scan_stack, frames, sorts,
                     spans>>
      /\ planspans_stack' = OwnersRelease(planspans_stack, {<<0, level>>})
      /\ minted' = {} /\ level' = level - 1 /\ level > 1
      /\ Len(frames) = Last(bases) /\ bases' = Front(bases)
      /\ queries' = [q \in Queries |->
                       IF queries[q].lev = level THEN new(q) ELSE queries[q]]
  BY DEF CommitSub
<1> HIDE DEF new
<1>2. /\ level \in Nat /\ level <= MAX_LEVEL /\ MAX_LEVEL \in Nat
      /\ Len(bases) \in Nat /\ Len(frames) \in Nat
      /\ \A q \in Queries : queries[q].lev \in Nat
      /\ queries \in QuerySet
  BY StateFacts
<1>3. /\ bases \in Seq(0..MAX_FRAMES) /\ Len(bases) = level - 1
      /\ bases # <<>>
  <2>1. bases \in Seq(0..MAX_FRAMES) /\ Len(bases) = level - 1
    BY <1>1, <1>2 DEF NodeSpansInv, TypeOK, LevelsNest
  <2>2. Len(bases) # 0
    BY <1>1, <1>2, <2>1
  <2>3. bases = <<>> => Len(bases) = 0
    OBVIOUS
  <2> QED
    BY <2>1, <2>2, <2>3, Zenon
<1>4. /\ bases' \in Seq(0..MAX_FRAMES) /\ Len(bases') = Len(bases) - 1
      /\ \A l \in 1..Len(bases') : bases'[l] = bases[l]
  BY <1>1, <1>3, PopFacts
<1>5. ASSUME NEW q \in Queries
      PROVE  /\ queries'[q] \in Query \union {Closed}
             /\ queries'[q].lev \in Nat
             /\ queries'[q].lev <= queries[q].lev
             /\ queries'[q].plan = queries[q].plan
             /\ queries[q].lev <= level => queries'[q].lev <= level - 1
             /\ queries'[q].lev > 0 <=> queries[q].lev > 0
             /\ queries[q].lev > 0 => Eases(queries[q], queries'[q])
  <2>1. CASE queries[q].lev = level
    <3>1. queries[q] \in Query
      BY <1>1, <1>2, <2>1 DEF QuerySet, Closed
    <3>2. MovedTo(queries[q], level - 1, queries'[q])
      BY <1>1, <2>1 DEF new, MovedTo
    <3>3. level - 1 \in 1..MAX_LEVEL
      BY <1>1, <1>2
    <3>4. /\ queries'[q] \in Query /\ queries'[q].lev = level - 1
          /\ queries'[q].plan = queries[q].plan /\ queries'[q].moved
          /\ queries'[q].failed = queries[q].failed
      BY <3>1, <3>2, <3>3, Moved
    <3> QED
      BY <1>1, <1>2, <2>1, <3>4 DEF Eases
  <2>2. CASE queries[q].lev # level
    <3>1. queries'[q] = queries[q]
      BY <1>1, <2>2
    <3> QED
      BY <1>2, <2>2, <3>1 DEF Eases, QuerySet
  <2> QED
    BY <2>1, <2>2
<1>6. queries' \in QuerySet
  BY <1>1, <1>5 DEF QuerySet
<1>12. /\ planspans_stack' \in Seq(NodeEntry)
       /\ Len(planspans_stack') = Len(planspans_stack)
       /\ OnTop(planspans_stack)' /\ Entries(planspans_stack') = P0
  <2>1. Nobody \notin {<<0, level>>}
    BY <1>1 DEF Nobody
  <2> QED
    BY <1>1, <2>1, OwnersReleased DEF NodeSpansInv, TypeOK, P0
<1>7. TypeOK'
  <2>1. level' \in 0..MAX_LEVEL
    BY <1>1, <1>2, NodeSpansAssumption
  <2> QED
    BY <1>1, <1>4, <1>6, <1>12, <2>1 DEF NodeSpansInv, TypeOK, QuerySet
<1>8. /\ OnTop(planspans_stack)' /\ OnTop(sortwrap_stack)'
      /\ OnTop(fdw_scan_stack)' /\ NodesInv'
  <2>1. NodeInv(P0, S0, F0, Released(spans, {}), Forgotten(sorts, {}), queries')
    <3>1. QueriesEase(queries, queries', {})
      BY <1>5 DEF QueriesEase
    <3> QED
      BY <1>6, <3>1, StateFacts, AllSurvive, NodeInvCarries
  <2>2. NodeInv(P0, S0, F0, spans, sorts, queries')
    BY <2>1, NoneReleased
  <2> QED
    BY <1>1, <1>12, <2>2 DEF NodeSpansInv, NodesInv, S0, F0
<1>9. \A k \in 1..Len(frames) : frames[k].node[1] \in Queries
  <2>1. \A k \in 1..Len(frames) : frames[k] \in Frame
    BY DEF NodeSpansInv, TypeOK
  <2> QED
    BY <2>1, NodeFacts DEF Frame
<1>10. CallsNest'
  BY <1>1, <1>5, <1>9 DEF NodeSpansInv, CallsNest, IsOpen
<1>11. LevelsNest'
  <2>1. Len(bases') = IF level' = 0 THEN 0 ELSE level' - 1
    BY <1>1, <1>2, <1>3, <1>4
  <2>2. \A l \in 1..Len(bases') : l \in 1..Len(bases)
    BY <1>2, <1>4
  <2>3. /\ \A l \in 1..Len(bases') : bases'[l] <= Len(frames')
        /\ \A l, m \in 1..Len(bases') : l < m => bases'[l] <= bases'[m]
    BY <1>1, <1>4, <2>2 DEF NodeSpansInv, LevelsNest
  <2>4. ASSUME NEW l \in 1..Len(bases'), NEW k \in 1..Len(frames'), k <= bases'[l]
        PROVE  queries'[frames'[k].node[1]].lev <= l
    <3>1. queries[frames[k].node[1]].lev <= l /\ frames[k].node[1] \in Queries
      BY <1>1, <1>4, <1>9, <2>2, <2>4 DEF NodeSpansInv, LevelsNest
    <3>2. l \in Nat
      OBVIOUS
    <3> QED
      BY <1>1, <1>2, <1>5, <3>1, <3>2
  <2>5. \A q \in Queries :
          queries'[q].lev <= level' /\ (IsOpen(q)' => queries'[q].plan \in Plans[q])
    BY <1>1, <1>5 DEF NodeSpansInv, LevelsNest, IsOpen
  <2> QED
    BY <2>1, <2>3, <2>4, <2>5 DEF LevelsNest
<1> QED
  BY <1>1, <1>7, <1>8, <1>10, <1>11 DEF NodeSpansInv

(* Each executor call in progress is of an open query.                     *)
LEMMA FrameFacts ==
    ASSUME NodeSpansInv
    PROVE  /\ frames \in Seq(Frame)
           /\ \A k \in 1..Len(frames) :
                /\ frames[k] \in Frame /\ frames[k].node[1] \in Queries
                /\ IsOpen(frames[k].node[1])
                /\ frames[k].kind = "sort" => frames[k].node \in Nodes
                /\ frames[k].kind # "sort" =>
                     frames[k].node = <<frames[k].node[1], 0>>
<1>1. frames \in Seq(Frame) /\ \A k \in 1..Len(frames) : frames[k] \in Frame
  BY DEF NodeSpansInv, TypeOK
<1> QED
  BY <1>1, NodeFacts DEF Frame, NodeSpansInv, CallsNest

(* A query has one run in progress.                                        *)
RunOf(f, q) == f.kind # "sort" /\ f.node[1] = q

LEMMA OneRun ==
    ASSUME NodeSpansInv, NEW q,
           NEW j \in 1..Len(frames), RunOf(frames[j], q),
           NEW k \in 1..Len(frames), RunOf(frames[k], q)
    PROVE  j = k
  BY DEF NodeSpansInv, CallsNest, RunOf

(* The innermost call's query has no other run, and its Sort no other call.*)
LEMMA TopIsAlone ==
    ASSUME NodeSpansInv, NEW k \in 1..(Len(frames) - 1)
    PROVE  LET f == frames[Len(frames)]
           IN IF f.kind = "sort"
              THEN frames[k].kind = "sort" => frames[k].node # f.node
              ELSE frames[k].node[1] # f.node[1]
<1> DEFINE N == Len(frames)
<1>1. N \in 1..N /\ N \in Nat /\ k \in 1..N /\ k < N
  BY FrameFacts
<1>2. \A j \in 1..N : frames[j].kind = "sort" =>
        /\ j - 1 \in 1..N /\ RunOf(frames[j - 1], frames[j].node[1])
  <2> SUFFICES ASSUME NEW j \in 1..N, frames[j].kind = "sort"
               PROVE  j - 1 \in 1..N /\ RunOf(frames[j - 1], frames[j].node[1])
    OBVIOUS
  <2>1. /\ j > 1 /\ frames[j - 1].kind # "sort"
        /\ frames[j - 1].node = <<frames[j].node[1], 0>>
    BY DEF NodeSpansInv, CallsNest
  <2> QED
    BY <1>1, <2>1 DEF RunOf
<1>3. CASE frames[N].kind = "sort"
  <2> SUFFICES ASSUME frames[k].kind = "sort", frames[k].node = frames[N].node
               PROVE  FALSE
    BY <1>3
  <2>1. k - 1 = N - 1
    <3>1. /\ k - 1 \in 1..N /\ RunOf(frames[k - 1], frames[k].node[1])
          /\ N - 1 \in 1..N /\ RunOf(frames[N - 1], frames[k].node[1])
      BY <1>1, <1>2, <1>3
    <3>2. \A i, j \in 1..N :
            (/\ RunOf(frames[i], frames[k].node[1])
             /\ RunOf(frames[j], frames[k].node[1])) => i = j
      BY OneRun
    <3> QED
      BY <3>1, <3>2, Zenon
  <2> QED
    BY <1>1, <2>1
<1>4. CASE frames[N].kind # "sort"
  <2> SUFFICES ASSUME frames[k].node[1] = frames[N].node[1]
               PROVE  FALSE
    BY <1>4
  <2>1. RunOf(frames[N], frames[k].node[1])
    BY <1>4 DEF RunOf
  <2>2. CASE frames[k].kind = "sort"
    <3>1. k - 1 = N
      BY <1>1, <1>2, <2>1, <2>2, OneRun
    <3> QED
      BY <1>1, <3>1
  <2>3. CASE frames[k].kind # "sort"
    <3>1. RunOf(frames[k], frames[k].node[1])
      BY <2>3 DEF RunOf
    <3>2. k = N
      BY <1>1, <2>1, <3>1, OneRun
    <3> QED
      BY <1>1, <3>2
  <2> QED
    BY <2>2, <2>3
<1> QED
  BY <1>3, <1>4

(* What LevelsNest says of queries alone.                                  *)
QueriesFit ==
    \A q \in Queries :
        queries[q].lev <= level /\ (IsOpen(q) => queries[q].plan \in Plans[q])

(* A call on top of the others, of an open query.                          *)
LEMMA CallOnTop ==
    ASSUME NodeSpansInv, Len(frames) < MAX_FRAMES, NEW f \in Frame,
           frames' = Append(frames, f), UNCHANGED <<level, bases>>,
           QueriesFit', queries'[f.node[1]].lev > 0,
           \A q \in Queries : IsOpen(q) => queries'[q] = queries[q],
           f.kind # "sort" => ~Running(f.node[1]),
           f.kind = "sort" =>
             /\ frames # <<>> /\ sorts'[f.node] = "called"
             /\ Last(frames).kind # "sort"
             /\ Last(frames).node = <<f.node[1], 0>>,
           \A n \in Nodes : sorts[n] = "called" => sorts'[n] = "called"
    PROVE  CallsNest' /\ LevelsNest' /\ frames' \in Seq(Frame)
<1>1. /\ frames' \in Seq(Frame) /\ Len(frames') = Len(frames) + 1
      /\ Len(frames) \in Nat /\ frames'[Len(frames) + 1] = f
      /\ \A k \in 1..Len(frames) : frames'[k] = frames[k]
  BY FrameFacts, PushFacts
<1>2. \A k \in 1..Len(frames') : k \in 1..Len(frames) \/ k = Len(frames) + 1
  BY <1>1
<1>3. CallsNest'
  <2>1. Len(frames') <= MAX_FRAMES
    BY <1>1, NodeSpansAssumption
  <2>2. \A k \in 1..Len(frames') : queries'[frames'[k].node[1]].lev > 0
    BY <1>1, <1>2, FrameFacts DEF IsOpen
  <2>3. ASSUME NEW j \in 1..Len(frames'), NEW k \in 1..Len(frames'),
               frames'[j].kind # "sort", frames'[k].kind # "sort",
               frames'[j].node[1] = frames'[k].node[1]
        PROVE  j = k
    <3>1. \A i \in 1..Len(frames) :
            f.kind # "sort" => frames[i].node[1] # f.node[1]
      BY DEF Running, Items
    <3> QED
      BY <1>1, <1>2, <2>3, <3>1 DEF NodeSpansInv, CallsNest
  <2>4. ASSUME NEW k \in 1..Len(frames'), frames'[k].kind = "sort"
        PROVE  /\ k > 1 /\ sorts'[frames'[k].node] = "called"
               /\ frames'[k - 1].kind # "sort"
               /\ frames'[k - 1].node = <<frames'[k].node[1], 0>>
    <3>1. CASE k \in 1..Len(frames)
      <4>1. /\ k > 1 /\ sorts[frames[k].node] = "called"
            /\ frames[k - 1].kind # "sort"
            /\ frames[k - 1].node = <<frames[k].node[1], 0>>
            /\ frames[k].node \in Nodes
        BY <1>1, <2>4, <3>1, FrameFacts DEF NodeSpansInv, CallsNest
      <4>2. k - 1 \in 1..Len(frames)
        BY <1>1, <3>1, <4>1
      <4> QED
        BY <1>1, <3>1, <4>1, <4>2
    <3>2. CASE k = Len(frames) + 1
      <4>1. Len(frames) \in 1..Len(frames) /\ k - 1 = Len(frames) /\ k > 1
        BY <1>1, <2>4, <3>2, FrameFacts
      <4> QED
        BY <1>1, <2>4, <3>2, <4>1 DEF Last
    <3> QED
      BY <1>2, <3>1, <3>2
  <2> QED
    BY <2>1, <2>2, <2>3, <2>4 DEF CallsNest, IsOpen
<1>4. LevelsNest'
  <2>1. \A l \in 1..Len(bases) : bases[l] \in Nat /\ bases[l] <= Len(frames)
    BY StateFacts DEF NodeSpansInv, LevelsNest
  <2>2. \A l \in 1..Len(bases) : \A k \in 1..Len(frames') :
          k <= bases[l] => k \in 1..Len(frames)
    BY <1>1, <2>1
  <2>3. \A l \in 1..Len(bases) : bases[l] <= Len(frames')
    BY <1>1, <2>1
  <2>4. \A k \in 1..Len(frames) :
          queries'[frames[k].node[1]] = queries[frames[k].node[1]]
    BY FrameFacts
  <2>5. ASSUME NEW l \in 1..Len(bases), NEW k \in 1..Len(frames'), k <= bases[l]
        PROVE  queries'[frames'[k].node[1]].lev <= l
    <3>1. k \in 1..Len(frames) /\ frames'[k] = frames[k]
      BY <1>1, <2>2, <2>5
    <3>2. queries[frames[k].node[1]].lev <= l
      BY <2>5, <3>1 DEF NodeSpansInv, LevelsNest
    <3> QED
      BY <2>4, <3>1, <3>2
  <2>6. /\ Len(bases) = IF level = 0 THEN 0 ELSE level - 1
        /\ \A l, m \in 1..Len(bases) : l < m => bases[l] <= bases[m]
    BY DEF NodeSpansInv, LevelsNest
  <2>7. \A q \in Queries : /\ queries'[q].lev <= level'
                           /\ IsOpen(q)' => queries'[q].plan \in Plans[q]
    BY DEF QueriesFit
  <2> QED
    BY <2>3, <2>5, <2>6, <2>7 DEF LevelsNest
<1> QED
  BY <1>1, <1>3, <1>4

(* The queries are as they were.                                           *)
LEMMA QueriesStay ==
    ASSUME NodeSpansInv, UNCHANGED <<level, queries>>
    PROVE  QueriesFit'
  BY DEF NodeSpansInv, LevelsNest, QueriesFit, IsOpen

LEMMA ExecutorRunKeeps ==
    ASSUME NodeSpansInv, NEW q \in Queries, ExecutorRun(q)
    PROVE  NodeSpansInv'
<1> DEFINE f == [kind |-> "run", node |-> <<q, 0>>]
<1>1. /\ UNCHANGED <<child_spans, stackVars, level, bases, queries, sorts, spans>>
      /\ minted' = {} /\ frames' = Append(frames, f) /\ Len(frames) < MAX_FRAMES
      /\ IsOpen(q) /\ ~Running(q)
  BY DEF ExecutorRun
<1>2. f \in Frame /\ f.kind # "sort" /\ f.node[1] = q
  BY DEF Frame
<1> HIDE DEF f
<1>5. queries'[f.node[1]].lev > 0
  BY <1>1, <1>2 DEF IsOpen
<1>3. CallsNest' /\ LevelsNest' /\ frames' \in Seq(Frame)
  BY <1>1, <1>2, <1>5, CallOnTop, QueriesStay
<1>4. TypeOK'
  BY <1>1, <1>3 DEF NodeSpansInv, TypeOK, stackVars
<1> QED
  BY <1>1, <1>3, <1>4, NodesUntouched DEF NodeSpansInv

LEMMA SortCalledKeeps ==
    ASSUME NodeSpansInv, NEW n \in Nodes, SortCalled(n)
    PROVE  NodeSpansInv'
<1> DEFINE f == [kind |-> "sort", node |-> n]
<1>1. /\ UNCHANGED <<child_spans, stackVars, level, bases, queries, spans>>
      /\ minted' = {} /\ frames' = Append(frames, f) /\ Len(frames) < MAX_FRAMES
      /\ frames # <<>> /\ Last(frames).node = <<n[1], 0>>
      /\ sorts[n] = "wrapped" /\ sorts' = [sorts EXCEPT ![n] = "called"]
  BY DEF SortCalled
<1>2. f \in Frame /\ f.kind = "sort" /\ f.node = n
  BY DEF Frame
<1>3. queries'[n[1]].lev > 0 /\ Last(frames).kind # "sort"
  <2>1. Len(frames) \in 1..Len(frames) /\ Last(frames) = frames[Len(frames)]
    BY <1>1, FrameFacts DEF Last
  <2>2. IsOpen(n[1])
    BY <1>1, <2>1, FrameFacts
  <2>3. Last(frames).node \notin Nodes
    <3>1. Last(frames).node[2] = 0
      BY <1>1
    <3> QED
      BY <3>1, NodeFacts
  <2> QED
    BY <1>1, <2>1, <2>2, <2>3, FrameFacts DEF IsOpen
<1>4. sorts' \in [Nodes -> SortStatus] /\ sorts'[n] = "called"
      /\ \A m \in Nodes : sorts[m] = "called" => sorts'[m] = "called"
  BY <1>1, StateFacts DEF SortStatus
<1> HIDE DEF f
<1>5. CallsNest' /\ LevelsNest' /\ frames' \in Seq(Frame)
  BY <1>1, <1>2, <1>3, <1>4, CallOnTop, QueriesStay
<1>6. TypeOK'
  BY <1>1, <1>4, <1>5 DEF NodeSpansInv, TypeOK, stackVars
<1>7. NodesInv'
  <2>1. NodeInv(P0, S0, F0, spans, [sorts EXCEPT ![n] = "called"], queries)
    <3>1. Fits(S0, "sort", queries) /\ Tracked(n, S0, queries)
      BY <1>1, StateFacts DEF NodeInv
    <3>2. \A e \in S0 : e.node = n => (e.ended <=> "called" = "done")
      BY <1>1, StateFacts DEF NodeInv
    <3>3. "called" \in SortStatus /\ "called" # "plain"
      BY DEF SortStatus
    <3> QED
      BY <3>1, <3>2, <3>3, StateFacts, SortMoves
  <2> QED
    BY <1>1, <2>1 DEF NodesInv, stackVars, P0, S0, F0
<1> QED
  BY <1>1, <1>5, <1>6, <1>7 DEF NodeSpansInv, stackVars

(* The innermost call may return after the subtransactions begun in it.    *)
LEMMA MayReturnFacts ==
    ASSUME NodeSpansInv, MayReturn
    PROVE  /\ \A l \in 1..Len(bases) : bases[l] \in Nat /\ bases[l] < Len(frames)
           /\ frames # <<>> /\ Last(frames) = frames[Len(frames)]
           /\ Len(frames) \in 1..Len(frames)
<1>1. /\ Len(bases) \in Nat /\ level \in Nat
      /\ Len(bases) = IF level = 0 THEN 0 ELSE level - 1
  BY StateFacts DEF NodeSpansInv, LevelsNest
<1>2. \A l \in 1..Len(bases) : bases[l] \in Nat /\ bases[l] < Len(frames)
  <2> SUFFICES ASSUME NEW l \in 1..Len(bases)
               PROVE  bases[l] \in Nat /\ bases[l] < Len(frames)
    OBVIOUS
  <2>1. level > 1 /\ Len(bases) \in 1..Len(bases)
    BY <1>1
  <2>2. bases[Len(bases)] < Len(frames)
    BY <2>1 DEF MayReturn, Last
  <2>3. bases[l] \in Nat /\ bases[Len(bases)] \in Nat /\ Len(frames) \in Nat
    BY <2>1, StateFacts
  <2>4. bases[l] <= bases[Len(bases)]
    <3>1. CASE l < Len(bases)
      BY <2>1, <3>1 DEF NodeSpansInv, LevelsNest
    <3>2. CASE l = Len(bases)
      BY <2>3, <3>2
    <3> QED
      BY <1>1, <3>1, <3>2
  <2> QED
    BY <2>2, <2>3, <2>4
<1>3. frames # <<>>
  <2>1. CASE level > 1
    <3>1. Len(bases) \in 1..Len(bases)
      BY <1>1, <2>1
    <3>2. bases[Len(bases)] \in Nat /\ bases[Len(bases)] < Len(frames)
      BY <1>2, <3>1
    <3> QED
      BY <3>2, StateFacts
  <2>2. CASE ~(level > 1)
    BY <2>2 DEF MayReturn
  <2> QED
    BY <2>1, <2>2
<1> QED
  BY <1>2, <1>3, FrameFacts DEF Last

LEMMA CallGone ==
    ASSUME NodeSpansInv, MayReturn, frames' = Front(frames),
           UNCHANGED <<level, bases>>, QueriesFit',
           \A k \in 1..(Len(frames) - 1) :
             /\ queries'[frames[k].node[1]] = queries[frames[k].node[1]]
             /\ frames[k].kind = "sort" => sorts'[frames[k].node] = "called"
    PROVE  CallsNest' /\ LevelsNest' /\ frames' \in Seq(Frame)
<1>2. /\ \A l \in 1..Len(bases) : bases[l] \in Nat /\ bases[l] < Len(frames)
      /\ frames # <<>>
  BY MayReturnFacts
<1>4. /\ frames' \in Seq(Frame) /\ Len(frames') = Len(frames) - 1
      /\ Len(frames) \in Nat \ {0}
      /\ \A k \in 1..(Len(frames) - 1) : frames'[k] = frames[k]
  BY <1>2, FrameFacts, PopFacts
<1>5. \A k \in 1..Len(frames') : k \in 1..Len(frames) /\ frames'[k] = frames[k]
  BY <1>4
<1>6. CallsNest'
  <2>1. Len(frames') <= MAX_FRAMES
    BY <1>4, NodeSpansAssumption DEF NodeSpansInv, CallsNest
  <2>2. \A k \in 1..Len(frames') : queries'[frames'[k].node[1]].lev > 0
    BY <1>4, <1>5 DEF NodeSpansInv, CallsNest, IsOpen
  <2>3. \A j, k \in 1..Len(frames') :
          (/\ frames'[j].kind # "sort" /\ frames'[k].kind # "sort"
           /\ frames'[j].node[1] = frames'[k].node[1]) => j = k
    BY <1>5 DEF NodeSpansInv, CallsNest
  <2>4. ASSUME NEW k \in 1..Len(frames'), frames'[k].kind = "sort"
        PROVE  /\ k > 1 /\ sorts'[frames'[k].node] = "called"
               /\ frames'[k - 1].kind # "sort"
               /\ frames'[k - 1].node = <<frames'[k].node[1], 0>>
    <3>1. /\ k > 1 /\ frames[k - 1].kind # "sort"
          /\ frames[k - 1].node = <<frames[k].node[1], 0>>
      BY <1>5, <2>4 DEF NodeSpansInv, CallsNest
    <3>2. k - 1 \in 1..Len(frames')
      BY <1>4, <3>1
    <3> QED
      BY <1>4, <1>5, <2>4, <3>1, <3>2
  <2> QED
    BY <2>1, <2>2, <2>3, <2>4 DEF CallsNest, IsOpen
<1>7. LevelsNest'
  <2>1. \A l \in 1..Len(bases) : bases[l] <= Len(frames')
    BY <1>2, <1>4
  <2>2. \A k \in 1..Len(frames') :
          queries'[frames'[k].node[1]] = queries[frames[k].node[1]]
    BY <1>4, <1>5
  <2>3. \A l \in 1..Len(bases) : \A k \in 1..Len(frames') :
          k <= bases[l] => queries'[frames'[k].node[1]].lev <= l
    BY <1>5, <2>2 DEF NodeSpansInv, LevelsNest
  <2> QED
    BY <2>1, <2>3 DEF NodeSpansInv, LevelsNest, QueriesFit, IsOpen
<1> QED
  BY <1>4, <1>6, <1>7

(* sortwrap_exec returns: the entry is marked, and nothing else.           *)
LEMMA CallReturnsKeeps ==
    ASSUME NodeSpansInv, CallReturns
    PROVE  NodeSpansInv'
<1> DEFINE f == Last(frames)
<1>1. /\ MayReturn /\ frames' = Front(frames) /\ minted' = {}
      /\ UNCHANGED <<child_spans, planspans_stack, fdw_scan_stack, level, bases,
                     queries, spans>>
      /\ f.kind = "sort" =>
           /\ sortwrap_stack' = SortReturns(sortwrap_stack, f.node)
           /\ sorts' = [sorts EXCEPT ![f.node] = "done"]
      /\ f.kind # "sort" => UNCHANGED <<sortwrap_stack, sorts>>
  BY DEF CallReturns
<1>2. f = frames[Len(frames)] /\ Len(frames) \in 1..Len(frames) /\ f \in Frame
  BY <1>1, MayReturnFacts, FrameFacts
<1> HIDE DEF f
<1>3. CASE f.kind = "sort"
  <2> DEFINE n == f.node
  <2>1. n \in Nodes /\ f = [kind |-> "sort", node |-> n] /\ sorts[n] = "called"
    BY <1>2, <1>3, FrameFacts DEF Frame, NodeSpansInv, CallsNest
  <2>2. /\ sorts' = [sorts EXCEPT ![n] = "done"]
        /\ sortwrap_stack' = SortReturns(sortwrap_stack, n)
    BY <1>1, <1>3
  <2> HIDE DEF n
  <2>3. \A k \in 1..(Len(frames) - 1) :
          frames[k].kind = "sort" => sorts'[frames[k].node] = "called"
    <3> SUFFICES ASSUME NEW k \in 1..(Len(frames) - 1), frames[k].kind = "sort"
                 PROVE  sorts'[frames[k].node] = "called"
      OBVIOUS
    <3>1. frames[k].node # n
      BY <1>2, <1>3, TopIsAlone DEF n
    <3>2. k \in 1..Len(frames)
      BY <1>2
    <3>3. frames[k].node \in Nodes /\ sorts[frames[k].node] = "called"
      BY <3>2, FrameFacts DEF NodeSpansInv, CallsNest
    <3> QED
      BY <2>2, <3>1, <3>3, StateFacts
  <2>4. CallsNest' /\ LevelsNest' /\ frames' \in Seq(Frame)
    BY <1>1, <2>3, CallGone, QueriesStay
  <2>5. /\ SortReturns(sortwrap_stack, n) \in Seq(SortEntry)
        /\ Len(SortReturns(sortwrap_stack, n)) = Len(sortwrap_stack)
        /\ OnTop(SortReturns(sortwrap_stack, n))
        /\ Entries(SortReturns(sortwrap_stack, n)) =
             {IF e.node = n THEN [e EXCEPT !.ended = TRUE] ELSE e : e \in S0}
    BY SortReturnsTop DEF NodeSpansInv, TypeOK, S0
  <2>6. sorts' \in [Nodes -> SortStatus]
    BY <2>2, StateFacts DEF SortStatus
  <2>7. TypeOK'
    BY <1>1, <2>2, <2>4, <2>5, <2>6 DEF NodeSpansInv, TypeOK
  <2>8. NodesInv'
    <3> DEFINE S1 == {IF e.node = n THEN [e EXCEPT !.ended = TRUE] ELSE e : e \in S0}
    <3>1. \A e \in SortEntry :
            /\ [e EXCEPT !.ended = TRUE] \in SortEntry
            /\ [e EXCEPT !.ended = TRUE].node = e.node
            /\ [e EXCEPT !.ended = TRUE].ended = TRUE
            /\ [e EXCEPT !.ended = TRUE].subxact_level = e.subxact_level
      BY DEF SortEntry
    <3>2. /\ S1 \in SUBSET SortEntry
          /\ \A x \in S1 : \E e \in S0 : /\ e.node = x.node
                                         /\ e.subxact_level = x.subxact_level
          /\ \A x \in S1 : x.node = n => x.ended
          /\ \A e \in S0 : \E x \in S1 : x.node = e.node
      <4>1. S0 \in SUBSET SortEntry
        BY StateFacts
      <4> QED
        BY <3>1, <4>1
    <3>3. \A m \in Nodes : m # n =>
            \A e \in SortEntry : e.node = m => (e \in S1 <=> e \in S0)
      <4> SUFFICES ASSUME NEW e \in SortEntry, e.node # n
                   PROVE  e \in S1 <=> e \in S0
        OBVIOUS
      <4>1. ASSUME e \in S1
            PROVE  e \in S0
        <5>1. PICK x \in S0 :
                e = IF x.node = n THEN [x EXCEPT !.ended = TRUE] ELSE x
          BY <4>1
        <5>2. x \in SortEntry
          BY StateFacts
        <5> QED
          BY <3>1, <5>1, <5>2
      <4>2. ASSUME e \in S0
            PROVE  e \in S1
        BY <4>2
      <4> QED
        BY <4>1, <4>2
    <3> HIDE DEF S1
    <3>4. Fits(S0, "sort", queries) /\ Tracked(n, S0, queries)
      BY <2>1, StateFacts DEF NodeInv
    <3>5. Fits(S1, "sort", queries)
      <4> SUFFICES ASSUME NEW x \in S1
                   PROVE  /\ LiveIn(queries, x.node)
                          /\ queries[x.node[1]].plan[x.node[2]].kind = "sort"
                          /\ x.subxact_level >= queries[x.node[1]].lev
                          /\ \/ queries[x.node[1]].moved
                             \/ x.subxact_level = queries[x.node[1]].lev
        BY DEF Fits
      <4>1. PICK e \in S0 : e.node = x.node /\ e.subxact_level = x.subxact_level
        BY <3>2
      <4> QED
        BY <3>4, <4>1 DEF Fits
    <3>6. Tracked(n, S1, queries)
      BY <3>2, <3>4 DEF Tracked
    <3>7. \A e \in S1 : e.node = n => (e.ended <=> "done" = "done")
      BY <3>2
    <3>8. "done" \in SortStatus /\ "done" # "plain"
      BY DEF SortStatus
    <3>9. NodeInv(P0, S1, F0, spans, [sorts EXCEPT ![n] = "done"], queries)
      BY <2>1, <3>2, <3>3, <3>5, <3>6, <3>7, <3>8, StateFacts, SortMoves
    <3> QED
      BY <1>1, <2>2, <2>5, <3>9 DEF NodesInv, P0, F0, S1
  <2> QED
    BY <1>1, <2>2, <2>4, <2>5, <2>7, <2>8 DEF NodeSpansInv
<1>4. CASE f.kind # "sort"
  <2>1. UNCHANGED <<stackVars, queries, sorts, spans>>
    BY <1>1, <1>4 DEF stackVars
  <2>4. \A k \in 1..(Len(frames) - 1) :
          frames[k].kind = "sort" => sorts'[frames[k].node] = "called"
    <3>1. \A k \in 1..(Len(frames) - 1) : k \in 1..Len(frames)
      BY <1>2
    <3> QED
      BY <2>1, <3>1 DEF NodeSpansInv, CallsNest
  <2>2. CallsNest' /\ LevelsNest' /\ frames' \in Seq(Frame)
    BY <1>1, <2>4, CallGone, QueriesStay
  <2>3. TypeOK'
    BY <1>1, <2>1, <2>2 DEF NodeSpansInv, TypeOK, stackVars
  <2> QED
    BY <1>1, <2>1, <2>2, <2>3, NodesUntouched DEF NodeSpansInv
<1> QED
  BY <1>3, <1>4

(* All of the invariant but what it says of the calls in progress.         *)
NodesKept ==
    /\ frames \in Seq(Frame) => TypeOK
    /\ OnTop(planspans_stack) /\ OnTop(sortwrap_stack) /\ OnTop(fdw_scan_stack)
    /\ NodesInv /\ QueriesFit
    /\ \A m \in minted : m.parent \in {Stmt, Left}

(* A query is opened, and its nodes' spans with it.                        *)
LEMMA ExecutorStartDoes ==
    ASSUME NodeSpansInv, NEW q \in Queries, NEW plan \in Plans[q],
           NEW stmt, NEW G, ExecutorStart(q, plan, stmt, G)
    PROVE  /\ NodesKept' /\ UNCHANGED <<level, bases>>
           /\ ~IsOpen(q) /\ queries'[q].lev > 0
           /\ \A r \in Queries : IsOpen(r) => queries'[r] = queries[r]
           /\ \A n \in Nodes : sorts[n] = "called" => sorts'[n] = "called"
<1> DEFINE w == StartWalk(q, plan, stmt, G)
           new == [Closed EXCEPT !.plan = plan, !.lev = level]
<1> HIDE DEF new
<1>1. /\ level > 0 /\ ~IsOpen(q)
      /\ queries' = [queries EXCEPT ![q] = new]
      /\ planspans_stack' = w.ps /\ sortwrap_stack' = w.sw
      /\ fdw_scan_stack' = w.fd /\ spans' = w.sp /\ sorts' = w.so
      /\ minted' = {} /\ UNCHANGED <<child_spans, level, bases>>
  BY Zenon DEF ExecutorStart, SetStacks, new
<1> HIDE DEF w
<1>2. level \in 1..MAX_LEVEL /\ queries \in QuerySet
  BY <1>1, NodeSpansAssumption, StateFacts DEF NodeSpansInv, TypeOK
<1>3. new \in Query /\ new.plan = plan /\ new.lev = level
  <2>1. OpenedAs(plan, level, new)
    BY DEF new, OpenedAs
  <2> QED
    BY <1>2, <2>1, Opened
<1>4. queries' \in QuerySet /\ queries'[q] = new
      /\ \A r \in Queries : r # q => queries'[r] = queries[r]
  BY <1>1, <1>2, <1>3 DEF QuerySet
<1>5. Fresh(queries', q, plan)
  BY <1>2, <1>4 DEF Fresh, new
<1>6. StartInv(Walk, q, 0, queries')
  <2>1. NodeInv(P0, S0, F0, spans, sorts, queries')
    <3>1. QueriesEase(queries, queries', {})
      <4> SUFFICES ASSUME NEW r \in Queries, queries[r].lev > 0
                   PROVE  Eases(queries[r], queries'[r])
        BY DEF QueriesEase
      <4>1. r # q /\ queries[r].lev \in Nat
        BY <1>1, StateFacts DEF IsOpen
      <4> QED
        BY <1>4, <4>1 DEF Eases
    <3>2. NodeInv(P0, S0, F0, Released(spans, {}), Forgotten(sorts, {}), queries')
      BY <1>4, <3>1, StateFacts, AllSurvive, NodeInvCarries
    <3> QED
      BY <3>2, NoneReleased
  <2>2. Upto(P0, q, 0) /\ Upto(S0, q, 0) /\ Upto(F0, q, 0)
    <3>1. \A e \in P0 \union S0 \union F0 : e.node[1] # q
      BY <1>1, StateFacts DEF NodeInv, Fits, LiveIn, IsOpen
    <3> QED
      BY <3>1 DEF Upto
  <2> QED
    BY <2>1, <2>2, WalkStarts DEF StartInv, P0, S0, F0
<1>7. StartInv(w, q, Len(plan), queries')
  BY <1>5, <1>6, StartWalkKeeps DEF w
<1>8. WalkFits(w) /\ w \in WalkSet
  BY <1>7 DEF StartInv, WalkFits
<1>9. /\ w.ps \in Seq(NodeEntry) /\ w.sw \in Seq(SortEntry)
      /\ w.fd \in Seq(NodeEntry) /\ w.sp \in SpanSet
      /\ w.so \in [Nodes -> SortStatus]
  BY <1>8, WalkFields
<1>10. frames' \in Seq(Frame) => TypeOK'
  BY <1>1, <1>4, <1>8, <1>9 DEF NodeSpansInv, TypeOK, WalkFits, QuerySet, SpanSet
<1>11. /\ OnTop(planspans_stack)' /\ OnTop(sortwrap_stack)'
       /\ OnTop(fdw_scan_stack)' /\ NodesInv'
  BY <1>1, <1>7, <1>8 DEF StartInv, WalkFits, NodesInv
<1>12. \A n \in Nodes : sorts[n] = "called" => sorts'[n] = "called"
  BY <1>1, <1>7 DEF StartInv
<1>13. QueriesFit'
  <2>1. new.lev <= level /\ new.plan \in Plans[q]
    BY <1>2, <1>3
  <2> QED
    BY <1>1, <1>4, <2>1 DEF NodeSpansInv, LevelsNest, QueriesFit, IsOpen
<1>14. queries'[q].lev > 0
  BY <1>1, <1>3, <1>4
<1> QED
  BY <1>1, <1>4, <1>10, <1>11, <1>12, <1>13, <1>14 DEF NodesKept

(* What is left to show of a step that opens or ends a query.              *)
LEMMA KeptWithCalls ==
    ASSUME NodesKept', CallsNest', LevelsNest', frames' \in Seq(Frame)
    PROVE  NodeSpansInv'
  BY DEF NodesKept, NodeSpansInv

LEMMA PortalStartKeeps ==
    ASSUME NodeSpansInv, NEW q \in Queries, NEW plan \in Plans[q],
           NEW stmt, NEW G, PortalStart(q, plan, stmt, G)
    PROVE  NodeSpansInv'
<1>1. /\ NodesKept' /\ UNCHANGED <<level, bases, frames>>
      /\ \A r \in Queries : IsOpen(r) => queries'[r] = queries[r]
      /\ \A n \in Nodes : sorts[n] = "called" => sorts'[n] = "called"
  BY ExecutorStartDoes DEF PortalStart
<1>2. \A k \in 1..Len(frames) :
        queries'[frames[k].node[1]] = queries[frames[k].node[1]]
  BY <1>1, FrameFacts
<1>3. CallsNest'
  BY <1>1, <1>2, FrameFacts DEF NodeSpansInv, CallsNest, IsOpen
<1>4. LevelsNest'
  BY <1>1, <1>2 DEF NodeSpansInv, LevelsNest, NodesKept, QueriesFit
<1> QED
  BY <1>1, <1>3, <1>4, FrameFacts, KeptWithCalls

LEMMA NestedStartKeeps ==
    ASSUME NodeSpansInv, NEW q \in Queries, NEW plan \in Plans[q],
           NEW stmt, NEW G, NestedStart(q, plan, stmt, G)
    PROVE  NodeSpansInv'
<1> DEFINE f == [kind |-> "exec", node |-> <<q, 0>>]
<1>1. /\ NodesKept' /\ UNCHANGED <<level, bases>>
      /\ ~IsOpen(q) /\ queries'[q].lev > 0
      /\ \A r \in Queries : IsOpen(r) => queries'[r] = queries[r]
      /\ \A n \in Nodes : sorts[n] = "called" => sorts'[n] = "called"
      /\ frames' = Append(frames, f) /\ Len(frames) < MAX_FRAMES
  BY ExecutorStartDoes DEF NestedStart
<1>2. f \in Frame /\ f.kind # "sort" /\ f.node[1] = q
  BY DEF Frame
<1>3. ~Running(q)
  BY <1>1, FrameFacts DEF Running, Items
<1> HIDE DEF f
<1>4. CallsNest' /\ LevelsNest' /\ frames' \in Seq(Frame)
  BY <1>1, <1>2, <1>3, CallOnTop DEF NodesKept
<1> QED
  BY <1>1, <1>4, KeptWithCalls

(* Entries of the queries that do not die.                                 *)
Outside(E, D) == {e \in E : e.node[1] \notin D}

LEMMA OutsideSurvives ==
    ASSUME NEW E, NEW D, NEW qs
    PROVE  Survive(Outside(E, D), E, D, qs)
  BY DEF Survive, Outside

LEMMA OutlivedEntries ==
    ASSUME NEW Q
    PROVE  /\ \A stk \in Seq(NodeEntry) : OnTop(stk) =>
                /\ Outlived(stk, Q) \in Seq(NodeEntry)
                /\ Len(Outlived(stk, Q)) = Len(stk) /\ OnTop(Outlived(stk, Q))
                /\ Entries(Outlived(stk, Q)) = Outside(Entries(stk), Q)
           /\ \A stk \in Seq(SortEntry) : OnTop(stk) =>
                /\ Outlived(stk, Q) \in Seq(SortEntry)
                /\ Len(Outlived(stk, Q)) = Len(stk) /\ OnTop(Outlived(stk, Q))
                /\ Entries(Outlived(stk, Q)) = Outside(Entries(stk), Q)
<1>1. ASSUME NEW stk \in Seq(NodeEntry), OnTop(stk)
      PROVE  /\ Outlived(stk, Q) \in Seq(NodeEntry)
             /\ Len(Outlived(stk, Q)) = Len(stk) /\ OnTop(Outlived(stk, Q))
             /\ Entries(Outlived(stk, Q)) = Outside(Entries(stk), Q)
  <2>1. \A e \in NodeEntry : /\ [e EXCEPT !.dead = TRUE] \in NodeEntry
                             /\ [e EXCEPT !.dead = TRUE].dead = TRUE
                             /\ [e EXCEPT !.dead = TRUE].node = e.node
    BY NodeEntryFacts
  <2> QED
    BY <1>1, <2>1, OutlivedTop, SMTT(30) DEF Outside
<1>2. ASSUME NEW stk \in Seq(SortEntry), OnTop(stk)
      PROVE  /\ Outlived(stk, Q) \in Seq(SortEntry)
             /\ Len(Outlived(stk, Q)) = Len(stk) /\ OnTop(Outlived(stk, Q))
             /\ Entries(Outlived(stk, Q)) = Outside(Entries(stk), Q)
  <2>1. \A e \in SortEntry : /\ [e EXCEPT !.dead = TRUE] \in SortEntry
                             /\ [e EXCEPT !.dead = TRUE].dead = TRUE
                             /\ [e EXCEPT !.dead = TRUE].node = e.node
    BY NodeEntryFacts
  <2> QED
    BY <1>2, <2>1, OutlivedTop, SMTT(30) DEF Outside
<1> QED
  BY <1>1, <1>2

LEMMA CurrentOwnerFacts ==
    ASSUME NodeSpansInv, level > 0
    PROVE  CurrentOwner \in Owner
<1> DEFINE runs == {k \in 1..Len(frames) : frames[k].kind = "run"}
<1>1. CASE runs = {} \/ (level > 1 /\ Last(bases) >= Max(runs))
  <2>1. CurrentOwner = <<0, level>>
    BY <1>1 DEF CurrentOwner
  <2>2. level \in 1..MAX_LEVEL
    BY StateFacts
  <2> QED
    BY <2>1, <2>2 DEF Owner
<1>2. CASE ~(runs = {} \/ (level > 1 /\ Last(bases) >= Max(runs)))
  <2>1. CurrentOwner = frames[Max(runs)].node
    BY <1>2 DEF CurrentOwner
  <2>2. Len(frames) \in Nat /\ runs \in SUBSET (1..Len(frames)) /\ runs # {}
    BY <1>2, StateFacts
  <2>3. \A k \in runs : frames[k].node = <<frames[k].node[1], 0>>
                        /\ frames[k].node[1] \in Queries
    BY FrameFacts
  <2> HIDE DEF runs
  <2>4. Max(runs) \in runs
    BY <2>2, GreatestUpTo
  <2> QED
    BY <2>1, <2>3, <2>4 DEF Owner
<1> QED
  BY <1>1, <1>2

(* What the end of a query does before its portal's resources go: its      *)
(* entries are gone, or count no longer, and the other queries' are as     *)
(* before.                                                                 *)
EndsOnly(w, q) ==
    LET left == IF child_spans THEN {} ELSE {q}
    IN /\ WalkFits(w) /\ w.so = sorts
       /\ Outside(Entries(w.ps), left) = Outside(P0, {q})
       /\ Outside(Entries(w.sw), left) = Outside(S0, {q})
       /\ Entries(w.fd) = Outside(F0, {q})
       /\ \A n \in Nodes : n[1] # q => w.sp[n] = spans[n]
       /\ \A m \in w.mi : m.parent \in {Stmt, Left}

LEMMA EndingQuery ==
    ASSUME NodeSpansInv, NEW q \in Queries, IsOpen(q), ~queries[q].failed
    PROVE  Ending(q, queries[q].plan)
  BY DEF Ending, NodeSpansInv, LevelsNest, IsOpen

LEMMA EndDoesOnly ==
    ASSUME NodeSpansInv, NEW q \in Queries, NEW G, IsOpen(q)
    PROVE  EndsOnly(IF queries[q].failed THEN Walk
                    ELSE EndWalk(q, queries[q].plan, G), q)
<1> DEFINE left == IF child_spans THEN {} ELSE {q}
<1>1. CASE queries[q].failed
  <2>1. \A e \in P0 \union S0 \union F0 : e.node[1] # q
    BY <1>1, StateFacts DEF NodeInv, Fits, LiveIn
  <2>2. /\ Outside(P0, {q}) = P0 /\ Outside(S0, {q}) = S0
        /\ Outside(F0, {q}) = F0
        /\ Outside(P0, left) = P0 /\ Outside(S0, left) = S0
    BY <2>1 DEF Outside
  <2> QED
    BY <1>1, <2>2, WalkStarts DEF EndsOnly, P0, S0, F0
<1>2. CASE ~queries[q].failed
  <2> DEFINE plan == queries[q].plan
             w == EndWalk(q, plan, G)
  <2>1. Ending(q, plan)
    BY <1>2, EndingQuery
  <2>2. EndInv(w, q, Len(plan), G)
    BY <2>1, EndWalkDoes
  <2>3. \A e \in P0 \union S0 \union F0 :
          e.node[1] = q => e.node[2] \in 1..Len(plan)
    BY <2>1, EndingFacts
  <2> HIDE DEF w
  <2>4. /\ Past(P0, q, Len(plan)) = Outside(P0, {q})
        /\ Past(S0, q, Len(plan)) = Outside(S0, {q})
        /\ Past(F0, q, Len(plan)) = Outside(F0, {q})
    BY <2>3 DEF Past, Outside
  <2>5. Outside(Outside(P0, {q}), {}) = Outside(P0, {q})
        /\ Outside(Outside(S0, {q}), {}) = Outside(S0, {q})
    BY DEF Outside
  <2>6. /\ Outside(Entries(w.ps), left) = Outside(P0, {q})
        /\ Outside(Entries(w.sw), left) = Outside(S0, {q})
        /\ Entries(w.fd) = Outside(F0, {q})
    BY <2>2, <2>4, <2>5 DEF EndInv
  <2>7. EndsOnly(w, q)
    BY <2>2, <2>6 DEF EndsOnly, EndInv, Measured
  <2> QED
    BY <1>2, <2>7 DEF w
<1> QED
  BY <1>1, <1>2

LEMMA ExecutorEndDoes ==
    ASSUME NodeSpansInv, NEW q \in Queries, NEW G, NEW o \in Owner,
           ExecutorEnd(q, G, o)
    PROVE  /\ NodesKept' /\ UNCHANGED <<level, bases>>
           /\ \A r \in Queries : r # q => queries'[r] = queries[r]
           /\ \A n \in Nodes :
                (n[1] # q /\ sorts[n] = "called") => sorts'[n] = "called"
<1> DEFINE w == IF queries[q].failed THEN Walk ELSE EndWalk(q, queries[q].plan, G)
           left == IF child_spans THEN {} ELSE {q}
           ps == OwnersRelease(LeftWith(w.ps, left, o), PortalOwners({q}))
           v == [w EXCEPT
                   !.ps = OwnersRelease(LeftWith(@, left, o), PortalOwners({q})),
                   !.sw = Outlived(@, left)]
<1>1. /\ level > 0 /\ IsOpen(q)
      /\ planspans_stack' = v.ps /\ sortwrap_stack' = v.sw
      /\ fdw_scan_stack' = v.fd
      /\ spans' = Released(w.sp, {q}) /\ sorts' = Forgotten(w.so, {q})
      /\ minted' = w.mi /\ queries' = [queries EXCEPT ![q] = Closed]
      /\ UNCHANGED <<child_spans, level, bases>>
  BY Zenon DEF ExecutorEnd, SetStacks
<1>2. EndsOnly(w, q)
  BY <1>1, EndDoesOnly
<1> HIDE DEF w
<1>3. WalkFits(w) /\ w \in WalkSet
  BY <1>2 DEF EndsOnly, WalkFits
<1>4. /\ w.ps \in Seq(NodeEntry) /\ w.sw \in Seq(SortEntry)
      /\ w.fd \in Seq(NodeEntry) /\ w.sp \in SpanSet
      /\ w.mi \in SUBSET [node : Nodes, parent : Parent]
  BY <1>3, WalkFields
<1>5. /\ v.ps = ps /\ v.sw = Outlived(w.sw, left) /\ v.fd = w.fd
  BY <1>3 DEF WalkSet
<1>6. /\ planspans_stack' = ps
      /\ sortwrap_stack' = Outlived(w.sw, left) /\ fdw_scan_stack' = w.fd
  BY <1>1, <1>5
<1> HIDE DEF v, left, ps
<1>7. OnTop(w.ps) /\ OnTop(w.sw) /\ OnTop(w.fd)
  BY <1>3 DEF WalkFits
<1>8. /\ planspans_stack' \in Seq(NodeEntry)
      /\ Len(planspans_stack') = Len(w.ps) /\ OnTop(planspans_stack')
      /\ Entries(planspans_stack') = Outside(P0, {q})
  <2> DEFINE t == LeftWith(w.ps, left, o)
  <2>1. /\ t \in Seq(NodeEntry) /\ Len(t) = Len(w.ps) /\ OnTop(t)
        /\ Entries(t) = Outside(Entries(w.ps), left)
    BY <1>4, <1>7, LeftWithTop DEF Outside
  <2>2. Nobody \notin PortalOwners({q})
    BY NodeSpansAssumption DEF Nobody, PortalOwners
  <2>3. ps = OwnersRelease(t, PortalOwners({q}))
    BY DEF ps
  <2> HIDE DEF t
  <2> QED
    BY <1>2, <1>6, <2>1, <2>2, <2>3, OwnersReleased DEF EndsOnly, left
<1>9. /\ sortwrap_stack' \in Seq(SortEntry)
      /\ Len(sortwrap_stack') = Len(w.sw) /\ OnTop(sortwrap_stack')
      /\ Entries(sortwrap_stack') = Outside(S0, {q})
  BY <1>2, <1>4, <1>6, <1>7, OutlivedEntries DEF EndsOnly, left
<1>10. Entries(fdw_scan_stack') = Outside(F0, {q})
  BY <1>2, <1>6 DEF EndsOnly
<1>11. spans' = Released(spans, {q}) /\ sorts' = Forgotten(sorts, {q})
  <2>1. \A n \in Nodes : n[1] \notin {q} => w.sp[n] = spans[n]
    BY <1>2 DEF EndsOnly
  <2> QED
    BY <1>1, <1>2, <2>1 DEF Released, Forgotten, EndsOnly
<1>12. /\ queries' \in QuerySet /\ queries'[q] = Closed
       /\ \A r \in Queries : r # q => queries'[r] = queries[r]
  BY <1>1, StateFacts DEF QuerySet
<1>13. NodesInv'
  <2>1. QueriesEase(queries, queries', {q})
    <3> SUFFICES ASSUME NEW r \in Queries, r # q, queries[r].lev > 0
                 PROVE  Eases(queries[r], queries'[r])
      BY DEF QueriesEase
    <3> QED
      BY <1>12, StateFacts DEF Eases
  <2>2. NodeInv(Outside(P0, {q}), Outside(S0, {q}), Outside(F0, {q}),
                Released(spans, {q}), Forgotten(sorts, {q}), queries')
    BY <1>12, <2>1, StateFacts, OutsideSurvives, NodeInvCarries
  <2> QED
    BY <1>8, <1>9, <1>10, <1>11, <2>2 DEF NodesInv
<1>14. frames' \in Seq(Frame) => TypeOK'
  <2>1. spans' \in SpanSet /\ sorts' \in [Nodes -> SortStatus]
    BY <1>11, StateFacts DEF Released, Forgotten, SpanSet, SortStatus
  <2> QED
    BY <1>1, <1>3, <1>4, <1>6, <1>8, <1>9, <1>12, <2>1
       DEF NodeSpansInv, TypeOK, WalkFits, QuerySet, SpanSet
<1>15. QueriesFit'
  <2>1. Closed.lev = 0
    BY DEF Closed
  <2> QED
    BY <1>1, <1>12, <2>1, StateFacts DEF NodeSpansInv, LevelsNest, QueriesFit, IsOpen
<1>16. \A n \in Nodes :
         (n[1] # q /\ sorts[n] = "called") => sorts'[n] = "called"
  BY <1>11 DEF Forgotten
<1> QED
  BY <1>1, <1>2, <1>6, <1>7, <1>8, <1>9, <1>12, <1>13, <1>14, <1>15, <1>16
     DEF NodesKept, EndsOnly

LEMMA PortalEndKeeps ==
    ASSUME NodeSpansInv, NEW q \in Queries, NEW G, PortalEnd(q, G)
    PROVE  NodeSpansInv'
<1>1. /\ NodesKept' /\ UNCHANGED <<level, bases, frames>> /\ ~Running(q)
      /\ \A r \in Queries : r # q => queries'[r] = queries[r]
      /\ \A n \in Nodes :
           (n[1] # q /\ sorts[n] = "called") => sorts'[n] = "called"
  <2>1. <<q, 0>> \in Owner
    BY DEF Owner
  <2> QED
    BY <2>1, ExecutorEndDoes DEF PortalEnd
<1>2. \A k \in 1..Len(frames) :
        /\ frames[k].node[1] # q
        /\ queries'[frames[k].node[1]] = queries[frames[k].node[1]]
  BY <1>1, FrameFacts DEF Running, Items
<1>3. CallsNest'
  <2>1. \A k \in 1..Len(frames) : frames[k].kind = "sort" =>
          sorts'[frames[k].node] = "called"
    BY <1>1, <1>2, FrameFacts DEF NodeSpansInv, CallsNest
  <2> QED
    BY <1>1, <1>2, <2>1 DEF NodeSpansInv, CallsNest, IsOpen
<1>4. LevelsNest'
  BY <1>1, <1>2 DEF NodeSpansInv, LevelsNest, NodesKept, QueriesFit
<1> QED
  BY <1>1, <1>3, <1>4, FrameFacts, KeptWithCalls

LEMMA NestedEndKeeps ==
    ASSUME NodeSpansInv, NEW q \in Queries, NEW G, NestedEnd(q, G)
    PROVE  NodeSpansInv'
<1>1. /\ NodesKept' /\ UNCHANGED <<level, bases>>
      /\ MayReturn /\ frames' = Front(frames)
      /\ Last(frames) = [kind |-> "exec", node |-> <<q, 0>>]
      /\ \A r \in Queries : r # q => queries'[r] = queries[r]
      /\ \A n \in Nodes :
           (n[1] # q /\ sorts[n] = "called") => sorts'[n] = "called"
  <2>1. level > 0
    BY DEF NestedEnd, ExecutorEnd
  <2>2. CurrentOwner \in Owner
    BY <2>1, CurrentOwnerFacts
  <2> HIDE DEF CurrentOwner
  <2> QED
    BY <2>2, ExecutorEndDoes DEF NestedEnd
<1>2. Last(frames) = frames[Len(frames)] /\ Len(frames) \in 1..Len(frames)
  BY <1>1, MayReturnFacts
<1>3. \A k \in 1..(Len(frames) - 1) :
        /\ queries'[frames[k].node[1]] = queries[frames[k].node[1]]
        /\ frames[k].kind = "sort" => sorts'[frames[k].node] = "called"
  <2> SUFFICES ASSUME NEW k \in 1..(Len(frames) - 1)
               PROVE  /\ queries'[frames[k].node[1]] = queries[frames[k].node[1]]
                      /\ frames[k].kind = "sort" =>
                           sorts'[frames[k].node] = "called"
    OBVIOUS
  <2>1. frames[Len(frames)].kind # "sort" /\ frames[Len(frames)].node[1] = q
    BY <1>1, <1>2
  <2>2. frames[k].node[1] # q
    BY <2>1, TopIsAlone
  <2>3. k \in 1..Len(frames)
    BY <1>2
  <2> QED
    BY <1>1, <2>2, <2>3, FrameFacts DEF NodeSpansInv, CallsNest
<1>4. CallsNest' /\ LevelsNest' /\ frames' \in Seq(Frame)
  BY <1>1, <1>3, CallGone DEF NodesKept
<1> QED
  BY <1>1, <1>4, KeptWithCalls

(* An abort of the innermost subtransaction: queries of its level go, and  *)
(* those whose calls it leaves fail.                                       *)
Gone  == {q \in Queries : queries[q].lev >= level}
Fails == {frames[k].node[1] : k \in (Last(bases) + 1)..Len(frames)} \ Gone

(* What an abort leaves of a stack.                                        *)
LEMMA AbortLeaves ==
    ASSUME NodeSpansInv, NEW T, T = NodeEntry \/ T = SortEntry,
           NEW stk \in Seq(T), OnTop(stk), NEW kind, NEW qs,
           Fits(Entries(stk), kind, queries),
           \A q \in Queries : q \notin Gone \union Fails => qs[q] = queries[q],
           NEW stk1, stk1 = Outlived(Kept(stk), Fails)
    PROVE  /\ stk1 \in Seq(T) /\ Len(stk1) <= Len(stk) /\ OnTop(stk1)
           /\ Survive(Entries(stk1), Entries(stk), Gone \union Fails, qs)
<1>1. /\ Kept(stk) \in Seq(T) /\ Len(Kept(stk)) <= Len(stk) /\ OnTop(Kept(stk))
      /\ Entries(Kept(stk)) = {e \in Entries(stk) : e.subxact_level < level}
  BY KeptTop
<1>2. /\ stk1 \in Seq(T) /\ Len(stk1) = Len(Kept(stk)) /\ OnTop(stk1)
      /\ Entries(stk1) = Outside(Entries(Kept(stk)), Fails)
  BY <1>1, OutlivedEntries
<1>3. \A e \in Entries(stk) : /\ e.node \in Nodes /\ e.node[1] \in Queries
                              /\ e.subxact_level \in Nat
  BY EntryFacts, NodeEntryFacts, NodeFacts
<1>4. level \in Nat /\ \A q \in Queries : queries[q].lev \in Nat
  BY StateFacts
<1>5. ASSUME NEW e \in Entries(stk)
      PROVE  /\ e.subxact_level < level => e.node[1] \notin Gone
             /\ (e.node[1] \notin Gone \union Fails /\ ~qs[e.node[1]].moved) =>
                  e.subxact_level < level
  <2>1. /\ e.subxact_level >= queries[e.node[1]].lev
        /\ queries[e.node[1]].moved \/ e.subxact_level = queries[e.node[1]].lev
    BY DEF Fits
  <2>2. e.subxact_level < level => e.node[1] \notin Gone
    BY <1>3, <1>4, <2>1 DEF Gone
  <2>3. (e.node[1] \notin Gone \union Fails /\ ~qs[e.node[1]].moved) =>
          e.subxact_level < level
    BY <1>3, <1>4, <2>1 DEF Gone
  <2> QED
    BY <2>2, <2>3
<1>6. Survive(Entries(stk1), Entries(stk), Gone \union Fails, qs)
  BY <1>1, <1>2, <1>5 DEF Survive, Outside
<1>7. Len(stk1) <= Len(stk)
  BY <1>1, <1>2
<1> QED
  BY <1>2, <1>6, <1>7

LEMMA SubAbortKeeps ==
    ASSUME NodeSpansInv, SubAbort
    PROVE  NodeSpansInv'
<1> DEFINE base == Last(bases)
           D == Gone \union Fails
           O == PortalOwners(Gone \union Fails) \union {<<0, level>>}
           new(q) == [queries[q] EXCEPT !.failed = TRUE]
<1>1. /\ level > 1 /\ UNCHANGED child_spans /\ minted' = {}
      /\ level' = level - 1 /\ bases' = Front(bases)
      /\ frames' = SubSeq(frames, 1, base)
      /\ queries' = [q \in Queries |->
                       CASE q \in Gone  -> Closed
                         [] q \in Fails -> new(q)
                         [] OTHER       -> queries[q]]
      /\ spans' = Released(spans, D) /\ sorts' = Forgotten(sorts, D)
  BY Zenon DEF SubAbort, Gone, Fails
<1>2. /\ planspans_stack' = OwnersRelease(Outlived(Kept(planspans_stack), Fails),
                                         O)
      /\ sortwrap_stack' = Outlived(Kept(sortwrap_stack), Fails)
      /\ fdw_scan_stack' = Outlived(Kept(fdw_scan_stack), Fails)
  BY DEF SubAbort, Gone, Fails, SetStacks, Walk
<1>3. /\ level \in Nat /\ level <= MAX_LEVEL /\ MAX_LEVEL \in Nat
      /\ Len(bases) \in Nat /\ Len(frames) \in Nat
      /\ \A q \in Queries : queries[q].lev \in Nat /\ queries[q].lev <= level
      /\ queries \in QuerySet
  BY StateFacts DEF NodeSpansInv, LevelsNest
<1>4. /\ bases \in Seq(0..MAX_FRAMES) /\ Len(bases) = level - 1
      /\ bases # <<>> /\ Len(bases) \in 1..Len(bases)
  <2>1. bases \in Seq(0..MAX_FRAMES) /\ Len(bases) = level - 1
    BY <1>1, <1>3 DEF NodeSpansInv, TypeOK, LevelsNest
  <2>2. Len(bases) # 0 /\ Len(bases) \in 1..Len(bases)
    BY <1>1, <1>3, <2>1
  <2>3. bases = <<>> => Len(bases) = 0
    OBVIOUS
  <2> QED
    BY <2>1, <2>2, <2>3, Zenon
<1>5. /\ bases' \in Seq(0..MAX_FRAMES) /\ Len(bases') = Len(bases) - 1
      /\ \A l \in 1..Len(bases') : bases'[l] = bases[l]
  BY <1>1, <1>4, PopFacts
<1>6. base = bases[Len(bases)] /\ base \in Nat /\ base <= Len(frames)
      /\ base <= MAX_FRAMES
  BY <1>4, NodeSpansAssumption DEF NodeSpansInv, LevelsNest, Last
<1> HIDE DEF base, D, O, new
<1>7. /\ frames' \in Seq(Frame) /\ Len(frames') = base
      /\ \A k \in 1..base : k \in 1..Len(frames) /\ frames'[k] = frames[k]
  <2>1. frames \in Seq(Frame) /\ base \in 0..Len(frames)
    BY <1>3, <1>6, FrameFacts
  <2> QED
    BY <1>1, <1>3, <1>6, <2>1
<1>8. \A q \in Fails : q \in Queries /\ queries[q].lev > 0 /\ queries[q] \in Query
  <2>1. \A k \in (base + 1)..Len(frames) :
          frames[k].node[1] \in Queries /\ queries[frames[k].node[1]].lev > 0
    BY <1>6, FrameFacts DEF IsOpen
  <2> QED
    BY <1>3, <2>1 DEF Fails, base, QuerySet, Closed
<1>9. ASSUME NEW q \in Queries
      PROVE  /\ q \in Gone => queries'[q] = Closed
             /\ q \in Fails => queries'[q] = new(q)
             /\ q \notin D => queries'[q] = queries[q]
  BY <1>1 DEF Fails, D
<1>10. ASSUME NEW q \in Queries
       PROVE  /\ queries'[q] \in Query \union {Closed}
              /\ queries'[q].lev <= level - 1
              /\ queries'[q].lev > 0 => queries'[q].plan = queries[q].plan
                                        /\ queries[q].lev > 0
              /\ q \notin Gone => queries'[q].lev = queries[q].lev
  <2>1. CASE q \in Gone
    <3>1. queries'[q] = Closed /\ Closed.lev = 0
      BY <1>9, <2>1 DEF Closed
    <3> QED
      BY <1>1, <1>3, <2>1, <3>1
  <2>2. CASE q \in Fails
    <3>1. queries'[q] = new(q) /\ queries[q] \in Query
      BY <1>8, <1>9, <2>2
    <3>2. /\ queries'[q] \in Query /\ queries'[q].lev = queries[q].lev
          /\ queries'[q].plan = queries[q].plan
      BY <3>1, Failed DEF new
    <3>3. queries[q].lev <= level - 1
      BY <1>3, <2>2 DEF Fails, Gone
    <3> QED
      BY <1>8, <2>2, <3>2, <3>3
  <2>3. CASE q \notin D
    <3>1. queries'[q] = queries[q] /\ queries[q].lev <= level - 1
      BY <1>3, <1>9, <2>3 DEF D, Gone
    <3> QED
      BY <1>3, <3>1 DEF QuerySet
  <2> QED
    BY <2>1, <2>2, <2>3 DEF D
<1>11. queries' \in QuerySet
  BY <1>1, <1>10 DEF QuerySet
<1>12. /\ planspans_stack' \in Seq(NodeEntry) /\ sortwrap_stack' \in Seq(SortEntry)
       /\ fdw_scan_stack' \in Seq(NodeEntry)
       /\ Len(planspans_stack') <= Len(planspans_stack)
       /\ Len(sortwrap_stack') <= Len(sortwrap_stack)
       /\ Len(fdw_scan_stack') <= Len(fdw_scan_stack)
       /\ OnTop(planspans_stack') /\ OnTop(sortwrap_stack') /\ OnTop(fdw_scan_stack')
       /\ Survive(Entries(planspans_stack'), P0, D, queries')
       /\ Survive(Entries(sortwrap_stack'), S0, D, queries')
       /\ Survive(Entries(fdw_scan_stack'), F0, D, queries')
  <2>1. /\ planspans_stack \in Seq(NodeEntry) /\ OnTop(planspans_stack)
        /\ sortwrap_stack \in Seq(SortEntry) /\ OnTop(sortwrap_stack)
        /\ fdw_scan_stack \in Seq(NodeEntry) /\ OnTop(fdw_scan_stack)
    BY DEF NodeSpansInv, TypeOK
  <2>2. /\ Fits(P0, "span", queries) /\ Fits(S0, "sort", queries)
        /\ Fits(F0, "fdw", queries)
    BY StateFacts DEF NodeInv
  <2>3. \A q \in Queries : q \notin Gone \union Fails => queries'[q] = queries[q]
    BY <1>9 DEF D
  <2> DEFINE t == Outlived(Kept(planspans_stack), Fails)
  <2>4. /\ t \in Seq(NodeEntry) /\ Len(t) <= Len(planspans_stack) /\ OnTop(t)
        /\ Survive(Entries(t), P0, D, queries')
    BY <2>1, <2>2, <2>3, AbortLeaves DEF P0, D
  <2>5. Nobody \notin O
    <3>1. 0 \notin Gone \union Fails
      BY <1>8, NodeSpansAssumption DEF Gone
    <3> QED
      BY <1>1, <3>1 DEF O, Nobody, PortalOwners
  <2> HIDE DEF t
  <2>6. /\ OwnersRelease(t, O) \in Seq(NodeEntry)
        /\ Len(OwnersRelease(t, O)) = Len(t) /\ OnTop(OwnersRelease(t, O))
        /\ Entries(OwnersRelease(t, O)) = Entries(t)
    BY <2>4, <2>5, OwnersReleased
  <2>7. planspans_stack' = OwnersRelease(t, O)
    BY <1>2 DEF t
  <2>8. /\ sortwrap_stack' \in Seq(SortEntry)
        /\ Len(sortwrap_stack') <= Len(sortwrap_stack)
        /\ OnTop(sortwrap_stack')
        /\ Survive(Entries(sortwrap_stack'), S0, D, queries')
    BY <1>2, <2>1, <2>2, <2>3, AbortLeaves DEF S0, D
  <2>9. /\ fdw_scan_stack' \in Seq(NodeEntry)
        /\ Len(fdw_scan_stack') <= Len(fdw_scan_stack)
        /\ OnTop(fdw_scan_stack')
        /\ Survive(Entries(fdw_scan_stack'), F0, D, queries')
    BY <1>2, <2>1, <2>2, <2>3, AbortLeaves DEF F0, D
  <2> QED
    BY <2>4, <2>6, <2>7, <2>8, <2>9
<1>13. NodesInv'
  <2>1. QueriesEase(queries, queries', D)
    <3> SUFFICES ASSUME NEW r \in Queries, r \notin D, queries[r].lev > 0
                 PROVE  Eases(queries[r], queries'[r])
      BY DEF QueriesEase
    <3> QED
      BY <1>3, <1>9 DEF Eases
  <2>2. NodeInv(Entries(planspans_stack'), Entries(sortwrap_stack'),
                Entries(fdw_scan_stack'), Released(spans, D),
                Forgotten(sorts, D), queries')
    BY <1>11, <1>12, <2>1, StateFacts, NodeInvCarries
  <2> QED
    BY <1>1, <2>2 DEF NodesInv
<1>14. TypeOK'
  <2>1. spans' \in SpanSet /\ sorts' \in [Nodes -> SortStatus]
    BY <1>1, StateFacts DEF Released, Forgotten, SpanSet, SortStatus
  <2>2. level' \in 0..MAX_LEVEL
    BY <1>1, <1>3, NodeSpansAssumption
  <2>3. /\ Len(planspans_stack') <= OTEL_PLANSPANS_STACK_MAX
        /\ Len(sortwrap_stack') <= OTEL_PLANSPANS_STACK_MAX
        /\ Len(fdw_scan_stack') <= OTEL_FDW_SCAN_STACK_MAX
    <3>1. /\ Len(planspans_stack) \in Nat /\ Len(sortwrap_stack) \in Nat
          /\ Len(fdw_scan_stack) \in Nat
          /\ Len(planspans_stack') \in Nat /\ Len(sortwrap_stack') \in Nat
          /\ Len(fdw_scan_stack') \in Nat
      BY <1>12 DEF NodeSpansInv, TypeOK
    <3> QED
      BY <1>12, <3>1, NodeSpansAssumption DEF NodeSpansInv, TypeOK
  <2> QED
    BY <1>1, <1>5, <1>7, <1>11, <1>12, <2>1, <2>2, <2>3
       DEF NodeSpansInv, TypeOK, QuerySet, SpanSet
<1>15. \A k \in 1..base :
         frames[k].node[1] \in Queries /\ frames[k].node[1] \notin Gone
  <2>1. \A k \in 1..base : queries[frames[k].node[1]].lev <= level - 1
    BY <1>4, <1>6, <1>7 DEF NodeSpansInv, LevelsNest
  <2> QED
    BY <1>3, <1>7, <2>1, FrameFacts DEF Gone
<1>16. ASSUME NEW k \in 1..base, frames[k].kind = "sort"
       PROVE  /\ k > 1 /\ sorts'[frames[k].node] = "called"
              /\ frames[k - 1].kind # "sort"
              /\ frames[k - 1].node = <<frames[k].node[1], 0>>
  <2>1. /\ k > 1 /\ sorts[frames[k].node] = "called"
        /\ frames[k - 1].kind # "sort"
        /\ frames[k - 1].node = <<frames[k].node[1], 0>>
        /\ frames[k].node \in Nodes
    BY <1>7, <1>16, FrameFacts DEF NodeSpansInv, CallsNest
  <2>2. k - 1 \in 1..Len(frames) /\ k - 1 < base /\ k <= base
    BY <1>6, <1>7, <2>1
  <2>3. frames[k].node[1] \notin Fails
    <3> SUFFICES ASSUME NEW j \in (base + 1)..Len(frames),
                        frames[j].node[1] = frames[k].node[1]
                 PROVE  FALSE
      BY DEF Fails, base
    <3>1. j \in 1..Len(frames) /\ j > base
      BY <1>6
    <3>2. CASE frames[j].kind # "sort"
      <4>1. /\ RunOf(frames[j], frames[k].node[1])
            /\ RunOf(frames[k - 1], frames[k].node[1])
        BY <2>1, <3>2 DEF RunOf
      <4>2. j = k - 1
        BY <2>2, <3>1, <4>1, OneRun
      <4> QED
        BY <1>6, <2>2, <3>1, <4>2
    <3>3. CASE frames[j].kind = "sort"
      <4>2. /\ j > 1 /\ frames[j - 1].kind # "sort"
            /\ frames[j - 1].node = <<frames[k].node[1], 0>>
        BY <3>1, <3>3 DEF NodeSpansInv, CallsNest
      <4>3. j - 1 \in 1..Len(frames)
        BY <3>1, <4>2
      <4>4. /\ RunOf(frames[j - 1], frames[k].node[1])
            /\ RunOf(frames[k - 1], frames[k].node[1])
        BY <2>1, <4>2 DEF RunOf
      <4>5. j - 1 = k - 1
        BY <2>2, <4>3, <4>4, OneRun
      <4> QED
        BY <1>6, <2>2, <3>1, <4>5
    <3> QED
      BY <3>2, <3>3
  <2>4. sorts'[frames[k].node] = sorts[frames[k].node]
    BY <1>1, <1>15, <2>1, <2>3 DEF Forgotten, D
  <2> QED
    BY <2>1, <2>4
<1>17. CallsNest'
  <2>1. Len(frames') <= MAX_FRAMES
    BY <1>6, <1>7
  <2>2. \A k \in 1..Len(frames') : queries'[frames'[k].node[1]].lev > 0
    BY <1>7, <1>10, <1>15, FrameFacts DEF IsOpen
  <2>3. \A j, k \in 1..Len(frames') :
          (/\ frames'[j].kind # "sort" /\ frames'[k].kind # "sort"
           /\ frames'[j].node[1] = frames'[k].node[1]) => j = k
    BY <1>7 DEF NodeSpansInv, CallsNest
  <2>4. ASSUME NEW k \in 1..Len(frames'), frames'[k].kind = "sort"
        PROVE  /\ k > 1 /\ sorts'[frames'[k].node] = "called"
               /\ frames'[k - 1].kind # "sort"
               /\ frames'[k - 1].node = <<frames'[k].node[1], 0>>
    <3>1. k \in 1..base /\ frames'[k] = frames[k] /\ frames[k].kind = "sort"
      BY <1>7, <2>4
    <3>2. k > 1 => k - 1 \in 1..base
      BY <1>6, <3>1
    <3> QED
      BY <1>7, <1>16, <3>1, <3>2
  <2> QED
    BY <2>1, <2>2, <2>3, <2>4 DEF CallsNest, IsOpen
<1>18. LevelsNest'
  <2>1. Len(bases') = IF level' = 0 THEN 0 ELSE level' - 1
    BY <1>1, <1>3, <1>4, <1>5
  <2>2. \A l \in 1..Len(bases') : l \in 1..Len(bases) /\ l < Len(bases)
    BY <1>3, <1>5
  <2>3. \A l \in 1..Len(bases') : bases'[l] <= Len(frames')
    BY <1>4, <1>5, <1>6, <1>7, <2>2 DEF NodeSpansInv, LevelsNest
  <2>4. \A l, m \in 1..Len(bases') : l < m => bases'[l] <= bases'[m]
    BY <1>5, <2>2 DEF NodeSpansInv, LevelsNest
  <2>5. ASSUME NEW l \in 1..Len(bases'), NEW k \in 1..Len(frames'), k <= bases'[l]
        PROVE  queries'[frames'[k].node[1]].lev <= l
    <3>1. k \in 1..base /\ frames'[k] = frames[k] /\ k \in 1..Len(frames)
      BY <1>7
    <3>2. queries[frames[k].node[1]].lev <= l
      BY <1>5, <2>2, <2>5, <3>1 DEF NodeSpansInv, LevelsNest
    <3> QED
      BY <1>10, <1>15, <3>1, <3>2
  <2>6. \A q \in Queries :
          queries'[q].lev <= level' /\ (IsOpen(q)' => queries'[q].plan \in Plans[q])
    BY <1>1, <1>10 DEF NodeSpansInv, LevelsNest, IsOpen
  <2> QED
    BY <2>1, <2>3, <2>4, <2>5, <2>6 DEF LevelsNest
<1> QED
  BY <1>1, <1>12, <1>13, <1>14, <1>17, <1>18 DEF NodeSpansInv

-----------------------------------------------------------------------------
(* The inductive invariant, for every behaviour: entries that are not dead *)
(* and live nodes account for each other, calls and levels nest.           *)
THEOREM NodeSpansInvariant == Spec => []NodeSpansInv
<1>1. Init => NodeSpansInv
  BY StartsEmpty
<1>2. NodeSpansInv /\ [Next]_vars => NodeSpansInv'
  <2> SUFFICES ASSUME NodeSpansInv, [Next]_vars
               PROVE  NodeSpansInv'
    OBVIOUS
  <2>1. ASSUME NEW q \in Queries, NEW p \in Plans[q], NEW stmt, NEW G,
               PortalStart(q, p, stmt, G) \/ NestedStart(q, p, stmt, G)
        PROVE  NodeSpansInv'
    BY <2>1, PortalStartKeeps, NestedStartKeeps
  <2>2. ASSUME NEW q \in Queries, ExecutorRun(q)
        PROVE  NodeSpansInv'
    BY <2>2, ExecutorRunKeeps
  <2>3. ASSUME NEW q \in Queries, NEW G, PortalEnd(q, G) \/ NestedEnd(q, G)
        PROVE  NodeSpansInv'
    BY <2>3, PortalEndKeeps, NestedEndKeeps
  <2>4. ASSUME NEW n \in Nodes, SortCalled(n)
        PROVE  NodeSpansInv'
    BY <2>4, SortCalledKeeps
  <2>5. CASE CallReturns
    BY <2>5, CallReturnsKeeps
  <2>6. CASE SetChildSpans
    BY <2>6, SetChildSpansKeeps
  <2>7. CASE BeginXact \/ CommitXact
    BY <2>7, LevelKeeps
  <2>8. CASE BeginSub
    BY <2>8, BeginSubKeeps
  <2>9. CASE CommitSub
    BY <2>9, CommitSubKeeps
  <2>10. CASE SubAbort
    BY <2>10, SubAbortKeeps
  <2>11. CASE Abort
    BY <2>11, AbortKeeps
  <2>12. CASE UNCHANGED vars
    BY <2>12, StutterKeeps
  <2> QED
    BY <2>1, <2>2, <2>3, <2>4, <2>5, <2>6, <2>7, <2>8, <2>9, <2>10, <2>11,
       <2>12 DEF Next
<1> QED
  BY <1>1, <1>2, PTL DEF Spec

(* The stacks, spans and queries keep their types, and no stack is filled  *)
(* past its fixed size by a walk.                                          *)
THEOREM NodeStacksFit == Spec => []TypeOK
<1>1. NodeSpansInv => TypeOK
  BY DEF NodeSpansInv
<1> QED
  BY <1>1, NodeSpansInvariant, PTL

(* Every entry that is not dead is the only one of a node that exists, and *)
(* a node entry's span is open: what otel_planspans_subxact_abort and      *)
(* otel_fdw_subxact_abort leave behind is at most dead.                    *)
THEOREM NoEntryMisleads == Spec => []EntriesAreLive
<1>1. NodeSpansInv => EntriesAreLive
  <2> SUFFICES ASSUME NodeSpansInv
               PROVE  EntriesAreLive
    OBVIOUS
  <2>1. \A e \in P0 \union S0 \union F0 : LiveIn(queries, e.node)
    BY StateFacts DEF NodeInv, Fits
  <2>2. \A e \in P0 \union S0 \union F0 : Live(e.node)
    BY <2>1, StateFacts DEF Live, LiveIn, IsOpen
  <2>3. /\ \A i \in 1..Len(planspans_stack) : ~planspans_stack[i].dead =>
             planspans_stack[i] \in P0
        /\ \A i \in 1..Len(sortwrap_stack) : ~sortwrap_stack[i].dead =>
             sortwrap_stack[i] \in S0
        /\ \A i \in 1..Len(fdw_scan_stack) : ~fdw_scan_stack[i].dead =>
             fdw_scan_stack[i] \in F0
    BY DEF P0, S0, F0, Entries, Items
  <2>4. /\ OnTop(planspans_stack) /\ OnTop(sortwrap_stack) /\ OnTop(fdw_scan_stack)
        /\ Len(planspans_stack) \in Nat /\ Len(sortwrap_stack) \in Nat
        /\ Len(fdw_scan_stack) \in Nat
    BY DEF NodeSpansInv, TypeOK
  <2> DEFINE Sound(stk) ==
        \A j, k \in {i \in 1..Len(stk) : ~stk[i].dead} :
          Live(stk[j].node) /\ (stk[j].node = stk[k].node => j = k)
  <2>5. Sound(planspans_stack)
    BY <2>2, <2>3, <2>4 DEF OnTop
  <2>6. Sound(sortwrap_stack)
    BY <2>2, <2>3, <2>4 DEF OnTop
  <2>7. Sound(fdw_scan_stack)
    BY <2>2, <2>3, <2>4 DEF OnTop
  <2>8. \A e \in Items(planspans_stack) \union Items(fdw_scan_stack) :
          ~e.dead => spans[e.node] # NoSpan
    BY StateFacts DEF NodeInv, P0, F0, Entries
  <2> QED
    BY <2>5, <2>6, <2>7, <2>8 DEF EntriesAreLive
<1> QED
  BY <1>1, NodeSpansInvariant, PTL

(* No abort, and no other query's end, takes the entries of a query that   *)
(* no RELEASE has moved: its open spans will be found by its end, and a    *)
(* Sort that is wrapped has the entry sortwrap_exec asks for.              *)
THEOREM NoEntryIsLost == Spec => []EntriesAreKept
<1>1. NodeSpansInv => EntriesAreKept
  <2> SUFFICES ASSUME NodeSpansInv, NEW n \in Nodes, ~queries[n[1]].moved
               PROVE  /\ spans[n] # NoSpan =>
                           \E e \in Items(planspans_stack) \union Items(fdw_scan_stack) :
                             e.node = n /\ ~e.dead
                      /\ sorts[n] # "plain" => Find(sortwrap_stack, n) # 0
    BY DEF EntriesAreKept
  <2>1. spans[n] # NoSpan => \E e \in P0 \union F0 : e.node = n
    BY StateFacts DEF NodeInv, Tracked
  <2>2. sorts[n] # "plain" => \E e \in S0 : e.node = n
    BY StateFacts DEF NodeInv, Tracked
  <2>3. \A e \in S0 : Find(sortwrap_stack, e.node) # 0
    BY FindLive DEF NodeSpansInv, TypeOK, S0
  <2> QED
    BY <2>1, <2>2, <2>3 DEF P0, F0, Entries
<1> QED
  BY <1>1, NodeSpansInvariant, PTL

(* A node's span, or a Sort's, is a child of its statement's span or of an *)
(* ancestor's open one in its own plan, whatever entries of other queries, *)
(* or of one that was at the same addresses before, planspans_parent meets *)
(* on the stack: but a scan's is a child of what is active, and an entry   *)
(* whose span another query left open is taken for the ancestor's.         *)
THEOREM NodesNestInTheirPlan == Spec => []ParentsAreAncestors
<1>1. NodeSpansInv => ParentsAreAncestors
  <2> SUFFICES ASSUME NodeSpansInv,
                      NEW x \in {[node |-> n, parent |-> spans[n]] :
                                   n \in {m \in Nodes : spans[m] # NoSpan}}
                                 \union minted
               PROVE  MayParent(x.parent, x.node, spans, queries)
    BY DEF ParentsAreAncestors, MayParent
  <2>1. CASE x \in minted
    BY <2>1 DEF NodeSpansInv, MayParent
  <2>2. CASE x \notin minted
    <3>1. PICK n \in Nodes :
            spans[n] # NoSpan /\ x = [node |-> n, parent |-> spans[n]]
      BY <2>2
    <3>2. ParentFits(n, spans, queries)
      BY <3>1, StateFacts DEF NodeInv
    <3> QED
      BY <3>1, <3>2 DEF ParentFits
  <2> QED
    BY <2>1, <2>2
<1> QED
  BY <1>1, NodeSpansInvariant, PTL

(* A Sort's span has its measured interval exactly if sortwrap_exec saw    *)
(* its first call return and otel_span_start grants it: at the end of a    *)
(* query that no RELEASE has moved planspans_sort_span loses none, invents *)
(* none, and is refused none because of the parent it asks for.            *)
THEOREM SortsGetTheirSpans == Spec => SortsAreMeasured
<1>1. ASSUME NodeSpansInv, NEW q \in Queries, NEW G, child_spans,
             PortalEnd(q, G) \/ NestedEnd(q, G),
             ~queries[q].moved, ~queries[q].failed,
             NoneDead(planspans_stack, sortwrap_stack, q),
             NEW n \in Nodes, n[1] = q
      PROVE  (\E m \in minted' : m.node = n) <=> (sorts[n] = "done" /\ n \in G)
  <2> DEFINE plan == queries[q].plan
             w == EndWalk(q, plan, G)
  <2>1. IsOpen(q) /\ minted' = w.mi
    BY <1>1 DEF PortalEnd, NestedEnd, ExecutorEnd
  <2>2. Ending(q, plan)
    BY <1>1, <2>1, EndingQuery
  <2>3. Measured(minted', q, Len(plan), G)
    BY <2>1, <2>2, EndWalkDoes DEF EndInv
  <2> HIDE DEF w
  <2>4. n = <<q, n[2]>> /\ n[2] \in Nat \ {0} /\ Len(plan) \in Nat
    BY <1>1, <2>2, NodeFacts, EndingFacts
  <2>5. sorts[n] = "done" <=> \E e \in S0 : e.node = n /\ e.ended
    <3>1. ASSUME sorts[n] = "done"
          PROVE  \E e \in S0 : e.node = n /\ e.ended
      <4>1. Tracked(n, S0, queries)
        BY <1>1, <3>1, StateFacts DEF NodeInv
      <4>2. PICK e \in S0 : e.node = n
        BY <1>1, <4>1 DEF Tracked
      <4> QED
        BY <1>1, <3>1, <4>2, StateFacts DEF NodeInv
    <3>2. ASSUME NEW e \in S0, e.node = n, e.ended
          PROVE  sorts[n] = "done"
      BY <1>1, <3>2, StateFacts DEF NodeInv
    <3> QED
      BY <3>1, <3>2
  <2>6. CASE n[2] \in 1..Len(plan)
    <3>1. (\E m \in minted' : m.node = <<q, n[2]>>) <=> Due(<<q, n[2]>>, G)
      BY <1>1, <2>3, <2>6 DEF Measured
    <3> QED
      BY <2>4, <2>5, <3>1 DEF Due
  <2>7. CASE n[2] \notin 1..Len(plan)
    <3>1. \A m \in minted' : m.node # n
      BY <2>3, <2>4, <2>7 DEF Measured
    <3>2. \A e \in S0 : e.node # n
      BY <1>1, <2>2, <2>7, EndingFacts
    <3> QED
      BY <2>5, <3>1, <3>2
  <2> QED
    BY <2>6, <2>7
<1>2. NodeSpansInv =>
        \A q \in Queries :
          \A G \in SUBSET NodesLike(q, queries[q].plan, {"sort"}) :
            (/\ child_spans /\ ~queries[q].moved /\ ~queries[q].failed
             /\ PortalEnd(q, G) \/ NestedEnd(q, G)
             /\ \A e \in Items(planspans_stack) \union Items(sortwrap_stack) :
                  e.node[1] = q => ~e.dead) =>
              \A n \in {m \in Nodes : m[1] = q} :
                (n \in {m.node : m \in minted'}) = (sorts[n] = "done" /\ n \in G)
  BY <1>1 DEF NoneDead
<1> QED
  BY <1>2, NodeSpansInvariant, PTL DEF SortsAreMeasured
=============================================================================

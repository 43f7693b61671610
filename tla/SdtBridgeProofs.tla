-------------------------- MODULE SdtBridgeProofs ---------------------------
(***************************************************************************)
(* Proofs about the probe bridge, for any depth of its stacks, of          *)
(* transactions and of nested operations, and for any settings.            *)
(***************************************************************************)
EXTENDS SdtBridge, StackFacts

(***************************************************************************)
(* The inductive invariant.                                                *)
(***************************************************************************)

Owners == {NoSpan, SESSION} \union 1..MAX_LEVEL

(* The variables are the sequences TypeOK takes them for.                  *)
Shape ==
    /\ TypeOK
    /\ frames \in Seq(Frame)
    /\ sorts \in Seq(1..MAX_LEVEL)
    /\ active \in Seq(Spans)
    /\ sdt_stack \in Seq(Entry)
    /\ sort_stack \in Seq(Ref)

(* A family that is asked for has both its probes enabled: so the DONE of  *)
(* an entry pushed between two computations of the mask is enabled.        *)
WantedIsEnabled == Wants(wanted) \subseteq mask

(* Frames are at levels that do not fall from the outermost inwards, the   *)
(* innermost at most at the current level; between the transactions of a   *)
(* procedure, at the level the next one will have.                         *)
FrameLevels ==
    /\ \A j, k \in 1..Len(frames) : j < k => frames[j].level <= frames[k].level
    /\ \A k \in 1..Len(frames) : frames[k].level <= level \/ frames[k].level <= 1

(* The transaction's span is nobody else's: it is on no stack, it belongs  *)
(* to the top level as long as it is open, and it is open until a PREPARE. *)
TxnSpanApart ==
    txn_span # 0 => /\ txn_span \notin Stacked \union Items(active)
                    /\ owner[txn_span] \in {NoSpan, 1}
                    /\ ~prepared => owner[txn_span] = 1

SdtInv ==
    /\ Shape
    /\ WantedIsEnabled
    /\ DoneProbesStayEnabled
    /\ FrameLevels
    /\ EntriesFollowNesting
    /\ TxnSpanApart
    /\ OpenSpansAreTracked

(***************************************************************************)
(* Lemmas about otel_api and the mask.                                     *)
(***************************************************************************)

(* A start opens at most the new span, which nothing referred to.          *)
LEMMA StartEffect ==
    ASSUME Shape, NEW s, NEW own \in 0..MAX_LEVEL, NEW detached \in BOOLEAN,
           StartSpan(s, own, detached)
    PROVE  /\ s = 0 \/ s \in Unused
           /\ owner' \in [Spans -> Owners]
           /\ \A t \in Spans : owner'[t] = IF t = s THEN own ELSE owner[t]
           /\ Open' = Open \union ({s} \ {0})
           /\ active' \in Seq(Spans)
           /\ Items(active') \subseteq Open'
           /\ Items(active') \subseteq Items(active) \union {s}
           /\ detached => active' = active
<1> USE SdtAssumption
<1>1. s = 0 \/ s \in Unused
  BY DEF StartSpan
<1>2. owner \in [Spans -> Owners] /\ own \in Owners /\ own # NoSpan
  BY DEF Shape, TypeOK, Owners, NoSpan, SESSION
<1>3. /\ owner' \in [Spans -> Owners]
      /\ \A t \in Spans : owner'[t] = IF t = s THEN own ELSE owner[t]
  <2>1. CASE s = 0
    BY <1>2, <2>1 DEF StartSpan
  <2>2. CASE s # 0
    <3>1. s \in Spans /\ owner' = [owner EXCEPT ![s] = own]
      BY <1>1, <2>2 DEF StartSpan, Unused
    <3> QED
      BY <1>2, <3>1
  <2> QED
    BY <2>1, <2>2
<1>4. Open' = Open \union ({s} \ {0})
  <2>1. s # 0 => s \in Spans
    BY <1>1 DEF Unused
  <2> QED
    BY <1>2, <1>3, <2>1 DEF Open, IsOpen
<1>5. /\ active' \in Seq(Spans)
      /\ Items(active') \subseteq Items(active) \union ({s} \ {0})
      /\ detached => active' = active
  <2>1. CASE s = 0 \/ detached
    BY <2>1 DEF StartSpan, Shape
  <2>2. CASE s # 0 /\ ~detached
    <3>1. s \in Spans /\ active' = Append(active, s)
      BY <1>1, <2>2 DEF StartSpan, Unused
    <3> QED
      BY <2>2, <3>1, PushFacts DEF Shape
  <2> QED
    BY <2>1, <2>2
<1>6. Items(active) \subseteq Open
  BY DEF Shape, TypeOK
<1> QED
  BY <1>1, <1>3, <1>4, <1>5, <1>6

(* When some spans close, they leave the active stack, and the others stay *)
(* open.                                                                   *)
LEMMA GoneEffect ==
    ASSUME Shape, NEW gone, owner' \in [Spans -> Owners],
           active' = Keep(active, Spans \ gone),
           \A t \in Spans : owner'[t] = NoSpan
                              <=> t \in gone \/ owner[t] = NoSpan
    PROVE  /\ Open' = Open \ gone
           /\ active' \in Seq(Spans)
           /\ Items(active') \subseteq Open'
           /\ Items(active') \subseteq Items(active)
<1>1. Open' = Open \ gone
  BY DEF Open, IsOpen
<1>2. active \in Seq(Spans) /\ Items(active) \subseteq Open
  BY DEF Shape, TypeOK
<1>3. /\ active' \in Seq(Spans)
      /\ Items(active') = Items(active) \intersect (Spans \ gone)
  BY <1>2, KeepItems
<1> QED
  BY <1>1, <1>2, <1>3

LEMMA CloseEffect ==
    ASSUME Shape, NEW gone,
           owner' = [t \in Spans |-> IF t \in gone THEN NoSpan ELSE owner[t]],
           active' = Keep(active, Spans \ gone)
    PROVE  /\ owner' \in [Spans -> Owners]
           /\ \A t \in Spans : t \notin gone => owner'[t] = owner[t]
           /\ \A t \in Spans : t \in gone => owner'[t] = NoSpan
           /\ Open' = Open \ gone
           /\ active' \in Seq(Spans)
           /\ Items(active') \subseteq Open'
           /\ Items(active') \subseteq Items(active)
<1>1. owner \in [Spans -> Owners] /\ NoSpan \in Owners
  BY DEF Shape, TypeOK, Owners
<1>2. /\ owner' \in [Spans -> Owners]
      /\ \A t \in Spans : t \notin gone => owner'[t] = owner[t]
      /\ \A t \in Spans : t \in gone => owner'[t] = NoSpan
  BY <1>1
<1>3. \A t \in Spans : owner'[t] = NoSpan <=> t \in gone \/ owner[t] = NoSpan
  BY <1>2
<1> QED
  BY <1>2, <1>3, GoneEffect

(* Ending a span ends it if it is open and, besides it, only spans of the  *)
(* active stack.                                                           *)
LEMMA EndGone ==
    ASSUME Shape, NEW s, otel_span_end(s)
    PROVE  \E gone :
              /\ Close(gone)
              /\ gone \subseteq {s} \union Items(active)
              /\ IsOpen(s) => s \in gone
<1> DEFINE gone == IF IsOpen(s) THEN {s} \union Above(s) ELSE {}
<1>1. Above(s) \subseteq Items(active)
  BY DEF Above, Items
<1>2. Close(gone)
  BY DEF otel_span_end
<1>3. gone \subseteq {s} \union Items(active) /\ (IsOpen(s) => s \in gone)
  BY <1>1
<1> QED
  BY <1>2, <1>3

(* However the mask is computed anew, it suits what the bridge holds.      *)
LEMMA MaskEffect ==
    ASSUME wanted' \in Settings, Items(sdt_stack') \subseteq Entry,
           sdt_sync_probe_mask
    PROVE  mask' \subseteq Probes /\ WantedIsEnabled' /\ DoneProbesStayEnabled'
<1> DEFINE held == OpenFamilies(sdt_stack', sort_stack', txn_span')
<1>0. mask' = Wants(wanted') \union (held \X {"DONE"})
  BY DEF sdt_sync_probe_mask
<1>1. wanted' \subseteq Families
  BY SdtAssumption
<1>2. held \subseteq Families
  BY DEF OpenFamilies, Entry, Families
<1>3. mask' \subseteq Probes
  BY <1>0, <1>1, <1>2 DEF Wants, Probes
<1>4. WantedIsEnabled'
  BY <1>0 DEF WantedIsEnabled, Wants
<1>5. \A fam : fam \in held => Enabled(fam, "DONE")'
  BY <1>0 DEF Enabled
<1>6. \A fam : Enabled(fam, "START")' => fam \in wanted'
  BY <1>0 DEF Enabled, Wants
<1>7. /\ \A e \in Items(sdt_stack') : e.fam \in held
      /\ sort_stack' # <<>> => "sort" \in held
      /\ txn_span' # 0 => "txn" \in held
  BY DEF OpenFamilies
<1> HIDE DEF held
<1>8. DoneProbesStayEnabled'
  BY <1>5, <1>6, <1>7 DEF DoneProbesStayEnabled, Enabled
<1> QED
  BY <1>3, <1>4, <1>8
(***************************************************************************)
(* Lemmas about the parts of the invariant.                                *)
(***************************************************************************)

(* at names the operation that each entry is of.                           *)
Nests(at, st, fr) ==
    /\ at \in [1..Len(st) -> 1..Len(fr)]
    /\ \A j, k \in 1..Len(st) : j < k => at[j] < at[k]
    /\ \A k \in 1..Len(st) : fr[at[k]].fam = st[k].fam

LEMMA NestsIsNesting ==
    EntriesFollowNesting <=> (~skipped => \E at : Nests(at, sdt_stack, frames))
  BY DEF EntriesFollowNesting, Nests

LEMMA NestsAfter ==
    EntriesFollowNesting'
      <=> (~skipped' => \E at : Nests(at, sdt_stack', frames'))
  BY DEF EntriesFollowNesting, Nests

LEMMA NestsEmpty == \A fr : \E at : Nests(at, <<>>, fr)
<1> SUFFICES ASSUME NEW fr
             PROVE  Nests([k \in 1..Len(<<>>) |-> 1], <<>>, fr)
  OBVIOUS
<1>1. Len(<<>>) = 0 /\ 1..0 = {}
  OBVIOUS
<1> QED
  BY <1>1 DEF Nests

(* A frame under which nothing was put on the stack, or something was.     *)
LEMMA NestsPush ==
    ASSUME NEW at, NEW st \in Seq(Entry), NEW fr \in Seq(Frame),
           Nests(at, st, fr), NEW e \in Entry, NEW f \in Frame
    PROVE  /\ \E to : Nests(to, st, Append(fr, f))
           /\ e.fam = f.fam => \E to : Nests(to, Append(st, e), Append(fr, f))
<1> DEFINE n == Len(st)  m == Len(fr)
<1>1. /\ n \in Nat /\ m \in Nat
      /\ Len(Append(st, e)) = n + 1 /\ Len(Append(fr, f)) = m + 1
      /\ \A k \in 1..n : Append(st, e)[k] = st[k]
      /\ \A k \in 1..m : Append(fr, f)[k] = fr[k]
      /\ Append(st, e)[n + 1] = e /\ Append(fr, f)[m + 1] = f
  BY PushFacts
<1>2. /\ at \in [1..n -> 1..m]
      /\ \A j, k \in 1..n : j < k => at[j] < at[k]
      /\ \A k \in 1..n : fr[at[k]].fam = st[k].fam
  BY DEF Nests
<1> DEFINE st2 == Append(st, e)  fr2 == Append(fr, f)
<1> HIDE DEF n, m, st2, fr2
<1>3. Nests(at, st, fr2)
  BY <1>1, <1>2, SMTT(30) DEF Nests, n, fr2
<1>4. ASSUME e.fam = f.fam
      PROVE  Nests([k \in 1..(n + 1) |-> IF k = n + 1 THEN m + 1 ELSE at[k]],
                   st2, fr2)
  <2> DEFINE to == [k \in 1..(n + 1) |-> IF k = n + 1 THEN m + 1 ELSE at[k]]
  <2>1. to \in [1..(n + 1) -> 1..(m + 1)]
    BY <1>1, <1>2
  <2>2. \A k \in 1..n : to[k] = at[k] /\ at[k] \in 1..m
    BY <1>1, <1>2
  <2>3. to[n + 1] = m + 1
    BY <1>1
  <2> HIDE DEF to
  <2>4. ASSUME NEW j \in 1..(n + 1), NEW k \in 1..(n + 1), j < k
        PROVE  to[j] < to[k]
    <3>1. j \in 1..n
      BY <1>1, <2>4
    <3>2. k = n + 1 \/ k \in 1..n
      BY <1>1
    <3> QED
      BY <1>1, <1>2, <2>2, <2>3, <2>4, <3>1, <3>2
  <2>5. ASSUME NEW k \in 1..(n + 1)
        PROVE  fr2[to[k]].fam = st2[k].fam
    <3>1. k = n + 1 \/ k \in 1..n
      BY <1>1
    <3> QED
      BY <1>1, <1>2, <1>4, <2>2, <2>3, <3>1 DEF st2, fr2
  <2>6. Nests(to, st2, fr2)
    BY <1>1, <2>1, <2>4, <2>5 DEF Nests, st2, fr2
  <2> QED
    BY <2>6 DEF to
<1> QED
  BY <1>3, <1>4 DEF st2, fr2

(* The innermost operation ends: with its entry, if the top entry is of    *)
(* its family, or without one, if the top entry is not.                    *)
LEMMA NestsPop ==
    ASSUME NEW at, NEW st \in Seq(Entry), NEW fr \in Seq(Frame),
           Nests(at, st, fr), fr # <<>>
    PROVE  /\ st # <<>> => \E to : Nests(to, Front(st), Front(fr))
           /\ st = <<>> \/ Last(st).fam # Last(fr).fam
                => \E to : Nests(to, st, Front(fr))
<1> DEFINE n == Len(st)  m == Len(fr)
<1>1. /\ n \in Nat /\ m \in Nat \ {0}
      /\ Len(Front(fr)) = m - 1
      /\ \A k \in 1..(m - 1) : Front(fr)[k] = fr[k]
  BY PopFacts
<1>2. /\ at \in [1..n -> 1..m]
      /\ \A j, k \in 1..n : j < k => at[j] < at[k]
      /\ \A k \in 1..n : fr[at[k]].fam = st[k].fam
  BY DEF Nests
<1> DEFINE fr2 == Front(fr)
<1> HIDE DEF fr2
<1>3. ASSUME st # <<>>
      PROVE  \E to : Nests(to, Front(st), fr2)
  <2>1. /\ Len(Front(st)) = n - 1 /\ n # 0
        /\ \A k \in 1..(n - 1) : Front(st)[k] = st[k]
    BY <1>3, PopFacts
  <2> DEFINE st2 == Front(st)
             to == [k \in 1..(n - 1) |-> at[k]]
  <2> HIDE DEF n, m, st2
  <2>2. ASSUME NEW k \in 1..(n - 1)
        PROVE  to[k] = at[k] /\ at[k] \in 1..(m - 1)
    <3>1. k \in 1..n /\ n \in 1..n /\ k < n
      BY <1>1, <2>1
    <3>2. at[k] < at[n] /\ at[n] \in 1..m /\ at[k] \in 1..m
      BY <1>2, <3>1
    <3> QED
      BY <1>1, <3>2
  <2>3. to \in [1..(n - 1) -> 1..(m - 1)]
    BY <2>2
  <2> HIDE DEF to
  <2>4. \A j, k \in 1..(n - 1) : j < k => to[j] < to[k]
    BY <1>1, <1>2, <2>2
  <2>5. ASSUME NEW k \in 1..(n - 1)
        PROVE  fr2[to[k]].fam = st2[k].fam
    <3>1. k \in 1..n /\ at[k] \in 1..(m - 1) /\ to[k] = at[k]
      BY <1>1, <2>2
    <3>2. fr2[at[k]] = fr[at[k]] /\ st2[k] = st[k]
      BY <1>1, <2>1, <3>1 DEF fr2, st2
    <3> QED
      BY <1>2, <3>1, <3>2
  <2>6. Nests(to, st2, fr2)
    BY <1>1, <2>1, <2>3, <2>4, <2>5 DEF Nests, fr2, st2
  <2> QED
    BY <2>6 DEF st2
<1>4. ASSUME st = <<>> \/ Last(st).fam # Last(fr).fam
      PROVE  \E to : Nests(to, st, fr2)
  <2>1. ASSUME NEW k \in 1..n
        PROVE  at[k] \in 1..(m - 1)
    <3>1. n \in 1..n /\ st # <<>> /\ (k < n \/ k = n)
      BY <1>1, <2>1
    <3>2. fr[at[n]].fam # fr[m].fam
      BY <1>2, <1>4, <3>1 DEF Last
    <3>3. at[n] \in 1..m /\ at[k] \in 1..m /\ at[n] # m
      BY <1>2, <3>1, <3>2
    <3>4. k < n => at[k] < at[n]
      BY <1>2, <3>1
    <3> QED
      BY <1>1, <3>1, <3>3, <3>4
  <2>2. at \in [1..n -> 1..(m - 1)]
    BY <1>2, <2>1
  <2>3. \A k \in 1..n : fr2[at[k]].fam = st[k].fam
    BY <1>1, <1>2, <2>1 DEF fr2
  <2>4. Nests(at, st, fr2)
    BY <1>1, <1>2, <2>2, <2>3 DEF Nests, fr2
  <2> QED
    BY <2>4
<1> QED
  BY <1>3, <1>4 DEF fr2

(* Frames of the same families, as many of them, nest the same entries.    *)
LEMMA NestsSame ==
    ASSUME NEW at, NEW st, NEW fr, NEW fr2, Nests(at, st, fr),
           Len(fr2) = Len(fr), \A k \in 1..Len(fr) : fr2[k].fam = fr[k].fam
    PROVE  Nests(at, st, fr2)
  BY DEF Nests

(* The bridge is as it was.                                                *)
LEMMA BridgeKept ==
    ASSUME WantedIsEnabled, DoneProbesStayEnabled, UNCHANGED bridge
    PROVE  WantedIsEnabled' /\ DoneProbesStayEnabled'
  BY DEF WantedIsEnabled, DoneProbesStayEnabled, Enabled, bridge

(***************************************************************************)
(* Every step keeps the invariant.                                         *)
(***************************************************************************)

LEMMA InitSdt == Init => SdtInv
<1> SUFFICES ASSUME Init
             PROVE  SdtInv
  OBVIOUS
<1>1. /\ Items(<<>>) = {} /\ Len(<<>>) = 0 /\ 1..0 = {}
      /\ <<>> \in Seq(Frame) /\ <<>> \in Seq(1..MAX_LEVEL)
      /\ <<>> \in Seq(Spans) /\ <<>> \in Seq(Entry) /\ <<>> \in Seq(Ref)
  BY DEF Items
<1>2. owner \in [Spans -> {NoSpan, SESSION} \union 1..MAX_LEVEL] /\ Open = {}
  BY DEF Init, Open, IsOpen
<1>3. mask \subseteq Probes
  BY SdtAssumption DEF Init, Wants, Probes
<1>4. Shape
  <2>1. /\ Items(frames) \subseteq Frame /\ Len(frames) <= MAX_FRAMES
        /\ Items(sorts) \subseteq 1..MAX_LEVEL /\ level \in 0..MAX_LEVEL
    BY <1>1, SdtAssumption DEF Init
  <2>2. /\ Items(active) \subseteq Open /\ wanted \in Settings
        /\ txn_span \in Ref /\ forgotten \subseteq Open
        /\ skipped \in BOOLEAN /\ prepared \in BOOLEAN
    BY <1>1 DEF Init, Ref
  <2>3. /\ Items(sdt_stack) \subseteq Entry /\ Len(sdt_stack) <= SDT_STACK_SIZE
        /\ Items(sort_stack) \subseteq Ref
        /\ Len(sort_stack) <= SORT_STACK_SIZE
    BY <1>1, SdtAssumption DEF Init
  <2>4. TypeOK
    BY <1>2, <1>3, <2>1, <2>2, <2>3 DEF TypeOK
  <2> QED
    BY <1>1, <2>4 DEF Init, Shape
<1>5. WantedIsEnabled /\ DoneProbesStayEnabled
  BY <1>1 DEF Init, WantedIsEnabled, DoneProbesStayEnabled, Wants, Enabled
<1>6. FrameLevels
  BY <1>1 DEF Init, FrameLevels
<1>7. EntriesFollowNesting
  BY NestsEmpty, NestsIsNesting DEF Init
<1>8. TxnSpanApart /\ OpenSpansAreTracked
  BY <1>2 DEF Init, TxnSpanApart, OpenSpansAreTracked
<1> QED
  BY <1>4, <1>5, <1>6, <1>7, <1>8 DEF SdtInv

LEMMA AssignSdt ==
    ASSUME SdtInv, NEW w \in Settings, sdt_probes_assign_hook(w)
    PROVE  SdtInv'
<1>1. /\ wanted' = w /\ sdt_sync_probe_mask
      /\ UNCHANGED <<sdt_stack, sort_stack, txn_span>>
      /\ UNCHANGED <<frames, sorts, level, owner, active>>
      /\ UNCHANGED <<forgotten, skipped, prepared>>
  BY DEF sdt_probes_assign_hook, core, otel_api, history
<1>2. Shape /\ TypeOK
  BY DEF SdtInv, Shape
<1>3. mask' \subseteq Probes /\ WantedIsEnabled' /\ DoneProbesStayEnabled'
  BY <1>1, <1>2, MaskEffect DEF TypeOK
<1>4. Open' = Open /\ Stacked' = Stacked
  BY <1>1 DEF Open, IsOpen, Stacked
<1>5. Shape'
  BY <1>1, <1>2, <1>3, <1>4 DEF Shape, TypeOK
<1>6. FrameLevels' /\ TxnSpanApart' /\ OpenSpansAreTracked'
  BY <1>1, <1>4 DEF SdtInv, FrameLevels, TxnSpanApart, OpenSpansAreTracked,
                    IsOpen
<1>7. EntriesFollowNesting'
  BY <1>1, NestsIsNesting, NestsAfter DEF SdtInv
<1> QED
  BY <1>3, <1>5, <1>6, <1>7 DEF SdtInv

(* A frame at the current level goes innermost.                            *)
LEMMA PushFrameLevels ==
    ASSUME Shape, FrameLevels, NEW fam \in Nested,
           fam = "query" => frames = <<>>, fam # "query" => level > 0,
           frames' = Append(frames, [fam |-> fam, level |-> level]),
           level' = level
    PROVE  /\ [fam |-> fam, level |-> level] \in Frame
           /\ frames' \in Seq(Frame) /\ Items(frames') \subseteq Frame
           /\ Len(frames') = Len(frames) + 1
           /\ FrameLevels'
<1> DEFINE f == [fam |-> fam, level |-> level]
<1>1. frames \in Seq(Frame) /\ level \in 0..MAX_LEVEL /\ MAX_LEVEL \in Nat
  BY SdtAssumption DEF Shape, TypeOK
<1>2. f \in Frame /\ f.level = level
  BY <1>1 DEF Frame
<1> HIDE DEF f
<1>3. /\ frames' \in Seq(Frame)
      /\ Len(frames') = Len(frames) + 1 /\ Len(frames) \in Nat
      /\ \A k \in 1..Len(frames) : frames'[k] = frames[k]
      /\ frames'[Len(frames) + 1] = f
  BY <1>1, <1>2, PushFacts DEF f
<1>4. Items(frames') \subseteq Frame
  BY <1>3, ItemFacts, ZenonT(30)
<1>5. \A k \in 1..Len(frames) : /\ frames[k].level <= level
                                /\ frames[k].level \in Nat
  <2> SUFFICES ASSUME NEW k \in 1..Len(frames)
               PROVE  frames[k].level <= level /\ frames[k].level \in Nat
    OBVIOUS
  <2>1. level > 0
    BY <1>1
  <2>2. frames[k] \in Frame /\ (frames[k].level <= level \/ frames[k].level <= 1)
    BY <1>1 DEF FrameLevels
  <2>3. frames[k].level \in 0..MAX_LEVEL
    BY <2>2 DEF Frame
  <2> QED
    BY <1>1, <2>1, <2>2, <2>3
<1>6. \A k \in 1..Len(frames') : frames'[k].level <= level'
  <2> SUFFICES ASSUME NEW k \in 1..Len(frames')
               PROVE  frames'[k].level <= level
    OBVIOUS
  <2>1. k = Len(frames) + 1 \/ k \in 1..Len(frames)
    BY <1>3
  <2> QED
    BY <1>1, <1>2, <1>3, <1>5, <2>1
<1>7. ASSUME NEW j \in 1..Len(frames'), NEW k \in 1..Len(frames'), j < k
      PROVE  frames'[j].level <= frames'[k].level
  <2>1. j \in 1..Len(frames) /\ (k = Len(frames) + 1 \/ k \in 1..Len(frames))
    BY <1>3, <1>7
  <2>2. CASE k \in 1..Len(frames)
    BY <1>3, <1>7, <2>1, <2>2 DEF FrameLevels
  <2>3. CASE k = Len(frames) + 1
    BY <1>2, <1>3, <1>5, <2>1, <2>3
  <2> QED
    BY <2>1, <2>2, <2>3
<1> QED
  BY <1>2, <1>3, <1>4, <1>6, <1>7 DEF FrameLevels, f

LEMMA StartsSdt ==
    ASSUME SdtInv, NEW fam \in Nested, NEW root \in BOOLEAN, NEW s \in Ref,
           Starts(fam, root, s)
    PROVE  SdtInv'
<1> DEFINE traced == Enabled(fam, "START") /\ HaveContext(root) /\ ~StackFull
           e == [fam |-> fam, span |-> s]
           f == [fam |-> fam, level |-> level]
<1>1. /\ Len(frames) < MAX_FRAMES
      /\ fam = "query" => frames = <<>>
      /\ fam # "query" => level > 0
      /\ frames' = Append(frames, f)
      /\ level' = level
      /\ UNCHANGED <<sorts, wanted, mask, sort_stack, txn_span>>
      /\ UNCHANGED <<forgotten, skipped, prepared>>
  BY DEF Starts, history
<1>3. Shape /\ TypeOK /\ Len(frames) \in Nat
  BY DEF SdtInv, Shape
<1>4. /\ f \in Frame /\ frames' \in Seq(Frame) /\ Items(frames') \subseteq Frame
      /\ Len(frames') = Len(frames) + 1
      /\ FrameLevels'
  BY <1>1, <1>3, PushFrameLevels DEF SdtInv
<1>5. Len(frames') <= MAX_FRAMES
  BY <1>1, <1>3, <1>4, SdtAssumption
<1>6. e \in Entry /\ e.fam = f.fam /\ e.fam = fam /\ e.span = s
  BY DEF Entry
<1>7. PICK at : ~skipped => Nests(at, sdt_stack, frames)
  BY NestsIsNesting DEF SdtInv
<1>8. CASE traced
  <2>1. /\ StartSpan(s, level, FALSE)
        /\ sdt_stack' = Append(sdt_stack, e)
        /\ Enabled(fam, "START") /\ ~StackFull
    BY <1>8 DEF Starts
  <2>2. /\ s = 0 \/ s \in Unused
        /\ owner' \in [Spans -> Owners]
        /\ \A t \in Spans : owner'[t] = IF t = s THEN level ELSE owner[t]
        /\ Open' = Open \union ({s} \ {0})
        /\ active' \in Seq(Spans)
        /\ Items(active') \subseteq Open'
        /\ Items(active') \subseteq Items(active) \union {s}
    BY <1>3, <2>1, StartEffect DEF TypeOK
  <2>3. /\ sdt_stack' \in Seq(Entry)
        /\ Len(sdt_stack') = Len(sdt_stack) + 1 /\ Len(sdt_stack) \in Nat
        /\ Items(sdt_stack') = Items(sdt_stack) \union {e}
    BY <1>3, <1>6, <2>1, PushFacts DEF Shape
  <2>4. Len(sdt_stack') <= SDT_STACK_SIZE /\ Items(sdt_stack') \subseteq Entry
    BY <1>3, <1>6, <2>1, <2>3, SdtAssumption DEF StackFull, TypeOK
  <2>5. Stacked' = Stacked \union {s}
    BY <1>1, <1>6, <2>3 DEF Stacked
  <2>6. Shape'
    BY <1>1, <1>3, <1>4, <1>5, <2>2, <2>3, <2>4
       DEF Shape, TypeOK, Owners
  <2>7. WantedIsEnabled' /\ DoneProbesStayEnabled'
    <3>1. fam \in wanted /\ <<fam, "DONE">> \in mask
      BY <2>1 DEF SdtInv, DoneProbesStayEnabled, WantedIsEnabled, Wants,
                  Families
    <3> QED
      BY <1>1, <1>6, <2>3, <3>1
         DEF SdtInv, WantedIsEnabled, DoneProbesStayEnabled, Enabled
  <2>8. EntriesFollowNesting'
    <3>1. ~skipped => \E to : Nests(to, sdt_stack', frames')
      BY <1>3, <1>4, <1>6, <1>1, <1>7, <2>1, NestsPush DEF Shape
    <3> QED
      BY <1>1, <3>1, NestsAfter
  <2>9. TxnSpanApart' /\ OpenSpansAreTracked'
    <3>1. txn_span # 0 => txn_span # s /\ txn_span \in Spans
      BY <1>3, <2>2 DEF Unused, TypeOK, Ref
    <3>2. TxnSpanApart'
      BY <1>1, <2>2, <2>5, <3>1 DEF SdtInv, TxnSpanApart
    <3>3. OpenSpansAreTracked'
      BY <1>1, <2>2, <2>5, <3>1
         DEF SdtInv, OpenSpansAreTracked, IsOpen
    <3> QED
      BY <3>2, <3>3
  <2> QED
    BY <1>4, <2>6, <2>7, <2>8, <2>9 DEF SdtInv
<1>9. CASE ~traced
  <2>1. UNCHANGED <<owner, active, sdt_stack>>
    BY <1>9 DEF Starts, otel_api
  <2>2. Open' = Open /\ Stacked' = Stacked
    BY <1>1, <2>1 DEF Open, IsOpen, Stacked
  <2>3. Shape'
    BY <1>1, <1>3, <1>4, <1>5, <2>1, <2>2 DEF Shape, TypeOK
  <2>4. WantedIsEnabled' /\ DoneProbesStayEnabled'
    BY <1>1, <2>1, BridgeKept DEF SdtInv, bridge
  <2>5. EntriesFollowNesting'
    <3>1. ~skipped => \E to : Nests(to, sdt_stack, frames')
      BY <1>3, <1>4, <1>6, <1>1, <1>7, <2>1, NestsPush DEF Shape
    <3> QED
      BY <1>1, <2>1, <3>1, NestsAfter
  <2>6. TxnSpanApart' /\ OpenSpansAreTracked'
    BY <1>1, <2>1, <2>2 DEF SdtInv, TxnSpanApart, OpenSpansAreTracked, IsOpen
  <2> QED
    BY <1>4, <2>3, <2>4, <2>5, <2>6 DEF SdtInv
<1> QED
  BY <1>8, <1>9

(* The innermost frame goes.                                               *)
LEMMA PopFrameLevels ==
    ASSUME Shape, FrameLevels, frames # <<>>, frames' = Front(frames),
           level' = level
    PROVE  /\ frames' \in Seq(Frame) /\ Items(frames') \subseteq Frame
           /\ Len(frames') <= MAX_FRAMES
           /\ FrameLevels'
<1>1. /\ frames' \in Seq(Frame)
      /\ Len(frames') = Len(frames) - 1 /\ Len(frames) \in Nat \ {0}
      /\ \A k \in 1..(Len(frames) - 1) : frames'[k] = frames[k]
  BY PopFacts DEF Shape
<1>2. Items(frames') \subseteq Frame
  BY <1>1, ItemFacts
<1>3. Len(frames') <= MAX_FRAMES
  BY <1>1, SdtAssumption DEF Shape, TypeOK
<1>4. FrameLevels'
  <2>1. \A k \in 1..Len(frames') : k \in 1..Len(frames) /\ frames'[k] = frames[k]
    BY <1>1
  <2> QED
    BY <2>1 DEF FrameLevels
<1> QED
  BY <1>1, <1>2, <1>3, <1>4

(* A span ends that one of the bridge's stacks named: it is not the        *)
(* transaction's, and neither are those above it on the active stack.      *)
LEMMA EndTracked ==
    ASSUME SdtInv, NEW s \in Stacked, otel_span_end(s),
           Stacked \ {s} \subseteq Stacked', Stacked' \subseteq Stacked,
           UNCHANGED <<txn_span, prepared, level>>
    PROVE  /\ owner' \in [Spans -> Owners]
           /\ active' \in Seq(Spans) /\ Items(active') \subseteq Open'
           /\ forgotten' \subseteq Open'
           /\ TxnSpanApart' /\ OpenSpansAreTracked'
<1>1. PICK gone : /\ Close(gone)
                  /\ gone \subseteq {s} \union Items(active)
                  /\ IsOpen(s) => s \in gone
  BY EndGone DEF SdtInv
<1>2. /\ owner' \in [Spans -> Owners]
      /\ \A t \in Spans : t \notin gone => owner'[t] = owner[t]
      /\ Open' = Open \ gone
      /\ active' \in Seq(Spans)
      /\ Items(active') \subseteq Open'
      /\ Items(active') \subseteq Items(active)
  BY <1>1, CloseEffect DEF SdtInv, Close
<1>3. forgotten' = forgotten \ gone /\ forgotten \subseteq Open
  BY <1>1 DEF Close, SdtInv, Shape, TypeOK
<1>4. txn_span # 0 => txn_span \notin gone /\ txn_span \in Spans
  BY <1>1 DEF SdtInv, Shape, TypeOK, Ref, TxnSpanApart
<1>5. TxnSpanApart'
  BY <1>2, <1>4 DEF SdtInv, TxnSpanApart
<1>6. s \notin Open' \/ s \in Stacked'
  BY <1>1, <1>2 DEF Open
<1>7. OpenSpansAreTracked'
  <2>1. (Open \subseteq Stacked \union {txn_span} \union forgotten)'
    BY <1>2, <1>3, <1>6 DEF SdtInv, OpenSpansAreTracked
  <2>2. (txn_span # 0 /\ ~prepared => IsOpen(txn_span) /\ level > 0)'
    BY <1>2, <1>4 DEF SdtInv, OpenSpansAreTracked, IsOpen
  <2> QED
    BY <2>1, <2>2 DEF OpenSpansAreTracked
<1> QED
  BY <1>2, <1>3, <1>5, <1>7

LEMMA DoneSdt ==
    ASSUME SdtInv, Done
    PROVE  SdtInv'
<1> DEFINE match == /\ Enabled(Last(frames).fam, "DONE") /\ sdt_stack # <<>>
                    /\ Last(sdt_stack).fam = Last(frames).fam
<1>1. /\ frames # <<>> /\ frames' = Front(frames)
      /\ UNCHANGED <<wanted, sort_stack, txn_span>>
      /\ UNCHANGED <<sorts, level, skipped, prepared>>
  BY DEF Done
<1>2. Shape /\ TypeOK
  BY DEF SdtInv, Shape
<1>3. /\ frames' \in Seq(Frame) /\ Items(frames') \subseteq Frame
      /\ Len(frames') <= MAX_FRAMES
      /\ FrameLevels'
  BY <1>1, <1>2, PopFrameLevels DEF SdtInv
<1>4. PICK at : ~skipped => Nests(at, sdt_stack, frames)
  BY NestsIsNesting DEF SdtInv
<1>5. CASE match
  <2>1. /\ sdt_stack # <<>> /\ sdt_stack' = Front(sdt_stack)
        /\ sdt_sync_probe_mask
        /\ otel_span_end(Last(sdt_stack).span)
    BY <1>5 DEF Done
  <2>2. /\ sdt_stack' \in Seq(Entry)
        /\ Len(sdt_stack') = Len(sdt_stack) - 1 /\ Len(sdt_stack) \in Nat \ {0}
        /\ Items(sdt_stack) = Items(sdt_stack') \union {Last(sdt_stack)}
    BY <1>2, <2>1, PopFacts DEF Shape
  <2>3. /\ Items(sdt_stack') \subseteq Entry
        /\ Len(sdt_stack') <= SDT_STACK_SIZE
    BY <1>2, <2>2, SdtAssumption DEF TypeOK
  <2>4. mask' \subseteq Probes /\ WantedIsEnabled' /\ DoneProbesStayEnabled'
    BY <1>1, <1>2, <2>1, <2>3, MaskEffect DEF TypeOK
  <2>5. /\ Last(sdt_stack).span \in Stacked
        /\ Stacked' \subseteq Stacked
        /\ Stacked \ {Last(sdt_stack).span} \subseteq Stacked'
    BY <1>1, <2>2 DEF Stacked
  <2>6. /\ owner' \in [Spans -> Owners]
        /\ active' \in Seq(Spans) /\ Items(active') \subseteq Open'
        /\ forgotten' \subseteq Open'
        /\ TxnSpanApart' /\ OpenSpansAreTracked'
    BY <1>1, <2>1, <2>5, EndTracked
  <2>7. Shape'
    BY <1>1, <1>2, <1>3, <2>2, <2>3, <2>4, <2>6 DEF Shape, TypeOK, Owners
  <2>8. EntriesFollowNesting'
    <3>1. ~skipped => \E to : Nests(to, sdt_stack', frames')
      BY <1>1, <1>2, <1>4, <2>1, NestsPop DEF Shape
    <3> QED
      BY <1>1, <3>1, NestsAfter
  <2> QED
    BY <1>3, <2>4, <2>6, <2>7, <2>8 DEF SdtInv
<1>6. CASE ~match
  <2>1. UNCHANGED <<sdt_stack, mask, owner, active, forgotten>>
    BY <1>6 DEF Done, otel_api
  <2>2. Open' = Open /\ Stacked' = Stacked
    BY <1>1, <2>1 DEF Open, IsOpen, Stacked
  <2>3. Shape'
    BY <1>1, <1>2, <1>3, <2>1, <2>2 DEF Shape, TypeOK
  <2>4. WantedIsEnabled' /\ DoneProbesStayEnabled'
    BY <1>1, <2>1, BridgeKept DEF SdtInv, bridge
  <2>5. EntriesFollowNesting'
    <3>1. sdt_stack = <<>> \/ Last(sdt_stack).fam # Last(frames).fam
      <4>1. sdt_stack # <<>> => Enabled(Last(sdt_stack).fam, "DONE")
        BY <1>2, PopFacts DEF Shape, SdtInv, DoneProbesStayEnabled
      <4> QED
        BY <1>6, <4>1
    <3>2. ~skipped => \E to : Nests(to, sdt_stack, frames')
      BY <1>1, <1>2, <1>4, <3>1, NestsPop DEF Shape
    <3> QED
      BY <1>1, <2>1, <3>2, NestsAfter
  <2>6. TxnSpanApart' /\ OpenSpansAreTracked'
    BY <1>1, <2>1, <2>2 DEF SdtInv, TxnSpanApart, OpenSpansAreTracked, IsOpen
  <2> QED
    BY <1>3, <2>3, <2>4, <2>5, <2>6 DEF SdtInv
<1> QED
  BY <1>5, <1>6

LEMMA SortStartsSdt ==
    ASSUME SdtInv, NEW root \in BOOLEAN, NEW s \in Ref, SortStarts(root, s)
    PROVE  SdtInv'
<1> DEFINE traced == /\ Enabled("sort", "START") /\ HaveContext(root)
                     /\ Len(sort_stack) < SORT_STACK_SIZE
<1>1. /\ level > 0 /\ Len(sorts) < MAX_SORTS
      /\ sorts' = Append(sorts, level)
      /\ UNCHANGED <<frames, level, wanted, mask, sdt_stack, txn_span>>
      /\ UNCHANGED <<forgotten, skipped, prepared>>
  BY DEF SortStarts, history
<1>2. Shape /\ TypeOK
  BY DEF SdtInv, Shape
<1>3. sorts' \in Seq(1..MAX_LEVEL) /\ Items(sorts') \subseteq 1..MAX_LEVEL
  <2>1. level \in 1..MAX_LEVEL
    BY <1>1, <1>2, SdtAssumption DEF TypeOK
  <2> QED
    BY <1>1, <1>2, <2>1, PushFacts, ItemFacts DEF Shape
<1>4. FrameLevels' /\ EntriesFollowNesting'
  BY <1>1, NestsIsNesting, NestsAfter DEF SdtInv, FrameLevels
<1>5. CASE traced
  <2>1. /\ StartSpan(s, level, TRUE)
        /\ sort_stack' = Append(sort_stack, s)
        /\ Enabled("sort", "START") /\ Len(sort_stack) < SORT_STACK_SIZE
    BY <1>5 DEF SortStarts
  <2>2. /\ s = 0 \/ s \in Unused
        /\ owner' \in [Spans -> Owners]
        /\ \A t \in Spans : owner'[t] = IF t = s THEN level ELSE owner[t]
        /\ Open' = Open \union ({s} \ {0})
        /\ active' \in Seq(Spans)
        /\ Items(active') \subseteq Open'
        /\ active' = active
    BY <1>2, <2>1, StartEffect DEF TypeOK
  <2>3. /\ sort_stack' \in Seq(Ref)
        /\ Len(sort_stack') = Len(sort_stack) + 1 /\ Len(sort_stack) \in Nat
        /\ Items(sort_stack') = Items(sort_stack) \union {s}
        /\ sort_stack' # <<>>
    BY <1>2, <2>1, PushFacts DEF Shape
  <2>4. /\ Len(sort_stack') <= SORT_STACK_SIZE
        /\ Items(sort_stack') \subseteq Ref
    BY <1>2, <2>1, <2>3, SdtAssumption DEF TypeOK
  <2>5. Stacked' = Stacked \union {s}
    BY <1>1, <2>3 DEF Stacked
  <2>6. Shape'
    BY <1>1, <1>2, <1>3, <2>2, <2>3, <2>4 DEF Shape, TypeOK, Owners
  <2>7. WantedIsEnabled' /\ DoneProbesStayEnabled'
    <3>1. "sort" \in wanted /\ <<"sort", "DONE">> \in mask
      BY <2>1 DEF SdtInv, DoneProbesStayEnabled, WantedIsEnabled, Wants,
                  Families
    <3> QED
      BY <1>1, <3>1
         DEF SdtInv, WantedIsEnabled, DoneProbesStayEnabled, Enabled
  <2>8. TxnSpanApart' /\ OpenSpansAreTracked'
    <3>1. txn_span # 0 => txn_span # s /\ txn_span \in Spans
      BY <1>2, <2>2 DEF Unused, TypeOK, Ref
    <3>2. TxnSpanApart'
      BY <1>1, <2>2, <2>5, <3>1 DEF SdtInv, TxnSpanApart
    <3>3. OpenSpansAreTracked'
      BY <1>1, <2>2, <2>5, <3>1
         DEF SdtInv, OpenSpansAreTracked, IsOpen
    <3> QED
      BY <3>2, <3>3
  <2> QED
    BY <1>4, <2>6, <2>7, <2>8 DEF SdtInv
<1>6. CASE ~traced
  <2>1. UNCHANGED <<owner, active, sort_stack>>
    BY <1>6 DEF SortStarts, otel_api
  <2>2. Open' = Open /\ Stacked' = Stacked
    BY <1>1, <2>1 DEF Open, IsOpen, Stacked
  <2>3. Shape'
    BY <1>1, <1>2, <1>3, <2>1, <2>2 DEF Shape, TypeOK
  <2>4. WantedIsEnabled' /\ DoneProbesStayEnabled'
    BY <1>1, <2>1, BridgeKept DEF SdtInv, bridge
  <2>5. TxnSpanApart' /\ OpenSpansAreTracked'
    BY <1>1, <2>1, <2>2 DEF SdtInv, TxnSpanApart, OpenSpansAreTracked, IsOpen
  <2> QED
    BY <1>4, <2>3, <2>4, <2>5 DEF SdtInv
<1> QED
  BY <1>5, <1>6

LEMMA SortDoneSdt ==
    ASSUME SdtInv, NEW k \in 1..MAX_SORTS, SortDone(k)
    PROVE  SdtInv'
<1>1. /\ k \in 1..Len(sorts) /\ sorts' = Remove(sorts, k)
      /\ UNCHANGED <<wanted, sdt_stack, txn_span>>
      /\ UNCHANGED <<frames, level, skipped, prepared>>
  BY DEF SortDone
<1>2. Shape /\ TypeOK
  BY DEF SdtInv, Shape
<1>3. sorts' \in Seq(1..MAX_LEVEL) /\ Items(sorts') \subseteq 1..MAX_LEVEL
  BY <1>1, <1>2, RemoveFacts, ItemFacts DEF Shape
<1>4. FrameLevels' /\ EntriesFollowNesting'
  BY <1>1, NestsIsNesting, NestsAfter DEF SdtInv, FrameLevels
<1>5. CASE Enabled("sort", "DONE") /\ sort_stack # <<>>
  <2>1. /\ sort_stack # <<>> /\ sort_stack' = Front(sort_stack)
        /\ sdt_sync_probe_mask /\ otel_span_end(Last(sort_stack))
    BY <1>5 DEF SortDone
  <2>2. /\ sort_stack' \in Seq(Ref)
        /\ Len(sort_stack') = Len(sort_stack) - 1
        /\ Len(sort_stack) \in Nat \ {0}
        /\ Items(sort_stack) = Items(sort_stack') \union {Last(sort_stack)}
    BY <1>2, <2>1, PopFacts DEF Shape
  <2>3. /\ Items(sort_stack') \subseteq Ref
        /\ Len(sort_stack') <= SORT_STACK_SIZE
    BY <1>2, <2>2, SdtAssumption DEF TypeOK
  <2>4. mask' \subseteq Probes /\ WantedIsEnabled' /\ DoneProbesStayEnabled'
    BY <1>1, <1>2, <2>1, MaskEffect DEF TypeOK
  <2>5. /\ Last(sort_stack) \in Stacked
        /\ Stacked' \subseteq Stacked
        /\ Stacked \ {Last(sort_stack)} \subseteq Stacked'
    BY <1>1, <2>2 DEF Stacked
  <2>6. /\ owner' \in [Spans -> Owners]
        /\ active' \in Seq(Spans) /\ Items(active') \subseteq Open'
        /\ forgotten' \subseteq Open'
        /\ TxnSpanApart' /\ OpenSpansAreTracked'
    BY <1>1, <2>1, <2>5, EndTracked
  <2>7. Shape'
    BY <1>1, <1>2, <1>3, <2>2, <2>3, <2>4, <2>6 DEF Shape, TypeOK, Owners
  <2> QED
    BY <1>4, <2>4, <2>6, <2>7 DEF SdtInv
<1>6. CASE ~(Enabled("sort", "DONE") /\ sort_stack # <<>>)
  <2>1. UNCHANGED <<sort_stack, mask, owner, active, forgotten>>
    BY <1>6 DEF SortDone, otel_api
  <2>2. Open' = Open /\ Stacked' = Stacked
    BY <1>1, <2>1 DEF Open, IsOpen, Stacked
  <2>3. Shape'
    BY <1>1, <1>2, <1>3, <2>1, <2>2 DEF Shape, TypeOK
  <2>4. WantedIsEnabled' /\ DoneProbesStayEnabled'
    BY <1>1, <2>1, BridgeKept DEF SdtInv, bridge
  <2>5. TxnSpanApart' /\ OpenSpansAreTracked'
    BY <1>1, <2>1, <2>2 DEF SdtInv, TxnSpanApart, OpenSpansAreTracked, IsOpen
  <2> QED
    BY <1>4, <2>3, <2>4, <2>5 DEF SdtInv
<1> QED
  BY <1>5, <1>6

LEMMA TransactionStartSdt ==
    ASSUME SdtInv, NEW s \in Ref, TransactionStart(s)
    PROVE  SdtInv'
<1>1. /\ level = 0 /\ level' = 1
      /\ UNCHANGED <<frames, sorts, wanted, mask, sdt_stack, sort_stack>>
      /\ UNCHANGED <<forgotten, skipped, prepared>>
  BY DEF TransactionStart, history
<1>2. Shape /\ TypeOK /\ level' \in 0..MAX_LEVEL /\ 1 \in 0..MAX_LEVEL
  BY <1>1, SdtAssumption DEF SdtInv, Shape
<1>3. EntriesFollowNesting' /\ Stacked' = Stacked
  BY <1>1, NestsIsNesting, NestsAfter DEF SdtInv, Stacked
<1>4. FrameLevels'
  <2> SUFFICES ASSUME NEW k \in 1..Len(frames)
               PROVE  frames[k].level <= 1
    BY <1>1 DEF SdtInv, FrameLevels
  <2>1. frames[k] \in Frame
    BY <1>2 DEF Shape
  <2>2. frames[k].level \in 0..MAX_LEVEL
    BY <2>1 DEF Frame
  <2>3. frames[k].level <= 0 \/ frames[k].level <= 1
    BY <1>1 DEF SdtInv, FrameLevels
  <2> QED
    BY <2>2, <2>3, SdtAssumption
<1>5. CASE Enabled("txn", "START") /\ txn_span = 0
  <2>1. StartSpan(s, 1, TRUE) /\ txn_span' = s
    BY <1>5 DEF TransactionStart
  <2>2. /\ s = 0 \/ s \in Unused
        /\ owner' \in [Spans -> Owners]
        /\ \A t \in Spans : owner'[t] = IF t = s THEN 1 ELSE owner[t]
        /\ Open' = Open \union ({s} \ {0})
        /\ active' \in Seq(Spans)
        /\ Items(active') \subseteq Open'
        /\ active' = active
    BY <1>2, <2>1, StartEffect
  <2>3. Shape'
    BY <1>1, <1>2, <2>1, <2>2 DEF Shape, TypeOK, Owners
  <2>4. WantedIsEnabled' /\ DoneProbesStayEnabled'
    <3>1. "txn" \in wanted /\ <<"txn", "DONE">> \in mask
      BY <1>5 DEF SdtInv, DoneProbesStayEnabled, WantedIsEnabled, Wants,
                  Families
    <3> QED
      BY <1>1, <3>1
         DEF SdtInv, WantedIsEnabled, DoneProbesStayEnabled, Enabled
  <2>5. TxnSpanApart' /\ OpenSpansAreTracked'
    <3>1. s # 0 => s \in Spans /\ s \notin Stacked \union Items(active)
                     /\ owner'[s] = 1
      BY <1>2, <2>2 DEF Unused, TypeOK
    <3>2. TxnSpanApart'
      BY <1>1, <1>3, <2>1, <2>2, <3>1 DEF TxnSpanApart
    <3>3. OpenSpansAreTracked'
      <4>1. (Open \subseteq Stacked \union {txn_span} \union forgotten)'
        BY <1>1, <1>3, <1>5, <2>1, <2>2 DEF SdtInv, OpenSpansAreTracked,
                                            Open, IsOpen
      <4>2. (txn_span # 0 /\ ~prepared => IsOpen(txn_span) /\ level > 0)'
        BY <1>1, <2>1, <3>1 DEF IsOpen, NoSpan
      <4> QED
        BY <4>1, <4>2 DEF OpenSpansAreTracked
    <3> QED
      BY <3>2, <3>3
  <2> QED
    BY <1>3, <1>4, <2>3, <2>4, <2>5 DEF SdtInv
<1>6. CASE ~(Enabled("txn", "START") /\ txn_span = 0)
  <2>1. UNCHANGED <<owner, active, txn_span>>
    BY <1>6 DEF TransactionStart, otel_api
  <2>2. Open' = Open
    BY <1>1, <2>1 DEF Open, IsOpen
  <2>3. Shape'
    BY <1>1, <1>2, <2>1, <2>2 DEF Shape, TypeOK
  <2>4. WantedIsEnabled' /\ DoneProbesStayEnabled'
    BY <1>1, <2>1, BridgeKept DEF SdtInv, bridge
  <2>5. TxnSpanApart' /\ OpenSpansAreTracked'
    BY <1>1, <1>3, <2>1, <2>2
       DEF SdtInv, TxnSpanApart, OpenSpansAreTracked, IsOpen
  <2> QED
    BY <1>3, <1>4, <2>3, <2>4, <2>5 DEF SdtInv
<1> QED
  BY <1>5, <1>6

(* At the end of a transaction the frames that stay are at levels at most  *)
(* that of the next one.                                                   *)
LEMMA EndFrameLevels ==
    ASSUME Shape, FrameLevels, level = 1, level' = 0, frames' = frames
    PROVE  FrameLevels'
<1> SUFFICES ASSUME NEW k \in 1..Len(frames)
             PROVE  frames[k].level <= 1
  BY DEF FrameLevels
<1>1. frames[k].level <= level \/ frames[k].level <= 1
  BY DEF FrameLevels
<1> QED
  BY <1>1

LEMMA CommitSdt ==
    ASSUME SdtInv, Commit
    PROVE  SdtInv'
<1> DEFINE probed == Enabled("txn", "DONE")
           gone == OwnedFrom(1) \union
                     (IF probed /\ IsOpen(txn_span) THEN {txn_span} ELSE {})
<1>1. /\ level = 1 /\ level' = 0 /\ wanted' = wanted
      /\ owner'  = [t \in Spans |-> IF t \in gone THEN NoSpan ELSE owner[t]]
      /\ active' = Keep(active, Spans \ gone)
      /\ UNCHANGED <<frames, sorts>>
  BY DEF Commit, MayCommit
<1>2. IF probed
      THEN /\ txn_span' = 0 /\ sdt_stack' = <<>> /\ sort_stack' = <<>>
           /\ sdt_sync_probe_mask
           /\ forgotten' = (forgotten \union (Stacked \intersect Open)) \ gone
           /\ skipped' = FALSE /\ prepared' = FALSE
      ELSE /\ UNCHANGED <<txn_span, sdt_stack, sort_stack, mask>>
           /\ forgotten' = forgotten \ gone
           /\ UNCHANGED <<skipped, prepared>>
  BY DEF Commit
<1> HIDE DEF gone
<1>3. Shape /\ TypeOK
  BY DEF SdtInv, Shape
<1>4. /\ owner' \in [Spans -> Owners]
      /\ \A t \in Spans : t \notin gone => owner'[t] = owner[t]
      /\ Open' = Open \ gone
      /\ active' \in Seq(Spans)
      /\ Items(active') \subseteq Open'
      /\ Items(active') \subseteq Items(active)
  BY <1>1, <1>3, CloseEffect
<1>5. FrameLevels'
  BY <1>1, <1>3, EndFrameLevels DEF SdtInv
<1>6. level' \in 0..MAX_LEVEL
  BY <1>1, SdtAssumption
<1>7. CASE probed
  <2>1. /\ txn_span' = 0 /\ sdt_stack' = <<>> /\ sort_stack' = <<>>
        /\ sdt_sync_probe_mask
        /\ forgotten' = (forgotten \union (Stacked \intersect Open)) \ gone
        /\ skipped' = FALSE /\ prepared' = FALSE
    BY <1>2, <1>7
  <2>2. /\ Items(sdt_stack') = {} /\ Items(sort_stack') = {}
        /\ Len(sdt_stack') <= SDT_STACK_SIZE
        /\ Len(sort_stack') <= SORT_STACK_SIZE
        /\ sdt_stack' \in Seq(Entry) /\ sort_stack' \in Seq(Ref)
    BY <2>1, SdtAssumption DEF Items
  <2>3. mask' \subseteq Probes /\ WantedIsEnabled' /\ DoneProbesStayEnabled'
    BY <1>1, <1>3, <2>1, <2>2, MaskEffect DEF TypeOK
  <2>4. forgotten' \subseteq Open'
    BY <1>3, <1>4, <2>1 DEF TypeOK
  <2>5. Shape'
    BY <1>1, <1>3, <1>4, <1>6, <2>1, <2>2, <2>3, <2>4
       DEF Shape, TypeOK, Owners, Ref
  <2>6. EntriesFollowNesting'
    BY <2>1, NestsEmpty, NestsAfter
  <2>7. TxnSpanApart' /\ OpenSpansAreTracked'
    <3>1. txn_span \in Open => txn_span \in gone
      BY <1>7 DEF gone, Open
    <3>2. Open' \subseteq forgotten'
      BY <1>4, <2>1, <3>1 DEF SdtInv, OpenSpansAreTracked
    <3> QED
      BY <2>1, <3>2 DEF TxnSpanApart, OpenSpansAreTracked
  <2> QED
    BY <1>5, <2>3, <2>5, <2>6, <2>7 DEF SdtInv
<1>8. CASE ~probed
  <2>1. /\ UNCHANGED <<txn_span, sdt_stack, sort_stack, mask>>
        /\ forgotten' = forgotten \ gone
        /\ UNCHANGED <<skipped, prepared>>
    BY <1>2, <1>8
  <2>2. txn_span = 0
    BY <1>8 DEF SdtInv, DoneProbesStayEnabled
  <2>3. Shape' /\ Stacked' = Stacked
    BY <1>1, <1>3, <1>4, <1>6, <2>1 DEF Shape, TypeOK, Owners, Stacked
  <2>4. WantedIsEnabled' /\ DoneProbesStayEnabled'
    BY <1>1, <2>1, BridgeKept DEF SdtInv, bridge
  <2>5. EntriesFollowNesting'
    BY <1>1, <2>1, NestsIsNesting, NestsAfter DEF SdtInv
  <2>6. TxnSpanApart' /\ OpenSpansAreTracked'
    BY <1>4, <2>1, <2>2, <2>3 DEF SdtInv, TxnSpanApart, OpenSpansAreTracked
  <2> QED
    BY <1>5, <2>3, <2>4, <2>5, <2>6 DEF SdtInv
<1> QED
  BY <1>7, <1>8

(* Spans close while the bridge keeps what it holds.                       *)
LEMMA CloseKeepingBridge ==
    ASSUME SdtInv, NEW l \in 1..MAX_LEVEL, Close(OwnedFrom(l)),
           UNCHANGED bridge
    PROVE  /\ owner' \in [Spans -> Owners]
           /\ active' \in Seq(Spans) /\ Items(active') \subseteq Open'
           /\ forgotten' \subseteq Open'
           /\ WantedIsEnabled' /\ DoneProbesStayEnabled'
           /\ (Open \subseteq Stacked \union {txn_span} \union forgotten)'
           /\ txn_span # 0 => /\ txn_span \notin Stacked' \union Items(active')
                              /\ owner'[txn_span] \in {NoSpan, 1}
                              /\ l > 1 => owner'[txn_span] = owner[txn_span]
<1> DEFINE gone == OwnedFrom(l)
<1>1. /\ owner' \in [Spans -> Owners]
      /\ \A t \in Spans : t \notin gone => owner'[t] = owner[t]
      /\ \A t \in Spans : t \in gone => owner'[t] = NoSpan
      /\ Open' = Open \ gone
      /\ active' \in Seq(Spans)
      /\ Items(active') \subseteq Open'
      /\ Items(active') \subseteq Items(active)
  BY CloseEffect DEF SdtInv, Close
<1>2. forgotten' = forgotten \ gone /\ forgotten \subseteq Open
  BY DEF Close, SdtInv, Shape, TypeOK
<1>3. Stacked' = Stacked /\ txn_span' = txn_span
  BY DEF Stacked, bridge
<1>4. (Open \subseteq Stacked \union {txn_span} \union forgotten)'
  BY <1>1, <1>2, <1>3 DEF SdtInv, OpenSpansAreTracked
<1>5. ASSUME txn_span # 0
      PROVE  /\ txn_span \notin Stacked' \union Items(active')
             /\ owner'[txn_span] \in {NoSpan, 1}
             /\ l > 1 => owner'[txn_span] = owner[txn_span]
  <2>1. /\ txn_span \in Spans /\ txn_span \notin Stacked \union Items(active)
        /\ owner[txn_span] \in {NoSpan, 1}
    BY <1>5 DEF SdtInv, Shape, TypeOK, Ref, TxnSpanApart
  <2>2. l > 1 => txn_span \notin gone
    BY <2>1 DEF OwnedFrom, NoSpan
  <2> QED
    BY <1>1, <1>3, <2>1, <2>2
<1>6. WantedIsEnabled' /\ DoneProbesStayEnabled'
  BY BridgeKept DEF SdtInv
<1> QED
  BY <1>1, <1>2, <1>4, <1>5, <1>6

LEMMA PrepareSdt ==
    ASSUME SdtInv, Prepare
    PROVE  SdtInv'
<1>1. /\ level = 1 /\ level' = 0 /\ Close(OwnedFrom(1))
      /\ prepared' = (txn_span # 0)
      /\ UNCHANGED <<frames, sorts, wanted, mask, sdt_stack, sort_stack>>
      /\ UNCHANGED <<txn_span, skipped, bridge>>
  BY DEF Prepare, bridge
<1>2. Shape /\ TypeOK /\ 1 \in 1..MAX_LEVEL /\ level' \in 0..MAX_LEVEL
  BY <1>1, SdtAssumption DEF SdtInv, Shape
<1>3. /\ owner' \in [Spans -> Owners]
      /\ active' \in Seq(Spans) /\ Items(active') \subseteq Open'
      /\ forgotten' \subseteq Open'
      /\ WantedIsEnabled' /\ DoneProbesStayEnabled'
      /\ (Open \subseteq Stacked \union {txn_span} \union forgotten)'
      /\ txn_span # 0 => /\ txn_span \notin Stacked' \union Items(active')
                         /\ owner'[txn_span] \in {NoSpan, 1}
  BY <1>1, <1>2, CloseKeepingBridge
<1>4. Shape'
  BY <1>1, <1>2, <1>3 DEF Shape, TypeOK, Owners
<1>5. FrameLevels' /\ EntriesFollowNesting'
  BY <1>1, <1>2, EndFrameLevels, NestsIsNesting, NestsAfter DEF SdtInv
<1>6. TxnSpanApart' /\ OpenSpansAreTracked'
  BY <1>1, <1>3 DEF TxnSpanApart, OpenSpansAreTracked
<1> QED
  BY <1>3, <1>4, <1>5, <1>6 DEF SdtInv

LEMMA AbortSdt ==
    ASSUME SdtInv, NEW keep \in BOOLEAN, AbortTransaction(keep)
    PROVE  SdtInv'
<1> DEFINE gone == Discarded \union OwnedFrom(1)
<1>1. /\ keep => level = 1
      /\ frames' = IF keep THEN frames ELSE <<>>
      /\ sorts' = <<>> /\ level' = 0
      /\ txn_span' = 0 /\ sdt_stack' = <<>> /\ sort_stack' = <<>>
      /\ wanted' = wanted /\ sdt_sync_probe_mask
      /\ Close(gone)
      /\ skipped' = FALSE /\ prepared' = FALSE
  BY DEF AbortTransaction
<1>2. Shape /\ TypeOK /\ level' \in 0..MAX_LEVEL
  BY <1>1, SdtAssumption DEF SdtInv, Shape
<1> HIDE DEF gone
<1>3. /\ owner' \in [Spans -> Owners]
      /\ Open' = Open \ gone
      /\ active' \in Seq(Spans)
      /\ Items(active') \subseteq Open'
      /\ forgotten' = forgotten \ gone
  BY <1>1, <1>2, CloseEffect DEF Close
<1>4. /\ Items(sdt_stack') = {} /\ Items(sort_stack') = {}
      /\ Items(sorts') = {}
      /\ Len(sdt_stack') <= SDT_STACK_SIZE
      /\ Len(sort_stack') <= SORT_STACK_SIZE
      /\ sdt_stack' \in Seq(Entry) /\ sort_stack' \in Seq(Ref)
      /\ sorts' \in Seq(1..MAX_LEVEL)
  BY <1>1, SdtAssumption DEF Items
<1>5. mask' \subseteq Probes /\ WantedIsEnabled' /\ DoneProbesStayEnabled'
  BY <1>1, <1>2, <1>4, MaskEffect DEF TypeOK
<1>6. /\ frames' \in Seq(Frame) /\ Items(frames') \subseteq Frame
      /\ Len(frames') <= MAX_FRAMES
  <2>1. CASE keep
    BY <1>1, <1>2, <2>1 DEF Shape, TypeOK
  <2>2. CASE ~keep
    BY <1>1, <2>2, SdtAssumption DEF Items
  <2> QED
    BY <2>1, <2>2
<1>7. forgotten' \subseteq Open'
  BY <1>2, <1>3 DEF TypeOK
<1>8. Shape'
  BY <1>1, <1>2, <1>3, <1>4, <1>5, <1>6, <1>7 DEF Shape, TypeOK, Owners, Ref
<1>9. FrameLevels'
  <2>1. CASE keep
    BY <1>1, <1>2, <2>1, EndFrameLevels DEF SdtInv
  <2>2. CASE ~keep
    <3>1. Len(frames') = 0
      BY <1>1, <2>2
    <3> QED
      BY <3>1 DEF FrameLevels
  <2> QED
    BY <2>1, <2>2
<1>10. EntriesFollowNesting'
  BY <1>1, NestsEmpty, NestsAfter
<1>11. TxnSpanApart' /\ OpenSpansAreTracked'
  <2>1. txn_span \in Open => txn_span \in gone
    <3> SUFFICES ASSUME txn_span \in Open
                 PROVE  txn_span \in OwnedFrom(1)
      BY DEF gone
    <3>1. txn_span # 0 /\ txn_span \in Spans /\ owner[txn_span] = 1
      BY DEF Open, IsOpen, SdtInv, TxnSpanApart
    <3> QED
      BY <3>1 DEF OwnedFrom
  <2>2. Stacked \subseteq gone
    BY DEF gone, Discarded
  <2>3. Open' \subseteq forgotten'
    BY <1>3, <2>1, <2>2 DEF SdtInv, OpenSpansAreTracked
  <2> QED
    BY <1>1, <2>3 DEF TxnSpanApart, OpenSpansAreTracked
<1> QED
  BY <1>5, <1>8, <1>9, <1>10, <1>11 DEF SdtInv

LEMMA BeginSubSdt ==
    ASSUME SdtInv, BeginSub
    PROVE  SdtInv'
<1>1. /\ level \in 1..MAX_LEVEL - 1 /\ level' = level + 1
      /\ UNCHANGED <<frames, sorts, owner, active, wanted, mask, sdt_stack>>
      /\ UNCHANGED <<sort_stack, txn_span, forgotten, skipped, prepared>>
      /\ UNCHANGED bridge
  BY DEF BeginSub, otel_api, bridge, history
<1>2. /\ Shape /\ TypeOK /\ level' \in 0..MAX_LEVEL
      /\ \A k \in 1..Len(frames) : frames[k] \in Frame
  BY <1>1, SdtAssumption DEF SdtInv, Shape
<1>3. Open' = Open /\ Stacked' = Stacked
  BY <1>1 DEF Open, IsOpen, Stacked
<1>4. Shape'
  BY <1>1, <1>2, <1>3 DEF Shape, TypeOK
<1>5. FrameLevels'
  <2>1. \A k \in 1..Len(frames) : frames[k].level \in 0..MAX_LEVEL
    BY <1>2 DEF Frame
  <2> QED
    BY <1>1, <2>1, SdtAssumption DEF SdtInv, FrameLevels
<1>6. WantedIsEnabled' /\ DoneProbesStayEnabled'
  BY <1>1, BridgeKept DEF SdtInv
<1>7. EntriesFollowNesting'
  BY <1>1, NestsIsNesting, NestsAfter DEF SdtInv
<1>8. TxnSpanApart' /\ OpenSpansAreTracked'
  BY <1>1, <1>3 DEF SdtInv, TxnSpanApart, OpenSpansAreTracked, IsOpen
<1> QED
  BY <1>4, <1>5, <1>6, <1>7, <1>8 DEF SdtInv

LEMMA CommitSubSdt ==
    ASSUME SdtInv, CommitSub
    PROVE  SdtInv'
<1> DEFINE gone == OwnedFrom(level) \ Items(sort_stack)
           low(f) == IF f.level = level THEN [f EXCEPT !.level = level - 1]
                     ELSE f
<1>1. /\ level > 1 /\ level' = level - 1
      /\ sorts' = [k \in 1..Len(sorts) |->
                     IF sorts[k] = level THEN level - 1 ELSE sorts[k]]
      /\ owner' = [t \in Spans |->
                     IF t \in gone THEN NoSpan
                     ELSE IF owner[t] = level THEN level - 1 ELSE owner[t]]
      /\ active' = Keep(active, Spans \ gone)
      /\ frames' = [k \in 1..Len(frames) |-> low(frames[k])]
      /\ forgotten' = forgotten \ gone
      /\ UNCHANGED <<wanted, mask, sdt_stack, sort_stack, txn_span>>
      /\ UNCHANGED <<bridge, skipped, prepared>>
  BY DEF CommitSub, bridge
<1>2. /\ Shape /\ TypeOK /\ MAX_LEVEL \in Nat /\ level \in 2..MAX_LEVEL
      /\ level' \in 1..MAX_LEVEL
      /\ \A k \in 1..Len(frames) : frames[k] \in Frame
      /\ Len(frames) \in Nat /\ Len(sorts) \in Nat
  <2>1. Shape /\ TypeOK
    BY DEF SdtInv, Shape
  <2>2. level \in 0..MAX_LEVEL /\ MAX_LEVEL \in Nat
    BY <2>1, SdtAssumption DEF TypeOK
  <2>3. level \in 2..MAX_LEVEL /\ level' \in 1..MAX_LEVEL
    BY <1>1, <2>2
  <2>4. /\ \A k \in 1..Len(frames) : frames[k] \in Frame
        /\ Len(frames) \in Nat /\ Len(sorts) \in Nat
    BY <2>1 DEF Shape
  <2> QED
    BY <2>1, <2>2, <2>3, <2>4
<1>3. /\ owner' \in [Spans -> Owners]
      /\ \A t \in Spans : owner'[t] = NoSpan
                            <=> t \in gone \/ owner[t] = NoSpan
      /\ \A t \in Spans : t \notin gone /\ owner[t] # level
                            => owner'[t] = owner[t]
  <2>1. owner \in [Spans -> Owners] /\ level - 1 \in Owners
    BY <1>2 DEF TypeOK, Owners
  <2>2. NoSpan \in Owners /\ level - 1 # NoSpan /\ level # NoSpan
    BY <1>2 DEF Owners, NoSpan
  <2> HIDE DEF gone
  <2> QED
    BY <1>1, <2>1, <2>2
<1>4. /\ Open' = Open \ gone
      /\ active' \in Seq(Spans)
      /\ Items(active') \subseteq Open'
      /\ Items(active') \subseteq Items(active)
  BY <1>1, <1>2, <1>3, GoneEffect
<1>5. sorts' \in Seq(1..MAX_LEVEL) /\ Items(sorts') \subseteq 1..MAX_LEVEL
  <2>1. sorts' \in [1..Len(sorts) -> 1..MAX_LEVEL]
    BY <1>1, <1>2 DEF Shape
  <2>2. sorts' \in Seq(1..MAX_LEVEL)
    BY <1>2, <2>1
  <2> QED
    BY <2>2, ItemFacts
<1>6. ASSUME NEW k \in 1..Len(frames)
      PROVE  /\ frames'[k] \in Frame /\ frames'[k].fam = frames[k].fam
             /\ frames[k].level \in 0..MAX_LEVEL
             /\ frames'[k].level = IF frames[k].level = level THEN level - 1
                                   ELSE frames[k].level
  <2>1. frames'[k] = low(frames[k]) /\ frames[k] \in Frame
    BY <1>1, <1>2, <1>6
  <2>2. level - 1 \in 0..MAX_LEVEL
    BY <1>2
  <2> QED
    BY <2>1, <2>2 DEF Frame
<1>7. frames' \in Seq(Frame) /\ Len(frames') = Len(frames)
  <2>1. frames' \in [1..Len(frames) -> Frame]
    BY <1>1, <1>6
  <2> QED
    BY <1>2, <2>1
<1>8. Items(frames') \subseteq Frame
  BY <1>7, ItemFacts
<1>9. Shape'
  <2>1. forgotten' \subseteq Open'
    BY <1>1, <1>2, <1>4 DEF TypeOK
  <2>2. level' \in 0..MAX_LEVEL /\ Len(frames') <= MAX_FRAMES
    BY <1>2, <1>7 DEF TypeOK
  <2> HIDE DEF gone, low
  <2>3. /\ wanted' \in Settings /\ mask' \subseteq Probes
        /\ Items(sdt_stack') \subseteq Entry
        /\ Len(sdt_stack') <= SDT_STACK_SIZE
        /\ Items(sort_stack') \subseteq Ref
        /\ Len(sort_stack') <= SORT_STACK_SIZE
        /\ txn_span' \in Ref
        /\ skipped' \in BOOLEAN /\ prepared' \in BOOLEAN
        /\ sdt_stack' \in Seq(Entry) /\ sort_stack' \in Seq(Ref)
    BY <1>1, <1>2 DEF Shape, TypeOK
  <2>4. TypeOK'
    BY <1>3, <1>4, <1>5, <1>8, <2>1, <2>2, <2>3 DEF TypeOK, Owners
  <2> QED
    BY <1>4, <1>5, <1>7, <2>3, <2>4 DEF Shape
<1>10. FrameLevels'
  <2>1. \A k \in 1..Len(frames) : frames[k].level <= level
    BY <1>2, <1>6 DEF SdtInv, FrameLevels
  <2>2. ASSUME NEW k \in 1..Len(frames)
        PROVE  frames'[k].level <= level'
    <3>1. frames[k].level \in 0..MAX_LEVEL /\ frames[k].level <= level
      BY <1>6, <2>1
    <3>2. frames'[k].level = IF frames[k].level = level THEN level - 1
                             ELSE frames[k].level
      BY <1>6
    <3>3. level' = level - 1
      BY <1>1
    <3> QED
      BY <1>2, <3>1, <3>2, <3>3
  <2>3. ASSUME NEW j \in 1..Len(frames), NEW k \in 1..Len(frames), j < k
        PROVE  frames'[j].level <= frames'[k].level
    <3>1. frames[j].level <= frames[k].level
      BY <2>3 DEF SdtInv, FrameLevels
    <3> QED
      BY <1>2, <1>6, <2>1, <3>1, SMTT(30)
  <2> QED
    BY <1>7, <2>2, <2>3 DEF FrameLevels
<1>11. WantedIsEnabled' /\ DoneProbesStayEnabled'
  BY <1>1, BridgeKept DEF SdtInv
<1>12. EntriesFollowNesting'
  <2>1. PICK at : ~skipped => Nests(at, sdt_stack, frames)
    BY NestsIsNesting DEF SdtInv
  <2>2. ~skipped' => Nests(at, sdt_stack', frames')
    BY <1>1, <1>6, <1>7, <2>1, NestsSame
  <2> QED
    BY <2>2, NestsAfter
<1>13. TxnSpanApart' /\ OpenSpansAreTracked'
  <2>1. Stacked' = Stacked
    BY <1>1 DEF Stacked
  <2>2. ASSUME txn_span # 0
        PROVE  owner'[txn_span] = owner[txn_span]
    <3>1. txn_span \in Spans /\ owner[txn_span] \in {NoSpan, 1}
      BY <1>2, <2>2 DEF TypeOK, Ref, SdtInv, TxnSpanApart
    <3>2. txn_span \notin gone /\ owner[txn_span] # level
      BY <1>2, <3>1 DEF OwnedFrom, NoSpan
    <3> HIDE DEF gone
    <3> QED
      BY <1>3, <3>1, <3>2
  <2>3. TxnSpanApart'
    BY <1>1, <1>4, <2>1, <2>2 DEF SdtInv, TxnSpanApart
  <2>4. OpenSpansAreTracked'
    <3>1. (Open \subseteq Stacked \union {txn_span} \union forgotten)'
      BY <1>1, <1>4, <2>1 DEF SdtInv, OpenSpansAreTracked
    <3>2. (txn_span # 0 /\ ~prepared => IsOpen(txn_span) /\ level > 0)'
      BY <1>1, <1>2, <2>2 DEF SdtInv, OpenSpansAreTracked, IsOpen
    <3> QED
      BY <3>1, <3>2 DEF OpenSpansAreTracked
  <2> QED
    BY <2>3, <2>4
<1> QED
  BY <1>9, <1>10, <1>11, <1>12, <1>13 DEF SdtInv

(* An error in a subtransaction closes what its level owns, which the      *)
(* transaction's span is not.                                              *)
LEMMA InnerErrorSdt ==
    ASSUME SdtInv, level > 1, Close(OwnedFrom(level)), level' > 0,
           UNCHANGED bridge, UNCHANGED prepared
    PROVE  /\ owner' \in [Spans -> Owners]
           /\ active' \in Seq(Spans) /\ Items(active') \subseteq Open'
           /\ forgotten' \subseteq Open'
           /\ WantedIsEnabled' /\ DoneProbesStayEnabled'
           /\ TxnSpanApart' /\ OpenSpansAreTracked'
<1>1. level \in 1..MAX_LEVEL /\ MAX_LEVEL \in Nat
  BY SdtAssumption DEF SdtInv, Shape, TypeOK
<1>2. /\ owner' \in [Spans -> Owners]
      /\ active' \in Seq(Spans) /\ Items(active') \subseteq Open'
      /\ forgotten' \subseteq Open'
      /\ WantedIsEnabled' /\ DoneProbesStayEnabled'
      /\ (Open \subseteq Stacked \union {txn_span} \union forgotten)'
      /\ txn_span # 0 => /\ txn_span \notin Stacked' \union Items(active')
                         /\ owner'[txn_span] = owner[txn_span]
  BY <1>1, CloseKeepingBridge
<1>3. txn_span' = txn_span /\ prepared' = prepared
  BY DEF bridge
<1>4. TxnSpanApart' /\ OpenSpansAreTracked'
  BY <1>2, <1>3 DEF SdtInv, TxnSpanApart, OpenSpansAreTracked, IsOpen
<1> QED
  BY <1>2, <1>4

LEMMA CatchErrorSdt ==
    ASSUME SdtInv, CatchError
    PROVE  SdtInv'
<1> DEFINE S == {f \in Items(frames) : f.level < level}
<1>1. /\ level > 1 /\ frames # <<>> /\ level' = level - 1
      /\ frames' = Keep(frames, S)
      /\ sorts'  = Keep(sorts, 1..(level - 1))
      /\ Close(OwnedFrom(level))
      /\ skipped' = (skipped \/ (Inner /\ sdt_stack # <<>>))
      /\ UNCHANGED <<bridge, prepared>>
      /\ UNCHANGED <<wanted, mask, sdt_stack, sort_stack, txn_span>>
  BY DEF CatchError, bridge
<1>2. /\ Shape /\ TypeOK /\ MAX_LEVEL \in Nat /\ level \in 2..MAX_LEVEL
      /\ level' \in 1..MAX_LEVEL /\ level' > 0
      /\ frames \in Seq(Frame) /\ Len(frames) \in Nat \ {0}
      /\ \A k \in 1..Len(frames) : frames[k] \in Frame
  BY <1>1, SdtAssumption, SMTT(30) DEF SdtInv, Shape, TypeOK
<1>3. \A k \in 1..Len(frames) : frames[k].level \in 0..MAX_LEVEL
  BY <1>2 DEF Frame
<1>4. /\ owner' \in [Spans -> Owners]
      /\ active' \in Seq(Spans) /\ Items(active') \subseteq Open'
      /\ forgotten' \subseteq Open'
      /\ WantedIsEnabled' /\ DoneProbesStayEnabled'
      /\ TxnSpanApart' /\ OpenSpansAreTracked'
  BY <1>1, <1>2, InnerErrorSdt
<1>5. /\ frames' \in Seq(Frame) /\ Items(frames') \subseteq Frame
      /\ Len(frames') <= MAX_FRAMES
  <2>1. frames' \in Seq(Frame) /\ Len(frames') <= Len(frames)
    BY <1>1, <1>2, KeepItems
  <2>2. Len(frames') \in Nat /\ Items(frames') \subseteq Frame
    BY <2>1, ItemFacts
  <2> QED
    BY <1>2, <2>1, <2>2, SdtAssumption DEF TypeOK
<1>6. sorts' \in Seq(1..MAX_LEVEL) /\ Items(sorts') \subseteq 1..MAX_LEVEL
  BY <1>1, <1>2, KeepItems, ItemFacts DEF Shape
<1>7. Shape'
  BY <1>1, <1>2, <1>4, <1>5, <1>6 DEF Shape, TypeOK, Owners
<1>8. FrameLevels'
  <2>1. PICK at : Picks(at, Len(frames), frames, S, frames')
    BY <1>1, <1>2, KeepPicks
  <2>2. ASSUME NEW k \in 1..Len(frames')
        PROVE  /\ at[k] \in 1..Len(frames) /\ frames'[k] = frames[at[k]]
               /\ frames'[k].level <= level'
    <3>1. /\ at[k] \in 1..Len(frames) /\ frames'[k] = frames[at[k]]
          /\ frames'[k].level < level
      BY <2>1 DEF Picks
    <3> QED
      BY <1>1, <1>2, <1>3, <3>1
  <2>3. ASSUME NEW j \in 1..Len(frames'), NEW k \in 1..Len(frames'), j < k
        PROVE  frames'[j].level <= frames'[k].level
    <3>1. at[j] < at[k]
      BY <2>1, <2>3 DEF Picks
    <3> QED
      BY <2>2, <3>1 DEF SdtInv, FrameLevels
  <2> QED
    BY <2>2, <2>3 DEF FrameLevels
<1>9. EntriesFollowNesting'
  <2>1. CASE sdt_stack = <<>>
    BY <1>1, <2>1, NestsEmpty, NestsAfter
  <2>2. CASE sdt_stack # <<>> /\ ~Inner
    <3>1. frames[Len(frames)].level # level
      BY <1>1, <2>2 DEF Inner, Last
    <3>2. frames[Len(frames)].level < level
      <4>1. Len(frames) \in 1..Len(frames)
        BY <1>2
      <4>2. \/ frames[Len(frames)].level <= level
            \/ frames[Len(frames)].level <= 1
        BY <4>1 DEF SdtInv, FrameLevels
      <4> QED
        BY <1>2, <1>3, <3>1, <4>1, <4>2
    <3>3. ASSUME NEW k \in 1..Len(frames)
          PROVE  frames[k] \in S
      <4>1. k = Len(frames) \/ (k < Len(frames) /\ Len(frames) \in 1..Len(frames))
        BY <1>2
      <4>2. frames[k].level <= frames[Len(frames)].level
        BY <1>2, <1>3, <4>1 DEF SdtInv, FrameLevels
      <4>3. frames[k].level < level
        BY <1>2, <1>3, <3>2, <4>1, <4>2
      <4> QED
        BY <4>3 DEF Items
    <3>4. Items(frames) \subseteq S
      BY <3>3 DEF Items
    <3>5. frames' = frames
      BY <1>1, <1>2, <3>4, KeepAll
    <3> QED
      BY <1>1, <3>5, NestsIsNesting, NestsAfter DEF SdtInv
  <2>3. CASE sdt_stack # <<>> /\ Inner
    BY <1>1, <2>3, NestsAfter
  <2> QED
    BY <2>1, <2>2, <2>3
<1> QED
  BY <1>4, <1>7, <1>8, <1>9 DEF SdtInv

LEMMA RollbackToSdt ==
    ASSUME SdtInv, RollbackTo
    PROVE  SdtInv'
<1>1. /\ level > 1 /\ sorts' = Keep(sorts, 1..(level - 1))
      /\ Close(OwnedFrom(level))
      /\ UNCHANGED <<bridge, frames, level, skipped, prepared>>
      /\ UNCHANGED <<wanted, mask, sdt_stack, sort_stack, txn_span>>
  BY DEF RollbackTo, bridge
<1>2. Shape /\ TypeOK /\ level' > 0
  BY <1>1, SdtAssumption, SMTT(30) DEF SdtInv, Shape, TypeOK
<1>3. /\ owner' \in [Spans -> Owners]
      /\ active' \in Seq(Spans) /\ Items(active') \subseteq Open'
      /\ forgotten' \subseteq Open'
      /\ WantedIsEnabled' /\ DoneProbesStayEnabled'
      /\ TxnSpanApart' /\ OpenSpansAreTracked'
  BY <1>1, <1>2, InnerErrorSdt
<1>4. sorts' \in Seq(1..MAX_LEVEL) /\ Items(sorts') \subseteq 1..MAX_LEVEL
  <2>1. sorts \in Seq(1..MAX_LEVEL)
    BY <1>2 DEF Shape
  <2>2. sorts' \in Seq(1..MAX_LEVEL)
    BY <1>1, <2>1, KeepItems
  <2> QED
    BY <2>2, ItemFacts
<1>5. Shape'
  BY <1>1, <1>2, <1>3, <1>4 DEF Shape, TypeOK, Owners
<1>6. FrameLevels' /\ EntriesFollowNesting'
  BY <1>1, NestsIsNesting, NestsAfter DEF SdtInv, FrameLevels
<1> QED
  BY <1>3, <1>5, <1>6 DEF SdtInv

LEMMA StepSdt == SdtInv /\ [Next]_vars => SdtInv'
<1> SUFFICES ASSUME SdtInv, [Next]_vars
             PROVE  SdtInv'
  OBVIOUS
<1>1. ASSUME NEW w \in Settings, sdt_probes_assign_hook(w)
      PROVE  SdtInv'
  BY <1>1, AssignSdt
<1>2. ASSUME NEW fam \in Nested, NEW root \in BOOLEAN, NEW s \in Ref,
             Starts(fam, root, s)
      PROVE  SdtInv'
  BY <1>2, StartsSdt
<1>3. ASSUME NEW root \in BOOLEAN, NEW s \in Ref, SortStarts(root, s)
      PROVE  SdtInv'
  BY <1>3, SortStartsSdt
<1>4. ASSUME NEW k \in 1..MAX_SORTS, SortDone(k)
      PROVE  SdtInv'
  BY <1>4, SortDoneSdt
<1>5. ASSUME NEW s \in Ref, TransactionStart(s)
      PROVE  SdtInv'
  BY <1>5, TransactionStartSdt
<1>6. ASSUME NEW keep \in BOOLEAN, AbortTransaction(keep)
      PROVE  SdtInv'
  BY <1>6, AbortSdt
<1>7. CASE UNCHANGED vars
  <2>1. /\ UNCHANGED <<frames, sorts, level, owner, active, wanted, mask>>
        /\ UNCHANGED <<sdt_stack, sort_stack, txn_span, forgotten>>
        /\ UNCHANGED <<skipped, prepared, bridge>>
    BY <1>7 DEF vars, core, otel_api, bridge, history
  <2>2. Open' = Open /\ Stacked' = Stacked
    BY <2>1 DEF Open, IsOpen, Stacked
  <2>3. Shape'
    BY <2>1, <2>2 DEF SdtInv, Shape, TypeOK
  <2>4. WantedIsEnabled' /\ DoneProbesStayEnabled'
    BY <2>1, BridgeKept DEF SdtInv
  <2>5. FrameLevels' /\ EntriesFollowNesting'
    BY <2>1, NestsIsNesting, NestsAfter DEF SdtInv, FrameLevels
  <2>6. TxnSpanApart' /\ OpenSpansAreTracked'
    BY <2>1, <2>2 DEF SdtInv, TxnSpanApart, OpenSpansAreTracked, IsOpen
  <2> QED
    BY <2>3, <2>4, <2>5, <2>6 DEF SdtInv
<1>8. CASE Done
  BY <1>8, DoneSdt
<1>9. CASE Commit
  BY <1>9, CommitSdt
<1>10. CASE Prepare
  BY <1>10, PrepareSdt
<1>11. CASE BeginSub
  BY <1>11, BeginSubSdt
<1>12. CASE CommitSub
  BY <1>12, CommitSubSdt
<1>13. CASE CatchError
  BY <1>13, CatchErrorSdt
<1>14. CASE RollbackTo
  BY <1>14, RollbackToSdt
<1> QED
  BY <1>1, <1>2, <1>3, <1>4, <1>5, <1>6, <1>7, <1>8, <1>9, <1>10, <1>11,
     <1>12, <1>13, <1>14 DEF Next

(***************************************************************************)
(* Theorems.                                                               *)
(***************************************************************************)

LEMMA SdtInvHolds == Spec => []SdtInv
  BY InitSdt, StepSdt, PTL DEF Spec

(* Every variable keeps its type; in particular sdt_stack and sort_stack   *)
(* never hold more handles than their arrays have room for.                *)
THEOREM StacksAreNotOverrun == Spec => []TypeOK
<1>1. SdtInv => TypeOK
  BY DEF SdtInv, Shape
<1> QED
  BY <1>1, SdtInvHolds, PTL

(* The DONE probe of every span the bridge holds is enabled, however       *)
(* otel.trace_sdt_probes is set in between (sdt_sync_probe_mask).          *)
THEOREM HeldSpansGetTheirDone == Spec => []DoneProbesStayEnabled
<1>1. SdtInv => DoneProbesStayEnabled
  BY DEF SdtInv
<1> QED
  BY <1>1, SdtInvHolds, PTL

(* Until an error is caught in a subtransaction, the entries of sdt_stack  *)
(* are those of running operations, in the order in which they nest, so    *)
(* that sdt_pop by family finds the operation's own entry.                 *)
THEOREM StackFollowsNesting == Spec => []EntriesFollowNesting
<1>1. SdtInv => EntriesFollowNesting
  BY DEF SdtInv
<1> QED
  BY <1>1, SdtInvHolds, PTL

(* Every open span of the bridge is on one of its stacks, is the           *)
(* transaction's or was forgotten by a COMMIT probe, and the transaction's *)
(* is open until a PREPARE.                                                *)
THEOREM NoSpanIsLost == Spec => []OpenSpansAreTracked
<1>1. SdtInv => OpenSpansAreTracked
  BY DEF SdtInv
<1> QED
  BY <1>1, SdtInvHolds, PTL
=============================================================================

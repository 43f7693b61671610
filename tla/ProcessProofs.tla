--------------------------- MODULE ProcessProofs ----------------------------
(***************************************************************************)
(* Proofs about what a process is given to work with: where a span's       *)
(* remote parent comes from, which is the root trace context, for any set  *)
(* of contexts, of statements and of texts, and the parallel-worker        *)
(* context slots, for any number of backends, lives and spans; and how the *)
(* modules of a process find each other, for any finite set of exporters,  *)
(* any units, any tables they were built for and any order of loading.     *)
(***************************************************************************)
EXTENDS SqlComment, ParallelContext, ModuleLoading, FiniteSetTheorems, TLAPS

(***************************************************************************)
(* The root trace context.  Everything is proved of RootContext's          *)
(* specification and of SqlComment's, whose steps differ only in where a   *)
(* comment's context comes from.                                           *)
(***************************************************************************)

(* A step of either specification, as far as the root context goes: a      *)
(* comment offers some context, or None.                                   *)
CommentOffers ==
    /\ \E c : root_ctx' = Commented(root_ctx, c)
    /\ ready' = FALSE
    /\ UNCHANGED <<guc, undo, otel_ctx_from_M_header, in_xact, m_seen>>

Step == \/ MessageM \/ Begin \/ SetStatement \/ CommentOffers
        \/ StatementEnds \/ EndXact \/ ReadyForQuery

(* The flag of an 'M' message is only up while the request that carried    *)
(* the message lasts.                                                      *)
FlagMeansMessage == otel_ctx_from_M_header => m_seen

(* The inductive invariant of the three theorems.                          *)
RootInv == RootContextIsTheSetting /\ FlagMeansMessage

(* Both specifications take no other steps.                                *)
LEMMA NextIsStep == [Next]_rcVars => [Step]_rcVars
  BY DEF Next, Step, StatementStarts, CommentOffers

LEMMA CommentNextIsStep == [CommentNext]_<<rcVars, sql>> => [Step]_rcVars
<1> SUFFICES ASSUME [CommentNext]_<<rcVars, sql>>
             PROVE  [Step]_rcVars
  OBVIOUS
<1>1. ASSUME NEW s \in Statements, ReadStatement(s)
      PROVE  CommentOffers
  BY <1>1 DEF ReadStatement, CommentOffers
<1>2. CASE StatementRuns
  BY <1>2 DEF StatementRuns
<1>3. CASE CommentNext
  BY <1>1, <1>2, <1>3 DEF CommentNext, Step
<1> QED
  BY <1>3

(* assign_traceparent makes the context the one of the value it assigns,   *)
(* or resets it.                                                           *)
LEMMA AssignAgrees ==
    ASSUME NEW v, assign_traceparent(v)
    PROVE  RootContextIsTheSetting'
  BY DEF assign_traceparent, Assigned, ResetCtx, RootContextIsTheSetting

(* So does putting a value back, if the hook is skipped as well.           *)
LEMMA RestoreAgrees ==
    ASSUME RootContextIsTheSetting, NEW v, Restored(v)
    PROVE  RootContextIsTheSetting'
<1>1. CASE assign_traceparent(v)
  BY <1>1, AssignAgrees
<1>2. CASE UNCHANGED <<guc, root_ctx>>
  BY <1>2 DEF RootContextIsTheSetting
<1> QED
  BY <1>1, <1>2 DEF Restored

LEMMA XactEndAgrees ==
    ASSUME RootContextIsTheSetting, GucAtCommit \/ GucAtAbort
    PROVE  RootContextIsTheSetting'
<1>1. CASE UNCHANGED <<guc, root_ctx>>
  BY <1>1 DEF RootContextIsTheSetting
<1>2. CASE Restored(undo.prior) \/ Restored(undo.masked)
  BY <1>2, RestoreAgrees
<1>3. GucAtCommit => UNCHANGED <<guc, root_ctx>> \/ Restored(undo.prior)
                       \/ Restored(undo.masked)
  BY Zenon DEF GucAtCommit
<1>4. GucAtAbort => UNCHANGED <<guc, root_ctx>> \/ Restored(undo.prior)
  BY DEF GucAtAbort
<1> QED
  BY <1>1, <1>2, <1>3, <1>4

LEMMA InitRoot == Init => RootInv
  BY DEF Init, RootInv, ResetCtx, RootContextIsTheSetting, FlagMeansMessage

LEMMA StepRoot == RootInv /\ [Step]_rcVars => RootInv'
<1> SUFFICES ASSUME RootInv, [Step]_rcVars
             PROVE  RootInv'
  OBVIOUS
<1> USE DEF RootInv
<1>1. CASE MessageM
  <2>1. FlagMeansMessage'
    BY <1>1 DEF MessageM, FlagMeansMessage
  <2>2. ASSUME NEW c, trace_context_apply(MValue(c))
        PROVE  RootContextIsTheSetting'
    BY <2>2, AssignAgrees DEF trace_context_apply, SetConfig
  <2>3. CASE trace_context_rejected
    BY <2>1, <2>3 DEF trace_context_rejected, gucVars, RootContextIsTheSetting
  <2> QED
    BY <1>1, <2>1, <2>2, <2>3 DEF MessageM
<1>2. CASE Begin
  BY <1>2 DEF Begin, rootVars, gucVars, RootContextIsTheSetting,
              FlagMeansMessage
<1>3. CASE SetStatement
  <2>1. PICK v, local : SetConfig(v, local)
    BY <1>3 DEF SetStatement
  <2> QED
    BY <1>3, <2>1, AssignAgrees DEF SetConfig, SetStatement, FlagMeansMessage
<1>4. CASE CommentOffers
  BY <1>4 DEF CommentOffers, Commented, RootContextIsTheSetting,
              FlagMeansMessage
<1>5. CASE StatementEnds
  BY <1>5 DEF StatementEnds, Uncommented, ResetCtx, RootContextIsTheSetting,
              FlagMeansMessage
<1>6. CASE EndXact
  BY <1>6, XactEndAgrees DEF EndXact, FlagMeansMessage
<1>7. CASE ReadyForQuery
  BY <1>7 DEF ReadyForQuery, trace_context_clear, ResetCtx,
              RootContextIsTheSetting, FlagMeansMessage
<1>8. CASE UNCHANGED rcVars
  BY <1>8 DEF rcVars, rootVars, gucVars, RootContextIsTheSetting,
              FlagMeansMessage
<1> QED
  BY <1>1, <1>2, <1>3, <1>4, <1>5, <1>6, <1>7, <1>8 DEF Step

LEMMA RootInvariant == Spec => []RootInv
  BY InitRoot, NextIsStep, StepRoot, PTL DEF Spec

LEMMA CommentRootInvariant == CommentSpec => []RootInv
<1>1. CommentInit => RootInv
  BY InitRoot DEF CommentInit
<1> QED
  BY <1>1, CommentNextIsStep, StepRoot, PTL DEF CommentSpec

(***************************************************************************)
(* Theorems.                                                               *)
(***************************************************************************)

(* A root context that is set, and not by a comment, is the value of       *)
(* otel_api.traceparent: no sequence of messages, SETs, SET LOCALs,        *)
(* rollbacks and clears in otel.c separates the two.                       *)
THEOREM SettingIsShown == Spec => []RootContextIsTheSetting
<1>1. RootInv => RootContextIsTheSetting
  BY DEF RootInv
<1> QED
  BY <1>1, RootInvariant, PTL

(* The same when statements' texts are scanned for comments, whatever the  *)
(* scanner of otel.c finds in them.                                        *)
THEOREM SettingIsShownWithComments == CommentSpec => []RootContextIsTheSetting
<1>1. RootInv => RootContextIsTheSetting
  BY DEF RootInv
<1> QED
  BY <1>1, CommentRootInvariant, PTL

(* otel_try_apply_sqlcommenter_context never replaces a context that a     *)
(* message or the setting installed, for any statement text.               *)
THEOREM CommentsNeverOverride == CommentSpec => ClientContextWins
<1>1. RootInv /\ [Step]_rcVars =>
        [root_ctx.is_set /\ ~root_ctx.from_comment
            => ~root_ctx'.from_comment]_rcVars
  <2> SUFFICES ASSUME [Step]_rcVars, root_ctx.is_set, ~root_ctx.from_comment,
                      ~UNCHANGED rcVars
               PROVE  ~root_ctx'.from_comment
    OBVIOUS
  <2>1. ASSUME NEW v, assign_traceparent(v)
        PROVE  ~root_ctx'.from_comment
    BY <2>1 DEF assign_traceparent, Assigned, ResetCtx
  <2>2. ASSUME NEW v, Restored(v)
        PROVE  ~root_ctx'.from_comment
    BY <2>1, <2>2 DEF Restored
  <2>3. CASE MessageM
    <3>1. ASSUME NEW c, trace_context_apply(MValue(c))
          PROVE  ~root_ctx'.from_comment
      BY <2>1, <3>1 DEF trace_context_apply, SetConfig
    <3> QED
      BY <2>3, <3>1 DEF MessageM, trace_context_rejected, gucVars
  <2>4. CASE Begin \/ CommentOffers \/ StatementEnds \/ ReadyForQuery
    BY <2>4 DEF Begin, CommentOffers, StatementEnds, ReadyForQuery, rootVars,
                gucVars, Commented, Uncommented, trace_context_clear, ResetCtx
  <2>5. CASE SetStatement
    <3>1. PICK v, local : SetConfig(v, local)
      BY <2>5 DEF SetStatement
    <3> QED
      BY <2>1, <3>1 DEF SetConfig
  <2>6. CASE EndXact
    <3>1. GucAtCommit => UNCHANGED <<guc, root_ctx>> \/ Restored(undo.prior)
                           \/ Restored(undo.masked)
      BY Zenon DEF GucAtCommit
    <3>2. GucAtAbort => UNCHANGED <<guc, root_ctx>> \/ Restored(undo.prior)
      BY DEF GucAtAbort
    <3> QED
      BY <2>2, <2>6, <3>1, <3>2 DEF EndXact
  <2> QED
    BY <2>3, <2>4, <2>5, <2>6 DEF Step
<1> QED
  BY <1>1, CommentRootInvariant, CommentNextIsStep, PTL
     DEF CommentSpec, ClientContextWins

(* otel_trace_context_clear_cb changes nothing at the end of a request     *)
(* that carried no 'M' message: the flag of an earlier one is never left   *)
(* behind to wipe a context that SET has installed since.                  *)
THEOREM QuietRequestsKeepContext == CommentSpec => QuietRequestKeepsContext
<1>1. RootInv /\ [Step]_rcVars =>
        [ReadyForQuery /\ ~m_seen => root_ctx' = root_ctx]_rcVars
  BY DEF RootInv, FlagMeansMessage, ReadyForQuery, trace_context_clear
<1> QED
  BY <1>1, CommentRootInvariant, CommentNextIsStep, PTL
     DEF CommentSpec, QuietRequestKeepsContext

(***************************************************************************)
(* The parallel-worker context: the spinlock sections of otel_parallel.c   *)
(* never let a worker read a torn context (NeverTorn), and they make each  *)
(* slot an atomic register (Linearizable).  Both rest on SectionInv, which *)
(* is shown to be preserved one action at a time.                          *)
(***************************************************************************)

(* No process has the number that stands for a free lock.                  *)
LEMMA NobodyIsNoProc == Nobody \notin Proc /\ Proc \subseteq Nat
  BY ParallelAssumption DEF Nobody, Proc

(* The initial state has every slot zeroed and every lock free.            *)
LEMMA InitSection == SlotsInit => SectionInv
  <1> SUFFICES ASSUME SlotsInit PROVE SectionInv
    OBVIOUS
  <1>1. SlotsOK
    BY ParallelAssumption
    DEF SlotsInit, SlotsOK, Slot, ZeroSlot, Out, ZeroOut, Field, Stages
  <1>2. RolesFit /\ LocksHeld /\ WriteProgress /\ ReadProgress
    BY DEF SlotsInit, RolesFit, LocksHeld, WriteProgress, ReadProgress, Writing,
           Reading
  <1>3. SlotsSettled /\ NoTornContext
    BY DEF SlotsInit, SlotsSettled, NoTornContext, Holds, ZeroSlot, ZeroOut
  <1>4. QED
    BY <1>1, <1>2, <1>3 DEF SectionInv

(* A worker inside its section holds another process's lock, and the slot  *)
(* behind it is settled.                                                   *)
LEMMA ReaderHolds ==
  ASSUME SectionInv, NEW p \in Proc, pc[p] \in Reading
  PROVE  /\ leader[p] \in Proc
         /\ leader[p] # p
         /\ lock[leader[p]] = p
         /\ Holds(leader[p], stable[leader[p]])
  BY DEF SectionInv, RolesFit, LocksHeld, SlotsSettled

(* The call stores its argument and goes to the lock.                      *)
LEMMA SectionPublishBegins ==
  ASSUME SectionInv, NEW p \in Proc, NEW v \in Field, PublishBegins(p, v)
  PROVE  SectionInv'
  <1> USE NobodyIsNoProc DEF SectionInv
  <1>1. SlotsOK'
    BY DEF PublishBegins, Goto, SlotsOK, Slot, Out, Field, Stages, ZeroOut
  <1>2. RolesFit'
    BY DEF PublishBegins, Goto, RolesFit, SlotsOK, Writing, Reading, Stages
  <1>3. LocksHeld'
    BY DEF PublishBegins, Goto, LocksHeld, RolesFit, SlotsOK, Writing, Reading,
           Stages
  <1>4. SlotsSettled'
    BY DEF PublishBegins, Goto, SlotsSettled, LocksHeld, WriteProgress, Holds,
           SlotsOK, Writing, Slot
  <1>5. WriteProgress'
    BY DEF PublishBegins, Goto, WriteProgress, LocksHeld, RolesFit, Holds,
           SlotsOK, Writing, Reading, Slot, Stages
  <1>6. ReadProgress'
    BY DEF PublishBegins, Goto, ReadProgress, LocksHeld, SlotsSettled,
           RolesFit, Holds, SlotsOK, Writing, Reading, Out, ZeroOut
  <1>7. NoTornContext'
    BY DEF PublishBegins, Goto, NoTornContext, ReadProgress, SlotsOK, Out,
           ZeroOut
  <1>8. QED
    BY <1>1, <1>2, <1>3, <1>4, <1>5, <1>6, <1>7

(* The owner takes the lock of its own slot.                               *)
LEMMA SectionAcquireToPublish ==
  ASSUME SectionInv, NEW p \in Proc, AcquireToPublish(p)
  PROVE  SectionInv'
  <1> USE NobodyIsNoProc DEF SectionInv
  <1>1. SlotsOK'
    BY DEF AcquireToPublish, Goto, SlotsOK, Slot, Out, Field, Stages, ZeroOut
  <1>2. RolesFit'
    BY DEF AcquireToPublish, Goto, RolesFit, SlotsOK, Writing, Reading, Stages
  <1>3. LocksHeld'
    BY DEF AcquireToPublish, Goto, LocksHeld, RolesFit, SlotsOK, Writing,
           Reading, Stages
  <1>4. SlotsSettled'
    BY DEF AcquireToPublish, Goto, SlotsSettled, LocksHeld, WriteProgress,
           Holds, SlotsOK, Writing, Slot
  <1>5. WriteProgress'
    BY DEF AcquireToPublish, Goto, WriteProgress, LocksHeld, RolesFit, Holds,
           SlotsOK, Writing, Reading, Slot, Stages
  <1>6. ReadProgress'
    BY DEF AcquireToPublish, Goto, ReadProgress, LocksHeld, SlotsSettled,
           RolesFit, Holds, SlotsOK, Writing, Reading, Out, ZeroOut
  <1>7. NoTornContext'
    BY DEF AcquireToPublish, Goto, NoTornContext, ReadProgress, SlotsOK, Out,
           ZeroOut
  <1>8. QED
    BY <1>1, <1>2, <1>3, <1>4, <1>5, <1>6, <1>7

(* The clear, under the lock.                                              *)
LEMMA SectionWriteClear ==
  ASSUME SectionInv, NEW p \in Proc, WriteClear(p)
  PROVE  SectionInv'
  <1> USE NobodyIsNoProc DEF SectionInv
  <1>1. SlotsOK'
    BY ZenonT(30) DEF WriteClear, Goto, SlotsOK, Slot, Out, Field, Stages, ZeroOut
  <1>2. RolesFit'
    BY DEF WriteClear, Goto, RolesFit, SlotsOK, Writing, Reading, Stages
  <1>3. LocksHeld'
    BY DEF WriteClear, Goto, LocksHeld, RolesFit, SlotsOK, Writing, Reading,
           Stages
  <1>4. SlotsSettled'
    BY DEF WriteClear, Goto, SlotsSettled, LocksHeld, WriteProgress, Holds,
           SlotsOK, Writing, Slot
  <1>5. WriteProgress'
    BY DEF WriteClear, Goto, WriteProgress, LocksHeld, RolesFit, Holds, SlotsOK,
           Writing, Reading, Slot, Stages
  <1>6. ReadProgress'
    BY DEF WriteClear, Goto, ReadProgress, LocksHeld, SlotsSettled, RolesFit,
           Holds, SlotsOK, Writing, Reading, Out, ZeroOut
  <1>7. NoTornContext'
    BY DEF WriteClear, Goto, NoTornContext, ReadProgress, SlotsOK, Out, ZeroOut
  <1>8. QED
    BY <1>1, <1>2, <1>3, <1>4, <1>5, <1>6, <1>7

(* The first field is written, under the lock.                             *)
LEMMA SectionWriteTraceId ==
  ASSUME SectionInv, NEW p \in Proc, WriteTraceId(p)
  PROVE  SectionInv'
  <1> USE NobodyIsNoProc DEF SectionInv
  <1>1. SlotsOK'
    BY SMTT(60) DEF WriteTraceId, Goto, SlotsOK, Slot, Out, Field, Stages, ZeroOut
  <1>2. RolesFit'
    BY DEF WriteTraceId, Goto, RolesFit, SlotsOK, Writing, Reading, Stages
  <1>3. LocksHeld'
    BY DEF WriteTraceId, Goto, LocksHeld, RolesFit, SlotsOK, Writing, Reading,
           Stages
  <1>4. SlotsSettled'
    BY DEF WriteTraceId, Goto, SlotsSettled, LocksHeld, WriteProgress, Holds,
           SlotsOK, Writing, Slot
  <1>5. WriteProgress'
    BY DEF WriteTraceId, Goto, WriteProgress, LocksHeld, RolesFit, Holds,
           SlotsOK, Writing, Reading, Slot, Stages
  <1>6. ReadProgress'
    BY DEF WriteTraceId, Goto, ReadProgress, LocksHeld, SlotsSettled, RolesFit,
           Holds, SlotsOK, Writing, Reading, Out, ZeroOut
  <1>7. NoTornContext'
    BY DEF WriteTraceId, Goto, NoTornContext, ReadProgress, SlotsOK, Out,
           ZeroOut
  <1>8. QED
    BY <1>1, <1>2, <1>3, <1>4, <1>5, <1>6, <1>7

(* The second field is written, under the lock.                            *)
LEMMA SectionWriteSpanId ==
  ASSUME SectionInv, NEW p \in Proc, WriteSpanId(p)
  PROVE  SectionInv'
  <1> USE NobodyIsNoProc DEF SectionInv
  <1>1. SlotsOK'
    BY ZenonT(30) DEF WriteSpanId, Goto, SlotsOK, Slot, Out, Field, Stages, ZeroOut
  <1>2. RolesFit'
    BY DEF WriteSpanId, Goto, RolesFit, SlotsOK, Writing, Reading, Stages
  <1>3. LocksHeld'
    BY DEF WriteSpanId, Goto, LocksHeld, RolesFit, SlotsOK, Writing, Reading,
           Stages
  <1>4. SlotsSettled'
    BY DEF WriteSpanId, Goto, SlotsSettled, LocksHeld, WriteProgress, Holds,
           SlotsOK, Writing, Slot
  <1>5. WriteProgress'
    BY DEF WriteSpanId, Goto, WriteProgress, LocksHeld, RolesFit, Holds,
           SlotsOK, Writing, Reading, Slot, Stages
  <1>6. ReadProgress'
    BY DEF WriteSpanId, Goto, ReadProgress, LocksHeld, SlotsSettled, RolesFit,
           Holds, SlotsOK, Writing, Reading, Out, ZeroOut
  <1>7. NoTornContext'
    BY DEF WriteSpanId, Goto, NoTornContext, ReadProgress, SlotsOK, Out, ZeroOut
  <1>8. QED
    BY <1>1, <1>2, <1>3, <1>4, <1>5, <1>6, <1>7

(* The slot is marked as set, under the lock.                              *)
LEMMA SectionWriteSet ==
  ASSUME SectionInv, NEW p \in Proc, WriteSet(p)
  PROVE  SectionInv'
  <1> USE NobodyIsNoProc DEF SectionInv
  <1>1. SlotsOK'
    BY ZenonT(30) DEF WriteSet, Goto, SlotsOK, Slot, Out, Field, Stages, ZeroOut
  <1>2. RolesFit'
    BY DEF WriteSet, Goto, RolesFit, SlotsOK, Writing, Reading, Stages
  <1>3. LocksHeld'
    BY DEF WriteSet, Goto, LocksHeld, RolesFit, SlotsOK, Writing, Reading,
           Stages
  <1>4. SlotsSettled'
    BY DEF WriteSet, Goto, SlotsSettled, LocksHeld, WriteProgress, Holds,
           SlotsOK, Writing, Slot
  <1>5. WriteProgress'
    <2>1. slots'[p] = [set |-> TRUE, trace_id |-> slots[p].trace_id,
                       span_id |-> slots[p].span_id]
      BY DEF WriteSet, SlotsOK, Slot
    <2>2. slots'[p] = [set |-> TRUE, trace_id |-> arg[p],
                       span_id |-> arg[p]] /\ arg[p] # NoValue
      BY <2>1 DEF WriteSet, WriteProgress
    <2>3. \A q \in Proc : q # p => slots'[q] = slots[q] /\ pc'[q] = pc[q]
      BY DEF WriteSet, Goto, SlotsOK
    <2>4. pc'[p] = "unlock" /\ arg' = arg
      BY DEF WriteSet, Goto, SlotsOK
    <2>5. Holds(p, arg[p])'
      BY <2>2, <2>4 DEF Holds
    <2>6. \A q \in Proc : Holds(q, arg[q]) /\ q # p => Holds(q, arg[q])'
      BY <2>3, <2>4 DEF Holds
    <2>7. QED
      BY <2>3, <2>4, <2>5, <2>6 DEF WriteProgress
  <1>6. ReadProgress'
    BY DEF WriteSet, Goto, ReadProgress, LocksHeld, SlotsSettled, RolesFit,
           Holds, SlotsOK, Writing, Reading, Out, ZeroOut
  <1>7. NoTornContext'
    BY DEF WriteSet, Goto, NoTornContext, ReadProgress, SlotsOK, Out, ZeroOut
  <1>8. QED
    BY <1>1, <1>2, <1>3, <1>4, <1>5, <1>6, <1>7

(* The owner releases a slot that holds its argument.                      *)
LEMMA SectionReleaseAfterPublish ==
  ASSUME SectionInv, NEW p \in Proc, ReleaseAfterPublish(p)
  PROVE  SectionInv'
  <1> USE NobodyIsNoProc DEF SectionInv
  <1>1. SlotsOK'
    BY DEF ReleaseAfterPublish, Goto, SlotsOK, Slot, Out, Field, Stages, ZeroOut
  <1>2. RolesFit'
    BY DEF ReleaseAfterPublish, Goto, RolesFit, SlotsOK, Writing, Reading,
           Stages
  <1>3. LocksHeld'
    BY DEF ReleaseAfterPublish, Goto, LocksHeld, RolesFit, SlotsOK, Writing,
           Reading, Stages
  <1>4. SlotsSettled'
    BY DEF ReleaseAfterPublish, Goto, SlotsSettled, LocksHeld, WriteProgress,
           Holds, SlotsOK, Writing, Slot
  <1>5. WriteProgress'
    BY DEF ReleaseAfterPublish, Goto, WriteProgress, LocksHeld, RolesFit,
           Holds, SlotsOK, Writing, Reading, Slot, Stages
  <1>6. ReadProgress'
    BY DEF ReleaseAfterPublish, Goto, ReadProgress, LocksHeld, SlotsSettled,
           RolesFit, Holds, SlotsOK, Writing, Reading, Out, ZeroOut
  <1>7. NoTornContext'
    BY DEF ReleaseAfterPublish, Goto, NoTornContext, ReadProgress, SlotsOK, Out,
           ZeroOut
  <1>8. QED
    BY <1>1, <1>2, <1>3, <1>4, <1>5, <1>6, <1>7

(* A worker takes the lock of its leader's slot.                           *)
LEMMA SectionAcquireToRead ==
  ASSUME SectionInv, NEW p \in Proc, AcquireToRead(p)
  PROVE  SectionInv'
  <1> USE NobodyIsNoProc DEF SectionInv
  <1>1. SlotsOK'
    BY DEF AcquireToRead, Goto, SlotsOK, Slot, Out, Field, Stages, ZeroOut
  <1>2. RolesFit'
    BY DEF AcquireToRead, Goto, RolesFit, SlotsOK, Writing, Reading, Stages
  <1>3. LocksHeld'
    BY DEF AcquireToRead, Goto, LocksHeld, RolesFit, SlotsOK, Writing, Reading,
           Stages
  <1>4. SlotsSettled'
    BY DEF AcquireToRead, Goto, SlotsSettled, LocksHeld, WriteProgress, Holds,
           SlotsOK, Writing, Slot
  <1>5. WriteProgress'
    BY DEF AcquireToRead, Goto, WriteProgress, LocksHeld, RolesFit, Holds,
           SlotsOK, Writing, Reading, Slot, Stages
  <1>6. ReadProgress'
    BY DEF AcquireToRead, Goto, ReadProgress, LocksHeld, SlotsSettled,
           RolesFit, Holds, SlotsOK, Writing, Reading, Out, ZeroOut
  <1>7. NoTornContext'
    BY DEF AcquireToRead, Goto, NoTornContext, ReadProgress, SlotsOK, Out,
           ZeroOut
  <1>8. QED
    BY <1>1, <1>2, <1>3, <1>4, <1>5, <1>6, <1>7

(* The worker looks whether the slot is set.                               *)
LEMMA SectionReadSet ==
  ASSUME SectionInv, NEW p \in Proc, ReadSet(p)
  PROVE  SectionInv'
  <1> USE NobodyIsNoProc DEF SectionInv
  <1>1. SlotsOK'
    BY DEF ReadSet, Goto, SlotsOK, Slot, Out, Field, Stages, ZeroOut
  <1>2. RolesFit'
    BY DEF ReadSet, Goto, RolesFit, SlotsOK, Writing, Reading, Stages
  <1>3. LocksHeld'
    BY DEF ReadSet, Goto, LocksHeld, RolesFit, SlotsOK, Writing, Reading, Stages
  <1>4. SlotsSettled'
    BY DEF ReadSet, Goto, SlotsSettled, LocksHeld, WriteProgress, Holds,
           SlotsOK, Writing, Slot
  <1>5. WriteProgress'
    BY DEF ReadSet, Goto, WriteProgress, LocksHeld, RolesFit, Holds, SlotsOK,
           Writing, Reading, Slot, Stages
  <1>6. ReadProgress'
    <2>1. pc[p] \in Reading
      BY DEF ReadSet, Reading
    <2>2. /\ leader[p] \in Proc
          /\ leader[p] # p
          /\ lock[leader[p]] = p
          /\ Holds(leader[p], stable[leader[p]])
      BY <2>1, ReaderHolds
    <2>3. QED
      BY <2>2
      DEF ReadSet, Goto, ReadProgress, Holds, SlotsOK, ZeroOut, Slot, Reading
  <1>7. NoTornContext'
    BY DEF ReadSet, Goto, NoTornContext, ReadProgress, SlotsOK, Out, ZeroOut
  <1>8. QED
    BY <1>1, <1>2, <1>3, <1>4, <1>5, <1>6, <1>7

(* The worker copies the first field.                                      *)
LEMMA SectionReadTraceId ==
  ASSUME SectionInv, NEW p \in Proc, ReadTraceId(p)
  PROVE  SectionInv'
  <1> USE NobodyIsNoProc DEF SectionInv
  <1>1. SlotsOK'
    <2>1. pc[p] \in Reading
      BY DEF ReadTraceId, Reading
    <2>2. /\ leader[p] \in Proc
          /\ leader[p] # p
          /\ lock[leader[p]] = p
          /\ Holds(leader[p], stable[leader[p]])
      BY <2>1, ReaderHolds
    <2>3. QED
      BY <2>2 DEF ReadTraceId, Goto, SlotsOK, Slot, Out, Field, Stages, ZeroOut
  <1>2. RolesFit'
    BY DEF ReadTraceId, Goto, RolesFit, SlotsOK, Writing, Reading, Stages
  <1>3. LocksHeld'
    BY DEF ReadTraceId, Goto, LocksHeld, RolesFit, SlotsOK, Writing, Reading,
           Stages
  <1>4. SlotsSettled'
    BY DEF ReadTraceId, Goto, SlotsSettled, LocksHeld, WriteProgress, Holds,
           SlotsOK, Writing, Slot
  <1>5. WriteProgress'
    BY DEF ReadTraceId, Goto, WriteProgress, LocksHeld, RolesFit, Holds,
           SlotsOK, Writing, Reading, Slot, Stages
  <1>6. ReadProgress'
    BY DEF ReadTraceId, Goto, ReadProgress, LocksHeld, SlotsSettled, RolesFit,
           Holds, SlotsOK, Writing, Reading, Out, ZeroOut
  <1>7. NoTornContext'
    BY DEF ReadTraceId, Goto, NoTornContext, ReadProgress, SlotsOK, Out, ZeroOut
  <1>8. QED
    BY <1>1, <1>2, <1>3, <1>4, <1>5, <1>6, <1>7

(* The worker copies the second field.                                     *)
LEMMA SectionReadSpanId ==
  ASSUME SectionInv, NEW p \in Proc, ReadSpanId(p)
  PROVE  SectionInv'
  <1> USE NobodyIsNoProc DEF SectionInv
  <1>1. SlotsOK'
    <2>1. pc[p] \in Reading
      BY DEF ReadSpanId, Reading
    <2>2. /\ leader[p] \in Proc
          /\ leader[p] # p
          /\ lock[leader[p]] = p
          /\ Holds(leader[p], stable[leader[p]])
      BY <2>1, ReaderHolds
    <2>3. QED
      BY <2>2 DEF ReadSpanId, Goto, SlotsOK, Slot, Out, Field, Stages, ZeroOut
  <1>2. RolesFit'
    BY DEF ReadSpanId, Goto, RolesFit, SlotsOK, Writing, Reading, Stages
  <1>3. LocksHeld'
    BY DEF ReadSpanId, Goto, LocksHeld, RolesFit, SlotsOK, Writing, Reading,
           Stages
  <1>4. SlotsSettled'
    BY DEF ReadSpanId, Goto, SlotsSettled, LocksHeld, WriteProgress, Holds,
           SlotsOK, Writing, Slot
  <1>5. WriteProgress'
    BY DEF ReadSpanId, Goto, WriteProgress, LocksHeld, RolesFit, Holds, SlotsOK,
           Writing, Reading, Slot, Stages
  <1>6. ReadProgress'
    BY DEF ReadSpanId, Goto, ReadProgress, LocksHeld, SlotsSettled, RolesFit,
           Holds, SlotsOK, Writing, Reading, Out, ZeroOut
  <1>7. NoTornContext'
    BY DEF ReadSpanId, Goto, NoTornContext, ReadProgress, SlotsOK, Out, ZeroOut
  <1>8. QED
    BY <1>1, <1>2, <1>3, <1>4, <1>5, <1>6, <1>7

(* The worker releases its leader's slot and returns its copy.             *)
LEMMA SectionReleaseAfterRead ==
  ASSUME SectionInv, NEW p \in Proc, ReleaseAfterRead(p)
  PROVE  SectionInv'
  <1> USE NobodyIsNoProc DEF SectionInv
  <1>1. SlotsOK'
    BY DEF ReleaseAfterRead, Goto, SlotsOK, Slot, Out, Field, Stages, ZeroOut
  <1>2. RolesFit'
    BY DEF ReleaseAfterRead, Goto, RolesFit, SlotsOK, Writing, Reading, Stages
  <1>3. LocksHeld'
    BY DEF ReleaseAfterRead, Goto, LocksHeld, RolesFit, SlotsOK, Writing,
           Reading, Stages
  <1>4. SlotsSettled'
    <2>1. pc[p] \in Reading
      BY DEF ReleaseAfterRead, Reading
    <2>2. /\ leader[p] \in Proc
          /\ leader[p] # p
          /\ lock[leader[p]] = p
          /\ Holds(leader[p], stable[leader[p]])
      BY <2>1, ReaderHolds
    <2>3. QED
      BY <2>2 DEF ReleaseAfterRead, Goto, SlotsSettled, Holds, SlotsOK
  <1>5. WriteProgress'
    BY DEF ReleaseAfterRead, Goto, WriteProgress, LocksHeld, RolesFit, Holds,
           SlotsOK, Writing, Reading, Slot, Stages
  <1>6. ReadProgress'
    BY DEF ReleaseAfterRead, Goto, ReadProgress, LocksHeld, SlotsSettled,
           RolesFit, Holds, SlotsOK, Writing, Reading, Out, ZeroOut
  <1>7. NoTornContext'
    BY DEF ReleaseAfterRead, Goto, NoTornContext, ReadProgress, SlotsOK, Out,
           ZeroOut
  <1>8. QED
    BY <1>1, <1>2, <1>3, <1>4, <1>5, <1>6, <1>7

(* A backend starts under a free proc number.                              *)
LEMMA SectionBackendStarts ==
  ASSUME SectionInv, NEW p \in Proc, BackendStarts(p)
  PROVE  SectionInv'
  <1> USE NobodyIsNoProc DEF SectionInv
  <1>1. SlotsOK'
    BY ParallelAssumption
    DEF BackendStarts, Starts, SlotsOK, Slot, Out, Field, Stages, ZeroOut
  <1>2. RolesFit'
    BY DEF BackendStarts, Starts, RolesFit, SlotsOK, Writing, Reading, Stages
  <1>3. LocksHeld'
    BY DEF BackendStarts, Starts, LocksHeld, RolesFit, SlotsOK, Writing,
           Reading, Stages
  <1>4. SlotsSettled'
    BY DEF BackendStarts, Starts, SlotsSettled, LocksHeld, WriteProgress,
           Holds, SlotsOK, Writing, Slot
  <1>5. WriteProgress'
    BY DEF BackendStarts, Starts, WriteProgress, LocksHeld, RolesFit, Holds,
           SlotsOK, Writing, Reading, Slot, Stages
  <1>6. ReadProgress'
    BY DEF BackendStarts, Starts, ReadProgress, LocksHeld, SlotsSettled,
           RolesFit, Holds, SlotsOK, Writing, Reading, Out, ZeroOut
  <1>7. NoTornContext'
    BY DEF BackendStarts, Starts, NoTornContext, ReadProgress, SlotsOK, Out,
           ZeroOut
  <1>8. QED
    BY <1>1, <1>2, <1>3, <1>4, <1>5, <1>6, <1>7

(* A worker starts for a running leader.                                   *)
LEMMA SectionWorkerStarts ==
  ASSUME SectionInv, NEW p \in Proc, NEW l \in Proc, WorkerStarts(p, l)
  PROVE  SectionInv'
  <1> USE NobodyIsNoProc DEF SectionInv
  <1>1. SlotsOK'
    BY ParallelAssumption
    DEF WorkerStarts, Starts, SlotsOK, Slot, Out, Field, Stages, ZeroOut
  <1>2. RolesFit'
    BY DEF WorkerStarts, Starts, RolesFit, SlotsOK, Writing, Reading, Stages
  <1>3. LocksHeld'
    BY DEF WorkerStarts, Starts, LocksHeld, RolesFit, SlotsOK, Writing, Reading,
           Stages
  <1>4. SlotsSettled'
    BY DEF WorkerStarts, Starts, SlotsSettled, LocksHeld, WriteProgress, Holds,
           SlotsOK, Writing, Slot
  <1>5. WriteProgress'
    BY DEF WorkerStarts, Starts, WriteProgress, LocksHeld, RolesFit, Holds,
           SlotsOK, Writing, Reading, Slot, Stages
  <1>6. ReadProgress'
    BY DEF WorkerStarts, Starts, ReadProgress, LocksHeld, SlotsSettled,
           RolesFit, Holds, SlotsOK, Writing, Reading, Out, ZeroOut
  <1>7. NoTornContext'
    BY DEF WorkerStarts, Starts, NoTornContext, ReadProgress, SlotsOK, Out,
           ZeroOut
  <1>8. QED
    BY <1>1, <1>2, <1>3, <1>4, <1>5, <1>6, <1>7

(* A process outside the sections gives up its proc number.                *)
LEMMA SectionProcKill ==
  ASSUME SectionInv, NEW p \in Proc, ProcKill(p)
  PROVE  SectionInv'
  <1> USE NobodyIsNoProc DEF SectionInv
  <1>1. SlotsOK'
    BY DEF ProcKill, SlotsOK, Slot, Out, Field, Stages, ZeroOut
  <1>2. RolesFit'
    BY DEF ProcKill, RolesFit, SlotsOK, Writing, Reading, Stages
  <1>3. LocksHeld'
    BY DEF ProcKill, LocksHeld, RolesFit, SlotsOK, Writing, Reading, Stages
  <1>4. SlotsSettled'
    BY DEF ProcKill, SlotsSettled, LocksHeld, WriteProgress, Holds, SlotsOK,
           Writing, Slot
  <1>5. WriteProgress'
    BY DEF ProcKill, WriteProgress, LocksHeld, RolesFit, Holds, SlotsOK,
           Writing, Reading, Slot, Stages
  <1>6. ReadProgress'
    BY DEF ProcKill, ReadProgress, LocksHeld, SlotsSettled, RolesFit, Holds,
           SlotsOK, Writing, Reading, Out, ZeroOut
  <1>7. NoTornContext'
    BY DEF ProcKill, NoTornContext, ReadProgress, SlotsOK, Out, ZeroOut
  <1>8. QED
    BY <1>1, <1>2, <1>3, <1>4, <1>5, <1>6, <1>7

(* The exit callback finds no proc number and clears nothing.              *)
LEMMA Sectionproc_exit_cb ==
  ASSUME SectionInv, NEW p \in Proc, proc_exit_cb(p)
  PROVE  SectionInv'
  <1> USE NobodyIsNoProc DEF SectionInv
  <1>1. SlotsOK'
    BY DEF proc_exit_cb, SlotsOK, Slot, Out, Field, Stages, ZeroOut
  <1>2. RolesFit'
    BY DEF proc_exit_cb, RolesFit, SlotsOK, Writing, Reading, Stages
  <1>3. LocksHeld'
    BY DEF proc_exit_cb, LocksHeld, RolesFit, SlotsOK, Writing, Reading, Stages
  <1>4. SlotsSettled'
    BY DEF proc_exit_cb, SlotsSettled, LocksHeld, WriteProgress, Holds, SlotsOK,
           Writing, Slot
  <1>5. WriteProgress'
    BY DEF proc_exit_cb, WriteProgress, LocksHeld, RolesFit, Holds, SlotsOK,
           Writing, Reading, Slot, Stages
  <1>6. ReadProgress'
    BY DEF proc_exit_cb, ReadProgress, LocksHeld, SlotsSettled, RolesFit,
           Holds, SlotsOK, Writing, Reading, Out, ZeroOut
  <1>7. NoTornContext'
    BY DEF proc_exit_cb, NoTornContext, ReadProgress, SlotsOK, Out, ZeroOut
  <1>8. QED
    BY <1>1, <1>2, <1>3, <1>4, <1>5, <1>6, <1>7

(* A crash leaves zeroed shared memory, new locks and no process.          *)
LEMMA SectionCrashRestart ==
  ASSUME SectionInv, CrashRestart
  PROVE  SectionInv'
  <1>1. SlotsOK'
    BY ParallelAssumption
    DEF SectionInv, CrashRestart, shmem_startup, SlotsOK, Slot, ZeroSlot, Out,
        ZeroOut, Field, Stages
  <1>2. RolesFit' /\ LocksHeld' /\ WriteProgress' /\ ReadProgress'
    BY DEF CrashRestart, RolesFit, LocksHeld, WriteProgress, ReadProgress,
           Writing, Reading
  <1>3. SlotsSettled' /\ NoTornContext'
    BY DEF CrashRestart, shmem_startup, SlotsSettled, NoTornContext, Holds,
           ZeroSlot, ZeroOut
  <1>4. QED
    BY <1>1, <1>2, <1>3 DEF SectionInv

(* A context that a backend publishes carries its own life.                *)
LEMMA PublishedIsField ==
  ASSUME SectionInv, NEW p \in Proc, role[p] = "backend",
         NEW s \in 1..MAX_SPANS
  PROVE  [life |-> life[p], span |-> s] \in Field
  <1>1. life[p] \in 1..MAX_LIVES
    BY ParallelAssumption DEF SectionInv, SlotsOK, RolesFit
  <1>2. QED
    BY <1>1 DEF Field, Value

(* Every step of every process, and a crash, preserves the invariant.      *)
LEMMA SectionStep == SectionInv /\ [SlotsNext]_vars => SectionInv'
  <1> SUFFICES ASSUME SectionInv, [SlotsNext]_vars PROVE SectionInv'
    OBVIOUS
  <1>1. ASSUME NEW p \in Proc, Publishes(p) PROVE SectionInv'
    <2>1. ASSUME NEW s \in 1..MAX_SPANS,
                 PublishBegins(p, [life |-> life[p], span |-> s])
          PROVE  SectionInv'
      <3>1. [life |-> life[p], span |-> s] \in Field
        BY <2>1, PublishedIsField DEF PublishBegins
      <3>2. PICK v \in Field : v = [life |-> life[p], span |-> s]
        BY <3>1
      <3>3. PublishBegins(p, v)
        BY <2>1, <3>2
      <3>4. QED
        BY <3>3, SectionPublishBegins
    <2>2. CASE PublishBegins(p, NoValue)
      BY <2>2, SectionPublishBegins DEF Field
    <2>3. QED
      BY <1>1, <2>1, <2>2 DEF Publishes
  <1>2. ASSUME NEW p \in Proc, PublishSteps(p) PROVE SectionInv'
    BY <1>2, SectionAcquireToPublish, SectionWriteClear, SectionWriteTraceId,
       SectionWriteSpanId, SectionWriteSet, SectionReleaseAfterPublish
    DEF PublishSteps
  <1>3. ASSUME NEW p \in Proc, AcquireToRead(p) \/ ReadSteps(p)
        PROVE  SectionInv'
    BY <1>3, SectionAcquireToRead, SectionReadSet, SectionReadTraceId,
       SectionReadSpanId, SectionReleaseAfterRead
    DEF ReadSteps
  <1>4. ASSUME NEW p \in Proc, Lifetimes(p) PROVE SectionInv'
    BY <1>4, SectionBackendStarts, SectionWorkerStarts, SectionProcKill,
       Sectionproc_exit_cb
    DEF Lifetimes
  <1>5. CASE UNCHANGED vars
    BY <1>5 DEF vars, SectionInv, SlotsOK, RolesFit, LocksHeld, SlotsSettled,
       WriteProgress, ReadProgress, NoTornContext, Holds
  <1>6. QED
    BY <1>1, <1>2, <1>3, <1>4, <1>5, SectionCrashRestart DEF SlotsNext

(* However publishes, reads, process starts, exits and crashes interleave, *)
(* locks, slots and local copies of otel_parallel.c fit together.          *)
THEOREM SectionsHold == SlotsSpec => []SectionInv
  <1>1. QED
    BY InitSection, SectionStep, PTL DEF SlotsSpec

(* otel_parallel_get_leader_context never returns the trace id of one      *)
(* published context with the span id of another.                          *)
THEOREM NeverTorn == SlotsSpec => []NoTornContext
  <1>1. SectionInv => NoTornContext
    BY DEF SectionInv
  <1>2. QED
    BY <1>1, SectionsHold, PTL

(* The state that no step of a spinlock section changes before its last:   *)
(* the register and the results of the abstract specification.             *)
LEMMA QuietSteps ==
  ASSUME NEW p \in Proc,
         \/ \E v : PublishBegins(p, v)
         \/ AcquireToPublish(p) \/ WriteClear(p) \/ WriteTraceId(p)
         \/ WriteSpanId(p) \/ WriteSet(p)
         \/ AcquireToRead(p) \/ ReadSet(p) \/ ReadTraceId(p) \/ ReadSpanId(p)
         \/ ProcKill(p) \/ proc_exit_cb(p)
  PROVE  UNCHANGED <<stable, got>>
  BY DEF PublishBegins, AcquireToPublish, WriteClear, WriteTraceId,
         WriteSpanId, WriteSet, AcquireToRead, ReadSet, ReadTraceId,
         ReadSpanId, ProcKill, proc_exit_cb

(* The linearization points: a publish takes effect where it unlocks.      *)
LEMMA PublishIsWrite ==
  ASSUME SectionInv, NEW p \in Proc, ReleaseAfterPublish(p)
  PROVE  Atomic!Next
  <1>1. PICK v \in Value \union {NoValue} : v = arg[p]
    BY DEF SectionInv, SlotsOK, Field
  <1>2. Atomic!Write(p, v)
    BY <1>1 DEF ReleaseAfterPublish, Atomic!Write
  <1>3. QED
    BY <1>2 DEF Atomic!Next

(* A read takes effect where it unlocks: its copy is still the register.   *)
LEMMA ReleaseIsRead ==
  ASSUME SectionInv, NEW p \in Proc, ReleaseAfterRead(p)
  PROVE  Atomic!Next
  <1>1. pc[p] \in Reading /\ pc[p] = "unlock_read"
    BY DEF ReleaseAfterRead, Reading
  <1>2. leader[p] \in Proc
    BY <1>1, ReaderHolds
  <1>3. out[p].span_id = stable[leader[p]]
    BY <1>1 DEF SectionInv, ReadProgress
  <1>4. PICK l \in Proc : l = leader[p]
    BY <1>2
  <1>5. /\ got' = [got EXCEPT ![p] = out[p]]
        /\ stable' = stable
        /\ got \in [Proc -> Out]
    BY DEF ReleaseAfterRead, SectionInv, SlotsOK
  <1>6. [q \in Proc |-> got'[q].span_id]
          = [[q \in Proc |-> got[q].span_id] EXCEPT ![p] = stable[l]]
    BY <1>3, <1>4, <1>5
  <1>7. Atomic!Read(p, l)
    BY <1>5, <1>6 DEF Atomic!Read
  <1>8. QED
    BY <1>7 DEF Atomic!Next

(* A new process has read nothing.                                         *)
LEMMA StartIsForget ==
  ASSUME SectionInv, NEW p \in Proc,
         BackendStarts(p) \/ \E l \in Proc : WorkerStarts(p, l)
  PROVE  Atomic!Next
  <1>1. /\ got' = [got EXCEPT ![p] = ZeroOut]
        /\ stable' = stable
        /\ got \in [Proc -> Out]
    BY DEF BackendStarts, WorkerStarts, Starts, SectionInv, SlotsOK
  <1>2. [q \in Proc |-> got'[q].span_id]
          = [[q \in Proc |-> got[q].span_id] EXCEPT ![p] = NoValue]
    BY <1>1 DEF ZeroOut
  <1>3. Atomic!Forget(p)
    BY <1>1, <1>2 DEF Atomic!Forget
  <1>4. QED
    BY <1>3 DEF Atomic!Next

(* The spinlock sections of otel_parallel.c implement one atomic register  *)
(* per backend: every step of every process is a write, a read, the start  *)
(* of a process or a restart of AtomicSlot, or changes nothing of it.      *)
THEOREM Linearizable == SlotsSpec => SlotsAreAtomic
  <1>1. SlotsInit => Atomic!Init
    BY DEF SlotsInit, Atomic!Init, ZeroOut
  <1>2. ASSUME SectionInv, [SlotsNext]_vars
        PROVE  [Atomic!Next]_<<stable, [p \in Proc |-> got[p].span_id]>>
    <2>1. CASE UNCHANGED vars
      BY <2>1 DEF vars
    <2>2. CASE CrashRestart
      BY <2>2 DEF CrashRestart, Atomic!Next, Atomic!Restart, ZeroOut
    <2>3. ASSUME NEW p \in Proc,
                 \/ Publishes(p) \/ PublishSteps(p)
                 \/ AcquireToRead(p) \/ ReadSteps(p) \/ Lifetimes(p)
          PROVE  Atomic!Next \/ UNCHANGED <<stable, got>>
      BY <1>2, <2>3, QuietSteps, PublishIsWrite, ReleaseIsRead, StartIsForget
      DEF Publishes, PublishSteps, ReadSteps, Lifetimes
    <2>4. QED
      BY <1>2, <2>1, <2>2, <2>3 DEF SlotsNext
  <1>3. QED
    BY <1>1, <1>2, SectionsHold, PTL DEF SlotsSpec, SlotsAreAtomic, Atomic!Spec

(***************************************************************************)
(* The loading of modules.                                                 *)
(***************************************************************************)
(* Induction over the naturals is proved there.                            *)
Stack == INSTANCE StackFacts

-----------------------------------------------------------------------------
(* The chain of emit hooks.                                                *)

Hook == Exporters \union {NoHook}
HookSet == [hook : Hook, prev : [Exporters -> Hook], possible : BOOLEAN]

(* The exporters of c are registered in h: the first is called first, and  *)
(* each calls the next.                                                    *)
Linked(c, h) ==
    /\ c \in Seq(Exporters) /\ IsInjective(c)
    /\ h.hook = IF c = <<>> THEN NoHook ELSE c[1]
    /\ \A k \in 1..Len(c) :
         h.prev[c[k]] = IF k < Len(c) THEN c[k + 1] ELSE NoHook
    /\ h.possible = (c # <<>>)

LEMMA NamesDiffer == NoHook \notin Exporters /\ Api \notin Exporters
BY ModuleLoadingAssumption

(* An element put in front of a sequence it is not in.                     *)
LEMMA PushedInjective ==
    ASSUME NEW c \in Seq(Exporters), IsInjective(c),
           NEW e \in Exporters, e \notin ToSet(c)
    PROVE  /\ <<e>> \o c \in Seq(Exporters)
           /\ IsInjective(<<e>> \o c)
           /\ ToSet(<<e>> \o c) = ToSet(c) \union {e}
<1> DEFINE d == <<e>> \o c
<1>1. Len(c) \in Nat /\ DOMAIN c = 1..Len(c)
  OBVIOUS
<1>2. /\ d \in Seq(Exporters) /\ Len(d) = Len(c) + 1 /\ d[1] = e
      /\ DOMAIN d = 1..(Len(c) + 1)
      /\ \A k \in 2..(Len(c) + 1) : d[k] = c[k - 1]
  BY <1>1
<1>3. \A k \in 1..Len(c) : c[k] # e /\ d[k + 1] = c[k]
  BY <1>1, <1>2 DEF ToSet
<1> HIDE DEF d
<1>4. IsInjective(d)
  <2> SUFFICES ASSUME NEW a \in 1..(Len(c) + 1), NEW b \in 1..(Len(c) + 1),
                      d[a] = d[b]
               PROVE  a = b
    BY <1>2 DEF IsInjective
  <2>1. CASE a = 1 \/ b = 1
    <3>1. \A k \in 1..(Len(c) + 1) : k # 1 => d[k] # e
      <4> TAKE k \in 1..(Len(c) + 1)
      <4>1. k # 1 => k - 1 \in 1..Len(c) /\ d[k] = c[k - 1]
        BY <1>1, <1>2
      <4> QED
        BY <4>1, <1>3
    <3> QED
      BY <2>1, <3>1, <1>2
  <2>2. CASE a # 1 /\ b # 1
    <3>1. /\ a - 1 \in 1..Len(c) /\ b - 1 \in 1..Len(c)
          /\ c[a - 1] = c[b - 1]
      BY <1>1, <1>2, <2>2
    <3>2. a - 1 = b - 1
      BY <1>1, <3>1 DEF IsInjective
    <3> QED
      BY <3>2
  <2> QED
    BY <2>1, <2>2
<1>5. ToSet(d) = ToSet(c) \union {e}
  <2>1. ASSUME NEW x \in ToSet(d)
        PROVE  x \in ToSet(c) \union {e}
    <3>1. PICK k \in 1..(Len(c) + 1) : x = d[k]
      BY <1>2, <2>1 DEF ToSet
    <3>2. k # 1 => k - 1 \in 1..Len(c) /\ x = c[k - 1]
      BY <1>1, <1>2, <3>1
    <3> QED
      BY <1>1, <1>2, <3>1, <3>2 DEF ToSet
  <2>2. ASSUME NEW x \in ToSet(c)
        PROVE  x \in ToSet(d)
    <3>1. PICK k \in 1..Len(c) : x = c[k]
      BY <1>1, <2>2 DEF ToSet
    <3>2. k + 1 \in 1..(Len(c) + 1) /\ d[k + 1] = x
      BY <1>1, <1>3, <3>1
    <3> QED
      BY <1>2, <3>2 DEF ToSet
  <2>3. e \in ToSet(d)
    <3>1. 1 \in 1..(Len(c) + 1)
      BY <1>1
    <3> QED
      BY <1>2, <3>1 DEF ToSet
  <2> QED
    BY <2>1, <2>2, <2>3
<1> QED
  BY <1>2, <1>4, <1>5 DEF d

(* Registering an exporter that is not in the chain puts it in front.      *)
LEMMA RegisteredLinks ==
    ASSUME NEW h \in HookSet, NEW c, Linked(c, h),
           NEW e \in Exporters, e \notin ToSet(c)
    PROVE  /\ Registered(h, e) \in HookSet
           /\ Linked(<<e>> \o c, Registered(h, e))
           /\ ToSet(<<e>> \o c) = ToSet(c) \union {e}
<1> DEFINE d == <<e>> \o c
           g == Registered(h, e)
<1>1. /\ h.hook \in Hook /\ h.prev \in [Exporters -> Hook]
      /\ c \in Seq(Exporters) /\ Len(c) \in Nat /\ DOMAIN c = 1..Len(c)
  BY DEF HookSet, Linked
<1>2. /\ g.hook = e /\ g.prev = [h.prev EXCEPT ![e] = h.hook]
      /\ g.possible = TRUE /\ g \in HookSet
  <2>1. g = [hook |-> e, prev |-> [h.prev EXCEPT ![e] = h.hook],
             possible |-> TRUE]
    BY DEF Registered
  <2>2. [h.prev EXCEPT ![e] = h.hook] \in [Exporters -> Hook]
    BY <1>1
  <2> QED
    BY <2>1, <2>2 DEF HookSet, Hook
<1>3. /\ d \in Seq(Exporters) /\ Len(d) = Len(c) + 1 /\ d[1] = e
      /\ DOMAIN d = 1..(Len(c) + 1)
      /\ \A k \in 2..(Len(c) + 1) : d[k] = c[k - 1]
  BY <1>1
<1>4. \A k \in 1..Len(c) : c[k] # e /\ c[k] \in Exporters /\ d[k + 1] = c[k]
  BY <1>1, <1>3 DEF ToSet
<1> HIDE DEF d, g
<1>5. IsInjective(d) /\ ToSet(d) = ToSet(c) \union {e}
  BY <1>1, PushedInjective DEF d, Linked
<1>6. \A k \in 1..Len(d) :
        g.prev[d[k]] = IF k < Len(d) THEN d[k + 1] ELSE NoHook
  <2> SUFFICES ASSUME NEW k \in 1..(Len(c) + 1)
               PROVE  g.prev[d[k]] = IF k < Len(c) + 1 THEN d[k + 1]
                                     ELSE NoHook
    BY <1>3
  <2>1. CASE k = 1
    <3>1. g.prev[d[k]] = h.hook
      BY <1>1, <1>2, <1>3, <2>1
    <3>2. CASE c = <<>>
      <4>1. Len(c) = 0 /\ h.hook = NoHook
        BY <3>2 DEF Linked
      <4> QED
        BY <2>1, <3>1, <4>1
    <3>3. CASE c # <<>>
      <4>1. Len(c) > 0 /\ h.hook = c[1]
        BY <1>1, <3>3 DEF Linked
      <4>2. d[2] = c[1]
        BY <1>1, <1>3, <4>1
      <4> QED
        BY <1>1, <2>1, <3>1, <4>1, <4>2
    <3> QED
      BY <3>2, <3>3
  <2>2. CASE k # 1
    <3> DEFINE j == k - 1
    <3>1. j \in 1..Len(c) /\ d[k] = c[j] /\ c[j] # e /\ c[j] \in Exporters
      BY <1>1, <1>3, <1>4, <2>2
    <3>2. g.prev[d[k]] = h.prev[c[j]]
      BY <1>1, <1>2, <3>1
    <3>3. h.prev[c[j]] = IF j < Len(c) THEN c[j + 1] ELSE NoHook
      BY <3>1 DEF Linked
    <3>4. j < Len(c) => d[k + 1] = c[j + 1]
      BY <1>1, <1>3, <3>1
    <3> QED
      BY <1>1, <3>1, <3>2, <3>3, <3>4
  <2> QED
    BY <2>1, <2>2
<1>7. d # <<>>
  BY <1>1, <1>3
<1>8. Linked(d, g)
  BY <1>2, <1>3, <1>5, <1>6, <1>7 DEF Linked
<1> QED
  BY <1>2, <1>5, <1>8 DEF d, g

(* FoldLeft's recursive function exists, so that it is what its definition *)
(* says.                                                                   *)
FoldEqn(h, q, n, F) ==
    F = [S \in SUBSET (1..n) |->
           IF S = {} THEN h
           ELSE Registered(F[S \ {Max(S)}], q[Max(S)])]

(* The greatest of a set that has n + 1 and nothing greater is n + 1.      *)
LEMMA MaxIsTop ==
    ASSUME NEW n \in Nat, NEW S \in SUBSET (1..(n + 1)), n + 1 \in S
    PROVE  Max(S) = n + 1
<1>1. \A y \in S : n + 1 >= y
  OBVIOUS
<1>2. \A x \in S : (\A y \in S : x >= y) => x = n + 1
  OBVIOUS
<1> QED
  BY <1>1, <1>2 DEF Max

(* A nonempty subset of 1..n has a greatest element.                       *)
LEMMA MaxIsIn ==
    ASSUME NEW n \in Nat, NEW S \in SUBSET (1..n), S # {}
    PROVE  Max(S) \in S
<1> DEFINE T == {m \in Nat : \A R \in SUBSET (1..m) :
                               R # {} => \E x \in R : \A y \in R : x >= y}
<1>1. 0 \in T
  <2>1. 1..0 = {}
    OBVIOUS
  <2> QED
    BY <2>1
<1>2. ASSUME NEW m \in Nat, m \in T
      PROVE  m + 1 \in T
  <2> SUFFICES ASSUME NEW R \in SUBSET (1..(m + 1)), R # {}
               PROVE  \E x \in R : \A y \in R : x >= y
    OBVIOUS
  <2>1. CASE m + 1 \in R
    BY <2>1
  <2>2. CASE m + 1 \notin R
    <3>1. R \in SUBSET (1..m)
      BY <2>2
    <3> QED
      BY <1>2, <3>1
  <2> QED
    BY <2>1, <2>2
<1> HIDE DEF T
<1>3. n \in T
  BY <1>1, <1>2, Stack!SetInduction
<1>4. \E x \in S : \A y \in S : x >= y
  BY <1>3 DEF T
<1> QED
  BY <1>4 DEF Max

LEMMA FoldExists ==
    ASSUME NEW h, NEW q, NEW n \in Nat
    PROVE  \E F : FoldEqn(h, q, n, F)
<1> DEFINE T == {m \in Nat : \E F : FoldEqn(h, q, m, F)}
<1>1. 0 \in T
  <2> DEFINE F == [S \in SUBSET (1..0) |-> h]
  <2>1. SUBSET (1..0) = {{}}
    OBVIOUS
  <2>2. FoldEqn(h, q, 0, F)
    BY <2>1 DEF FoldEqn
  <2> QED
    BY <2>2
<1>2. ASSUME NEW m \in Nat, m \in T
      PROVE  m + 1 \in T
  <2>1. PICK F : FoldEqn(h, q, m, F)
    BY <1>2
  <2>2. \A S \in SUBSET (1..m) :
          F[S] = IF S = {} THEN h
                 ELSE Registered(F[S \ {Max(S)}], q[Max(S)])
    BY <2>1 DEF FoldEqn
  <2> DEFINE G == [S \in SUBSET (1..(m + 1)) |->
                     IF m + 1 \in S
                     THEN Registered(F[S \ {m + 1}], q[m + 1]) ELSE F[S]]
             H == [S \in SUBSET (1..(m + 1)) |->
                     IF S = {} THEN h
                     ELSE Registered(G[S \ {Max(S)}], q[Max(S)])]
  <2>3. ASSUME NEW S \in SUBSET (1..(m + 1))
        PROVE  G[S] = H[S]
    <3>1. CASE m + 1 \in S
      <4>1. Max(S) = m + 1 /\ S # {}
        BY <3>1, MaxIsTop
      <4>2. S \ {m + 1} \in SUBSET (1..m) /\ m + 1 \notin S \ {m + 1}
        BY <3>1
      <4>3. S \ {m + 1} \in SUBSET (1..(m + 1))
        OBVIOUS
      <4>4. G[S \ {m + 1}] = F[S \ {m + 1}]
        BY <4>2, <4>3
      <4>5. G[S] = Registered(F[S \ {m + 1}], q[m + 1])
        BY <3>1
      <4>6. H[S] = Registered(G[S \ {m + 1}], q[m + 1])
        BY <4>1
      <4> QED
        BY <4>4, <4>5, <4>6
    <3>2. CASE m + 1 \notin S
      <4>1. S \in SUBSET (1..m) /\ G[S] = F[S]
        BY <3>2
      <4>2. CASE S = {}
        BY <2>2, <4>1, <4>2
      <4>3. CASE S # {}
        <5>1. Max(S) \in S
          BY <4>1, <4>3, MaxIsIn
        <5>2. S \ {Max(S)} \in SUBSET (1..m) /\ m + 1 \notin S \ {Max(S)}
          BY <4>1, <3>2
        <5>3. G[S \ {Max(S)}] = F[S \ {Max(S)}]
          BY <5>2
        <5>4. H[S] = Registered(G[S \ {Max(S)}], q[Max(S)])
          BY <4>3
        <5>5. F[S] = Registered(F[S \ {Max(S)}], q[Max(S)])
          BY <2>2, <4>1, <4>3
        <5> QED
          BY <4>1, <5>3, <5>4, <5>5
      <4> QED
        BY <4>2, <4>3
    <3> QED
      BY <3>1, <3>2
  <2>4. G = H
    BY <2>3
  <2>5. FoldEqn(h, q, m + 1, G)
    BY <2>4 DEF FoldEqn
  <2> QED
    BY <2>5
<1> HIDE DEF T
<1>3. n \in T
  BY <1>1, <1>2, Stack!SetInduction
<1> QED
  BY <1>3 DEF T

(* api_register_emit_hook for each exporter of a queue, on hooks where     *)
(* nothing is registered: they are linked, and nothing else is.            *)
LEMMA FoldLinks ==
    ASSUME NEW h \in HookSet, Linked(<<>>, h),
           NEW q \in Seq(Exporters), IsInjective(q)
    PROVE  /\ FoldLeft(Registered, h, q) \in HookSet
           /\ \E c : /\ Linked(c, FoldLeft(Registered, h, q))
                     /\ ToSet(c) = ToSet(q)
<1> DEFINE L == Len(q)
           F == CHOOSE F : FoldEqn(h, q, L, F)
<1>1. L \in Nat /\ DOMAIN q = 1..L
  OBVIOUS
<1>2. FoldEqn(h, q, L, F)
  BY <1>1, FoldExists
<1>3. FoldLeft(Registered, h, q) = F[1..L]
  BY <1>1 DEF FoldLeft, MapThenFoldSet, FoldEqn
<1> HIDE DEF F, L
<1>4. \A S \in SUBSET (1..L) :
        F[S] = IF S = {} THEN h
               ELSE Registered(F[S \ {Max(S)}], q[Max(S)])
  BY <1>2 DEF FoldEqn
<1> DEFINE Firsts(n) == {q[k] : k \in 1..n}
           T == {n \in Nat : n <= L =>
                   /\ F[1..n] \in HookSet
                   /\ \E c : Linked(c, F[1..n]) /\ ToSet(c) = Firsts(n)}
<1>5. 0 \in T
  <2>1. 1..0 = {} /\ 1..0 \in SUBSET (1..L)
    OBVIOUS
  <2>2. F[1..0] = h
    BY <1>4, <2>1
  <2>3. ToSet(<<>>) = Firsts(0)
    BY DEF ToSet
  <2> QED
    BY <2>2, <2>3
<1>6. ASSUME NEW n \in Nat, n \in T
      PROVE  n + 1 \in T
  <2> SUFFICES ASSUME n + 1 <= L
               PROVE  /\ F[1..(n + 1)] \in HookSet
                      /\ \E c : Linked(c, F[1..(n + 1)]) /\ ToSet(c) = Firsts(n + 1)
    OBVIOUS
  <2> DEFINE g == F[1..n]
             e == q[n + 1]
  <2>1. PICK c : Linked(c, g) /\ ToSet(c) = Firsts(n)
    BY <1>1, <1>6
  <2>2. g \in HookSet
    BY <1>1, <1>6
  <2>3. n + 1 \in 1..L /\ e \in Exporters
    BY <1>1
  <2>4. e \notin Firsts(n)
    <3> SUFFICES ASSUME NEW k \in 1..n, q[k] = e
                 PROVE  FALSE
      OBVIOUS
    <3>1. k \in 1..L /\ k # n + 1
      BY <1>1
    <3> QED
      BY <1>1, <2>3, <3>1 DEF IsInjective
  <2>5. F[1..(n + 1)] = Registered(g, e)
    <3>1. /\ 1..(n + 1) \in SUBSET (1..L) /\ n + 1 \in 1..(n + 1)
          /\ (1..(n + 1)) \ {n + 1} = 1..n
      BY <1>1
    <3>2. Max(1..(n + 1)) = n + 1
      BY <3>1, MaxIsTop
    <3>3. 1..(n + 1) # {}
      BY <3>1
    <3>4. F[1..(n + 1)] = Registered(F[(1..(n + 1)) \ {Max(1..(n + 1))}],
                                     q[Max(1..(n + 1))])
      BY <1>4, <3>1, <3>3
    <3> QED
      BY <3>1, <3>2, <3>4
  <2>6. Firsts(n + 1) = Firsts(n) \union {e}
    <3>1. \A k : k \in 1..(n + 1) <=> k \in 1..n \/ k = n + 1
      OBVIOUS
    <3> QED
      BY <3>1
  <2> HIDE DEF g, e, Firsts
  <2>7. /\ Registered(g, e) \in HookSet
        /\ Linked(<<e>> \o c, Registered(g, e))
        /\ ToSet(<<e>> \o c) = Firsts(n) \union {e}
    BY <2>1, <2>2, <2>3, <2>4, RegisteredLinks
  <2> QED
    BY <2>5, <2>6, <2>7
<1> HIDE DEF T
<1>7. L \in T
  BY <1>1, <1>5, <1>6, Stack!SetInduction
<1>8. Firsts(L) = ToSet(q)
  BY <1>1 DEF ToSet
<1> HIDE DEF Firsts
<1>9. F[1..L] \in HookSet /\ \E c : Linked(c, F[1..L]) /\ ToSet(c) = ToSet(q)
  BY <1>1, <1>7, <1>8 DEF T
<1> QED
  BY <1>3, <1>9

(* Chain's recursive function exists.                                      *)
WalkEqn(n, F) ==
    F = [k \in 1..n |-> IF k = 1 THEN emit_hook
                        ELSE IF F[k - 1] = NoHook THEN NoHook
                        ELSE prev[F[k - 1]]]

LEMMA WalkExists ==
    ASSUME NEW n \in Nat
    PROVE  \E F : WalkEqn(n, F)
<1> DEFINE T == {m \in Nat : \E F : WalkEqn(m, F)}
<1>1. 0 \in T
  <2> DEFINE F == [k \in 1..0 |-> NoHook]
  <2>1. WalkEqn(0, F)
    BY DEF WalkEqn
  <2> QED
    BY <2>1
<1>2. ASSUME NEW m \in Nat, m \in T
      PROVE  m + 1 \in T
  <2>1. PICK F : WalkEqn(m, F)
    BY <1>2
  <2>2. \A k \in 1..m : F[k] = IF k = 1 THEN emit_hook
                               ELSE IF F[k - 1] = NoHook THEN NoHook
                               ELSE prev[F[k - 1]]
    BY <2>1 DEF WalkEqn
  <2> DEFINE top == IF m + 1 = 1 THEN emit_hook
                    ELSE IF F[m] = NoHook THEN NoHook ELSE prev[F[m]]
             G == [k \in 1..(m + 1) |-> IF k = m + 1 THEN top ELSE F[k]]
             H == [k \in 1..(m + 1) |->
                     IF k = 1 THEN emit_hook
                     ELSE IF G[k - 1] = NoHook THEN NoHook ELSE prev[G[k - 1]]]
  <2>3. ASSUME NEW k \in 1..(m + 1)
        PROVE  G[k] = H[k]
    <3>1. CASE k = m + 1
      <4>1. k # 1 => G[k - 1] = F[m]
        BY <3>1
      <4> QED
        BY <3>1, <4>1
    <3>2. CASE k # m + 1
      <4>1. k \in 1..m /\ G[k] = F[k]
        BY <3>2
      <4>2. k # 1 => G[k - 1] = F[k - 1]
        BY <4>1
      <4>3. F[k] = IF k = 1 THEN emit_hook
                   ELSE IF F[k - 1] = NoHook THEN NoHook ELSE prev[F[k - 1]]
        BY <2>2, <4>1
      <4> QED
        BY <4>1, <4>2, <4>3
    <3> QED
      BY <3>1, <3>2
  <2>4. G = H
    BY <2>3
  <2>5. WalkEqn(m + 1, G)
    BY <2>4 DEF WalkEqn
  <2> QED
    BY <2>5
<1> HIDE DEF T
<1>3. n \in T
  BY <1>1, <1>2, Stack!SetInduction
<1> QED
  BY <1>3 DEF T

(* Walking from the hook passes what is linked, in order and all of it.    *)
LEMMA ChainIs ==
    ASSUME NEW c, Linked(c, Hooks)
    PROVE  Chain = c
<1> DEFINE N == Cardinality(Exporters) + 1
           F == CHOOSE F : WalkEqn(N, F)
<1>1. Cardinality(Exporters) \in Nat /\ N \in Nat
  BY ModuleLoadingAssumption, FS_CardinalityType
<1>2. WalkEqn(N, F)
  BY <1>1, WalkExists
<1>3. Chain = [k \in {k \in 1..N : F[k] # NoHook} |-> F[k]]
  BY DEF Chain, WalkEqn
<1> HIDE DEF F
<1>4. \A k \in 1..N : F[k] = IF k = 1 THEN emit_hook
                             ELSE IF F[k - 1] = NoHook THEN NoHook
                             ELSE prev[F[k - 1]]
  BY <1>2 DEF WalkEqn
<1>5. /\ c \in Seq(Exporters) /\ Len(c) \in Nat /\ DOMAIN c = 1..Len(c)
      /\ IsInjective(c)
      /\ emit_hook = IF c = <<>> THEN NoHook ELSE c[1]
      /\ \A k \in 1..Len(c) :
           prev[c[k]] = IF k < Len(c) THEN c[k + 1] ELSE NoHook
  BY DEF Linked, Hooks
<1>6. Len(c) <= Cardinality(Exporters)
  <2>1. c \in [1..Len(c) -> Exporters]
    BY <1>5
  <2>2. c \in Injection(1..Len(c), Exporters)
    BY <1>5, <2>1 DEF Injection
  <2>3. Cardinality(1..Len(c)) <= Cardinality(Exporters)
    BY <2>2, FS_Injection, ModuleLoadingAssumption
  <2>4. Cardinality(1..Len(c)) = Len(c)
    BY <1>5, FS_Interval, SMTT(30)
  <2> QED
    BY <2>3, <2>4
<1> DEFINE At(k) == IF k <= Len(c) THEN c[k] ELSE NoHook
           T == {k \in Nat : k + 1 <= N => F[k + 1] = At(k + 1)}
<1> HIDE DEF N
<1>7. 0 \in T
  <2>1. F[1] = emit_hook
    BY <1>1, <1>4 DEF N
  <2>2. c = <<>> <=> Len(c) = 0
    BY <1>5
  <2> QED
    BY <1>5, <2>1, <2>2
<1>8. ASSUME NEW k \in Nat, k \in T
      PROVE  k + 1 \in T
  <2> SUFFICES ASSUME (k + 1) + 1 <= N
               PROVE  F[(k + 1) + 1] = At((k + 1) + 1)
    OBVIOUS
  <2>1. F[k + 1] = At(k + 1)
    BY <1>1, <1>8
  <2>2. F[k + 2] = IF F[k + 1] = NoHook THEN NoHook ELSE prev[F[k + 1]]
    <3>1. k + 2 \in 1..N /\ k + 2 # 1 /\ (k + 2) - 1 = k + 1
      BY <1>1
    <3> QED
      BY <1>4, <3>1
  <2>3. CASE k + 1 <= Len(c)
    <3>1. k + 1 \in 1..Len(c) /\ c[k + 1] \in Exporters
      BY <1>5, <2>3
    <3>2. F[k + 1] = c[k + 1] /\ F[k + 1] # NoHook
      BY <2>1, <3>1, NamesDiffer
    <3>3. prev[c[k + 1]] = IF k + 1 < Len(c) THEN c[(k + 1) + 1] ELSE NoHook
      BY <1>5, <3>1
    <3> QED
      BY <1>5, <2>2, <3>1, <3>2, <3>3
  <2>4. CASE ~(k + 1 <= Len(c))
    BY <1>5, <2>1, <2>2, <2>4
  <2> QED
    BY <2>3, <2>4
<1> HIDE DEF T
<1>9. \A k \in 1..N : F[k] = At(k)
  <2> TAKE k \in 1..N
  <2>1. k - 1 \in T /\ (k - 1) + 1 = k /\ k - 1 \in Nat
    <3>1. Nat \subseteq T
      BY <1>7, <1>8, Stack!SetInduction
    <3> QED
      BY <3>1
  <2> QED
    BY <1>1, <2>1 DEF T
<1>10. {k \in 1..N : F[k] # NoHook} = 1..Len(c)
  <2>1. ASSUME NEW k \in 1..N, F[k] # NoHook
        PROVE  k \in 1..Len(c)
    BY <1>5, <1>9, <2>1
  <2>2. ASSUME NEW k \in 1..Len(c)
        PROVE  k \in 1..N /\ F[k] # NoHook
    <3>1. k \in 1..N /\ c[k] \in Exporters
      BY <1>1, <1>5, <1>6 DEF N
    <3> QED
      BY <1>9, <3>1, NamesDiffer
  <2> QED
    BY <2>1, <2>2
<1>11. \A k \in 1..Len(c) : F[k] = c[k]
  BY <1>9, <1>10
<1>12. c = [k \in 1..Len(c) |-> c[k]]
  BY <1>5
<1> QED
  BY <1>3, <1>10, <1>11, <1>12

-----------------------------------------------------------------------------
(* The inductive invariant.                                                *)

LoadingTypes ==
    /\ phase \in {"preload", "running"}
    /\ to_load \subseteq Exporters \union {Api}
    /\ slot \in BOOLEAN /\ pending \in Seq(Exporters)
    /\ Hooks \in HookSet
    /\ root_cache \in [Units -> Cached] /\ table_cache \in [Units -> Cached]
    /\ too_early \subseteq LogUnits

Loaded == Exporters \ to_load

(* Before the slot is filled all that is loaded is queued, and nothing is  *)
(* registered; after that the queue is empty, and what is loaded and fits  *)
(* is linked.                                                              *)
QueueOrChain(c) ==
    IF slot
    THEN /\ pending = <<>>
         /\ ToSet(c) \subseteq Loaded
         /\ RootFits \intersect TableFits \intersect Loaded \subseteq ToSet(c)
    ELSE /\ c = <<>> /\ IsInjective(pending)
         /\ ToSet(pending) = Loaded

HooksLinked == \E c : Linked(c, Hooks) /\ QueueOrChain(c)

(* otel_api is loaded while libraries are preloaded or never, and then     *)
(* nobody has looked up yet who was not too early.                         *)
SlotIsSettled ==
    /\ slot \/ phase = "running" => Api \notin to_load
    /\ phase = "preload" /\ ~slot =>
         \A u \in Units \ too_early :
            root_cache[u] = "unset" /\ table_cache[u] = "unset"

(* Who was too early has looked up, and keeps the answer it got.           *)
CachesAgree ==
    \A u \in Units :
      /\ u \in too_early =>
           root_cache[u] = "missing" /\ table_cache[u] = "missing"
      /\ root_cache[u] # "unset" =>
           (root_cache[u] = "found") =
              (slot /\ u \in RootFits /\ u \notin too_early)
      /\ table_cache[u] # "unset" =>
           (table_cache[u] = "found") =
              (/\ slot /\ u \in RootFits \intersect TableFits
               /\ u \notin too_early)

LoadingInv == LoadingTypes /\ HooksLinked /\ SlotIsSettled /\ CachesAgree

LEMMA HooksFields ==
    /\ Hooks.hook = emit_hook /\ Hooks.prev = prev
    /\ Hooks.possible = recording_possible
BY DEF Hooks

(* Setting the three variables sets their record.                          *)
LEMMA SetHooksIs ==
    ASSUME NEW h \in HookSet, SetHooks(h)
    PROVE  Hooks' = h
<1>1. h = [hook |-> h.hook, prev |-> h.prev, possible |-> h.possible]
  BY DEF HookSet
<1>2. Hooks' = [hook |-> h.hook, prev |-> h.prev, possible |-> h.possible]
  BY DEF Hooks, SetHooks
<1> QED
  BY <1>1, <1>2

LEMMA HooksUnchanged ==
    ASSUME UNCHANGED hookVars
    PROVE  Hooks' = Hooks
BY DEF hookVars, Hooks

LEMMA LoadingStarts == LoadingInit => LoadingInv
<1> SUFFICES ASSUME LoadingInit
             PROVE  LoadingInv
  OBVIOUS
<1>1. Hooks \in HookSet
  BY DEF LoadingInit, Hooks, HookSet, Hook
<1>2. <<>> \in Seq(Exporters) /\ DOMAIN <<>> = {} /\ Len(<<>>) = 0
  OBVIOUS
<1>3. IsInjective(<<>>) /\ ToSet(<<>>) = {}
  BY <1>2 DEF IsInjective, ToSet
<1>4. Linked(<<>>, Hooks)
  <2>1. Hooks.possible = FALSE /\ Hooks.hook = NoHook
    BY DEF Hooks, LoadingInit
  <2>2. Hooks.possible = (<<>> # <<>>)
    BY <2>1
  <2> QED
    BY <1>2, <1>3, <2>1, <2>2 DEF Linked
<1>5. QueueOrChain(<<>>)
  <2>1. Loaded = {}
    BY DEF LoadingInit, Loaded
  <2> QED
    BY <1>3, <2>1 DEF QueueOrChain, LoadingInit
<1>6. LoadingTypes
  BY <1>1, <1>2 DEF LoadingInit, LoadingTypes, Cached
<1>7. SlotIsSettled /\ CachesAgree
  BY DEF LoadingInit, SlotIsSettled, CachesAgree
<1> QED
  BY <1>4, <1>5, <1>6, <1>7 DEF LoadingInv, HooksLinked

(* Loading otel_api registers what is queued.                              *)
LEMMA LoadApiKeeps ==
    ASSUME LoadingInv, LoadApi
    PROVE  LoadingInv'
<1>1. /\ phase = "preload" /\ Api \in to_load /\ to_load' = to_load \ {Api}
      /\ slot' = TRUE /\ pending' = <<>> /\ phase' = phase
      /\ SetHooks(FoldLeft(Registered, Hooks, pending))
      /\ UNCHANGED cacheVars
  BY DEF LoadApi
<1>2. /\ slot = FALSE /\ Linked(<<>>, Hooks) /\ IsInjective(pending)
      /\ ToSet(pending) = Loaded
  BY <1>1 DEF LoadingInv, LoadingTypes, SlotIsSettled, HooksLinked,
              QueueOrChain
<1>3. Hooks \in HookSet /\ pending \in Seq(Exporters)
  BY DEF LoadingInv, LoadingTypes
<1>4. PICK c : /\ FoldLeft(Registered, Hooks, pending) \in HookSet
               /\ Linked(c, FoldLeft(Registered, Hooks, pending))
               /\ ToSet(c) = ToSet(pending)
  BY <1>2, <1>3, FoldLinks
<1>5. Hooks' = FoldLeft(Registered, Hooks, pending)
  BY <1>1, <1>4, SetHooksIs
<1>6. Loaded' = Loaded
  BY <1>1, NamesDiffer DEF Loaded
<1>7. HooksLinked'
  <2>1. Linked(c, Hooks')
    BY <1>4, <1>5
  <2>2. slot' /\ pending' = <<>> /\ ToSet(c) = Loaded'
    BY <1>1, <1>2, <1>4, <1>6
  <2>3. QueueOrChain(c)'
    BY <2>2 DEF QueueOrChain
  <2> QED
    BY <2>1, <2>3 DEF HooksLinked
<1>8. LoadingTypes'
  BY <1>1, <1>4, <1>5 DEF LoadingInv, LoadingTypes, cacheVars
<1>9. SlotIsSettled' /\ CachesAgree'
  BY <1>1 DEF LoadingInv, SlotIsSettled, CachesAgree, cacheVars
<1> QED
  BY <1>7, <1>8, <1>9 DEF LoadingInv

(* Loading an exporter registers it, refuses it or queues it.              *)
LEMMA LoadExporterKeeps ==
    ASSUME LoadingInv, NEW e \in Exporters, LoadExporter(e)
    PROVE  LoadingInv'
<1>1. /\ e \in to_load /\ to_load' = to_load \ {e}
      /\ phase' = phase /\ slot' = slot /\ UNCHANGED cacheVars
  BY DEF LoadExporter
<1>2. /\ Hooks \in HookSet /\ pending \in Seq(Exporters) /\ slot \in BOOLEAN
      /\ to_load \subseteq Exporters \union {Api}
  BY DEF LoadingInv, LoadingTypes
<1>3. Loaded' = Loaded \union {e} /\ e \notin Loaded
  BY <1>1 DEF Loaded
<1>4. PICK c : Linked(c, Hooks) /\ QueueOrChain(c)
  BY DEF LoadingInv, HooksLinked
<1>5. /\ Hooks' \in HookSet /\ pending' \in Seq(Exporters)
      /\ \E d : Linked(d, Hooks') /\ QueueOrChain(d)'
  <2>1. CASE slot /\ e \in RootFits \intersect TableFits
    <3>1. SetHooks(Registered(Hooks, e)) /\ pending' = pending
      BY <2>1 DEF LoadExporter
    <3>2. /\ pending = <<>> /\ ToSet(c) \subseteq Loaded
          /\ RootFits \intersect TableFits \intersect Loaded \subseteq ToSet(c)
      BY <1>4, <2>1 DEF QueueOrChain
    <3>3. /\ Registered(Hooks, e) \in HookSet
          /\ Linked(<<e>> \o c, Registered(Hooks, e))
          /\ ToSet(<<e>> \o c) = ToSet(c) \union {e}
      BY <1>2, <1>3, <1>4, <3>2, RegisteredLinks
    <3>4. Hooks' = Registered(Hooks, e)
      BY <3>1, <3>3, SetHooksIs
    <3>5. /\ ToSet(<<e>> \o c) \subseteq Loaded'
          /\ RootFits \intersect TableFits \intersect Loaded'
               \subseteq ToSet(<<e>> \o c)
      BY <1>3, <3>2, <3>3
    <3>6. QueueOrChain(<<e>> \o c)'
      BY <1>1, <2>1, <3>1, <3>2, <3>5 DEF QueueOrChain
    <3> QED
      BY <1>2, <3>1, <3>3, <3>4, <3>6
  <2>2. CASE slot /\ e \notin RootFits \intersect TableFits
    <3>1. SetHooks(Hooks) /\ pending' = pending
      BY <2>2 DEF LoadExporter
    <3>2. Hooks' = Hooks
      BY <1>2, <3>1, SetHooksIs
    <3>3. /\ pending = <<>> /\ ToSet(c) \subseteq Loaded
          /\ RootFits \intersect TableFits \intersect Loaded \subseteq ToSet(c)
      BY <1>4, <2>2 DEF QueueOrChain
    <3>4. /\ ToSet(c) \subseteq Loaded'
          /\ RootFits \intersect TableFits \intersect Loaded' \subseteq ToSet(c)
      BY <1>3, <2>2, <3>3
    <3>5. QueueOrChain(c)'
      BY <1>1, <2>2, <3>1, <3>3, <3>4 DEF QueueOrChain
    <3> QED
      BY <1>2, <1>4, <3>1, <3>2, <3>5
  <2>3. CASE ~slot
    <3>1. pending' = <<e>> \o pending /\ UNCHANGED hookVars
      BY <2>3 DEF LoadExporter
    <3>2. Hooks' = Hooks
      BY <3>1, HooksUnchanged
    <3>3. c = <<>> /\ IsInjective(pending) /\ ToSet(pending) = Loaded
      BY <1>4, <2>3 DEF QueueOrChain
    <3>4. /\ pending' \in Seq(Exporters) /\ IsInjective(pending')
          /\ ToSet(pending') = Loaded \union {e}
      BY <1>2, <1>3, <3>1, <3>3, PushedInjective
    <3>5. QueueOrChain(c)'
      BY <1>1, <1>3, <2>3, <3>3, <3>4 DEF QueueOrChain
    <3> QED
      BY <1>2, <1>4, <3>2, <3>4, <3>5
  <2> QED
    BY <1>2, <2>1, <2>2, <2>3
<1>6. HooksLinked'
  BY <1>5 DEF HooksLinked
<1>7. LoadingTypes'
  BY <1>1, <1>5 DEF LoadingInv, LoadingTypes, cacheVars
<1>8. SlotIsSettled' /\ CachesAgree'
  BY <1>1 DEF LoadingInv, SlotIsSettled, CachesAgree, cacheVars
<1> QED
  BY <1>6, <1>7, <1>8 DEF LoadingInv

(* otel_producer_api finds what there will be from then on, unless it is   *)
(* asked before otel_api is loaded.                                        *)
LEMMA LookupKeeps ==
    ASSUME LoadingInv, NEW u \in Units, otel_producer_api(u),
           phase = "running" \/ u \in LogUnits
    PROVE  LoadingInv'
<1>1. UNCHANGED <<phase, to_load, slot, pending, hookVars>>
  BY DEF otel_producer_api
<1>2. Hooks' = Hooks
  BY <1>1, HooksUnchanged
<1>3. /\ root_cache \in [Units -> Cached] /\ table_cache \in [Units -> Cached]
      /\ CachesAgree /\ SlotIsSettled
      /\ too_early \subseteq LogUnits /\ LogUnits \subseteq Units
      /\ phase \in {"preload", "running"} /\ slot \in BOOLEAN
  BY ModuleLoadingAssumption DEF LoadingInv, LoadingTypes
<1>4. /\ root_cache' \in [Units -> Cached] /\ table_cache' \in [Units -> Cached]
      /\ too_early' \subseteq LogUnits
      /\ CachesAgree' /\ SlotIsSettled'
  <2>1. CASE table_cache[u] # "unset"
    <3>1. UNCHANGED cacheVars
      BY <2>1 DEF otel_producer_api
    <3> QED
      BY <1>1, <1>3, <3>1 DEF CachesAgree, SlotIsSettled, cacheVars
  <2>2. CASE table_cache[u] = "unset"
    <3> DEFINE root == otel_api_get(u)
               table == IF root = "found" /\ u \in TableFits
                        THEN "found" ELSE "missing"
    <3>1. /\ root_cache' = [root_cache EXCEPT ![u] = root]
          /\ table_cache' = [table_cache EXCEPT ![u] = table]
          /\ too_early' = IF phase = "preload" /\ ~slot
                          THEN too_early \union {u} ELSE too_early
      BY <2>2 DEF otel_producer_api
    <3>2. /\ u \notin too_early
          /\ root \in Cached /\ root # "unset"
          /\ (root = "found") = (slot /\ u \in RootFits)
      BY <1>3, <2>2 DEF otel_api_get, Cached, CachesAgree
    <3>3. /\ table \in Cached /\ table # "unset"
          /\ (table = "found") = (slot /\ u \in RootFits \intersect TableFits)
      BY <3>2 DEF Cached
    <3>9. /\ too_early' \subseteq LogUnits
          /\ u \in too_early' => ~slot /\ root = "missing" /\ table = "missing"
          /\ phase = "preload" /\ ~slot => u \in too_early'
          /\ \A w \in Units : w # u => (w \in too_early') = (w \in too_early)
      BY <1>3, <3>1, <3>2, <3>3 DEF Cached
    <3> HIDE DEF root, table
    <3>4. \A w \in Units :
            /\ root_cache'[w] = IF w = u THEN root ELSE root_cache[w]
            /\ table_cache'[w] = IF w = u THEN table ELSE table_cache[w]
      BY <1>3, <3>1
    <3>5. CachesAgree'
      BY <1>1, <1>3, <3>2, <3>3, <3>4, <3>9 DEF CachesAgree
    <3>6. SlotIsSettled'
      BY <1>1, <1>3, <3>4, <3>9 DEF SlotIsSettled
    <3> QED
      BY <1>3, <3>1, <3>2, <3>3, <3>5, <3>6, <3>9
  <2> QED
    BY <2>1, <2>2
<1>5. Loaded' = Loaded
  BY <1>1 DEF Loaded
<1>6. HooksLinked'
  <2>1. PICK c : Linked(c, Hooks) /\ QueueOrChain(c)
    BY DEF LoadingInv, HooksLinked
  <2>2. QueueOrChain(c)'
    BY <1>1, <1>5, <2>1 DEF QueueOrChain
  <2> QED
    BY <1>2, <2>1, <2>2 DEF HooksLinked
<1>7. LoadingTypes'
  BY <1>1, <1>2, <1>4 DEF LoadingInv, LoadingTypes
<1> QED
  BY <1>4, <1>6, <1>7 DEF LoadingInv

LEMMA LoadingKeeps == LoadingInv /\ [LoadingNext]_loadingVars => LoadingInv'
<1> SUFFICES ASSUME LoadingInv, [LoadingNext]_loadingVars
             PROVE  LoadingInv'
  OBVIOUS
<1>1. CASE LoadApi
  BY <1>1, LoadApiKeeps
<1>2. ASSUME NEW e \in Exporters, LoadExporter(e)
      PROVE  LoadingInv'
  BY <1>2, LoadExporterKeeps
<1>3. ASSUME NEW u \in Units, ProducerCalls(u) \/ otel_emit_log_hook(u)
      PROVE  LoadingInv'
  BY <1>3, LookupKeeps DEF ProducerCalls, otel_emit_log_hook
<1>4. ASSUME UNCHANGED <<slot, pending, hookVars, cacheVars>>,
             Loaded' = Loaded, to_load' \subseteq to_load,
             phase' = phase \/ (phase' = "running" /\ Api \notin to_load')
      PROVE  LoadingInv'
  <2>1. Hooks' = Hooks
    BY <1>4, HooksUnchanged
  <2>2. PICK c : Linked(c, Hooks) /\ QueueOrChain(c)
    BY DEF LoadingInv, HooksLinked
  <2>3. QueueOrChain(c)'
    BY <1>4, <2>2 DEF QueueOrChain
  <2>4. HooksLinked'
    BY <2>1, <2>2, <2>3 DEF HooksLinked
  <2>5. LoadingTypes' /\ SlotIsSettled' /\ CachesAgree'
    BY <1>4, <2>1
       DEF LoadingInv, LoadingTypes, SlotIsSettled, CachesAgree, cacheVars
  <2> QED
    BY <2>4, <2>5 DEF LoadingInv
<1>5. CASE PreloadDone
  <2>1. Loaded' = Loaded
    BY <1>5, NamesDiffer DEF PreloadDone, Loaded
  <2>2. to_load' \subseteq to_load /\ phase' = "running" /\ Api \notin to_load'
    BY <1>5 DEF PreloadDone
  <2> QED
    BY <1>4, <1>5, <2>1, <2>2 DEF PreloadDone
<1>6. ASSUME NEW u \in Units, NEW k \in Keys, NEW v \in Values,
             ResourceAdd(u, k, v)
      PROVE  LoadingInv'
  BY <1>4, <1>6 DEF ResourceAdd, Loaded
<1>7. CASE UNCHANGED loadingVars
  BY <1>4, <1>7 DEF loadingVars, Loaded
<1> QED
  BY <1>1, <1>2, <1>3, <1>5, <1>6, <1>7 DEF LoadingNext

-----------------------------------------------------------------------------

(* The inductive invariant of the loading of modules: the hooks are        *)
(* linked, otel_api is loaded before the other libraries are done or never *)
(* (otel_api_publish_rendezvous), and a lookup that came before it is what *)
(* keeps a cached answer from being the present one (otel_api_get).        *)
THEOREM LoadingInvariant == LoadingSpec => []LoadingInv
BY LoadingStarts, LoadingKeeps, PTL DEF LoadingSpec

(* However otel_api and the exporters are ordered, once otel_api is loaded *)
(* every exporter that fits is called for every span exactly once: those   *)
(* that queued (otel_api_publish_rendezvous) and those that came later     *)
(* (otel_exporter_register_when_ready).                                    *)
THEOREM ExportersAreServed == LoadingSpec => []EveryExporterIsServed
<1>1. LoadingInv => EveryExporterIsServed
  <2> SUFFICES ASSUME LoadingInv
               PROVE  EveryExporterIsServed
    OBVIOUS
  <2>1. PICK c : Linked(c, Hooks) /\ QueueOrChain(c)
    BY DEF LoadingInv, HooksLinked
  <2>2. Chain = c
    BY <2>1, ChainIs
  <2>3. recording_possible = (emit_hook # NoHook)
    <3>1. recording_possible = (c # <<>>)
      BY <2>1, HooksFields, Zenon DEF Linked
    <3>2. emit_hook = IF c = <<>> THEN NoHook ELSE c[1]
      BY <2>1, HooksFields DEF Linked
    <3>3. c # <<>> => c[1] \in Exporters
      <4>1. c \in Seq(Exporters)
        BY <2>1 DEF Linked
      <4> QED
        BY <4>1
    <3>4. c # <<>> <=> emit_hook # NoHook
      BY <3>2, <3>3, NamesDiffer
    <3> QED
      BY <3>1, <3>4
  <2>4. slot \in BOOLEAN /\ IsInjective(c)
    BY <2>1 DEF LoadingInv, LoadingTypes, Linked
  <2>5. CASE slot
    BY <2>1, <2>2, <2>3, <2>4, <2>5
       DEF EveryExporterIsServed, QueueOrChain, Loaded
  <2>6. CASE ~slot
    BY <2>1, <2>3, <2>6 DEF EveryExporterIsServed, QueueOrChain, Loaded
  <2> QED
    BY <2>4, <2>5, <2>6
<1> QED
  BY <1>1, LoadingInvariant, PTL

(* What a translation unit looked up once (otel_api_get,                   *)
(* otel_producer_api) is what it would find now, unless otel_emit_log_hook *)
(* looked it up before otel_api was loaded; that answer never recovers.    *)
THEOREM CachedLookupsAreCurrent == LoadingSpec => []LookupsAreCurrent
<1>1. LoadingInv => LookupsAreCurrent
  BY DEF LoadingInv, CachesAgree, LookupsAreCurrent
<1> QED
  BY <1>1, LoadingInvariant, PTL
=============================================================================
